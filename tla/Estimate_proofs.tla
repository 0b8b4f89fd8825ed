---------------------------- MODULE Estimate_proofs ----------------------------
(***************************************************************************)
(* Two ways into an estimate, for any number of steps and actors.          *)
(*                                                                         *)
(* The takeoff: with one click at a time and answers that arrive, no       *)
(* takeoff is ordered twice unless a crash cut an order short; any number  *)
(* of ingests never overwrite an estimator's number; one ingest at a time  *)
(* never lets a number drift silently.                                     *)
(*                                                                         *)
(* The editors: however requests are refused, lost, cut short or           *)
(* overtaken, an editor at rest diffs against the rows that are stored; a  *)
(* save nothing disturbed stores the draft exactly, and no row goes that   *)
(* the estimator did not remove.                                           *)
(***************************************************************************)
EXTENDS BeamTakeoff, EditorSave, FiniteSetTheorems, FunctionTheorems, WellFoundedInduction, TLAPS

(***************************************************************************)
(*                              THE TAKEOFF                                *)
(***************************************************************************)
-----------------------------------------------------------------------------
(* Operators.                                                               *)

\* A set of numbers up to n has a greatest: n - x is least for some x.
LEMMA Greatest ==
  ASSUME NEW n \in Nat, NEW S, S \subseteq 1..n, S # {}
  PROVE  Max(S) \in S /\ \A y \in S : Max(S) >= y
<1> DEFINE T == {n - x : x \in S}
<1>1. T \subseteq Nat /\ T # {}
  <2>1. \A x \in S : x \in Nat /\ x <= n /\ n - x \in Nat
    OBVIOUS
  <2> QED BY <2>1
<1>2. \E m \in T : \A k \in T : ~(<<k, m>> \in OpToRel(<, Nat))
  BY <1>1, NatLessThanWellFounded, WFMin
<1>3. PICK m \in T : \A k \in T : ~(k < m)
  BY <1>1, <1>2 DEF OpToRel
<1>4. PICK x \in S : m = n - x
  BY <1>3
<1>5. ASSUME NEW y \in S PROVE x >= y
  <2>1. n - y \in T
    OBVIOUS
  <2> QED BY <1>3, <1>4, <2>1
<1> QED BY <1>4, <1>5 DEF Max

LEMMA NewestType ==
  /\ Newest \in {0} \cup Version /\ Newest \in Nat
  /\ Stored # {} => Newest \in Stored
<1>1. Stored \subseteq Version /\ Version = 1..Len(Value) /\ Len(Value) \in Nat
  BY TakeoffAssumption DEF Stored, Version
<1>2. Stored # {} => Max(Stored) \in Stored
  BY <1>1, Greatest
<1>3. CASE Stored = {}
  BY <1>3 DEF Newest
<1>4. CASE Stored # {}
  <2>1. Newest \in Stored
    BY <1>2, <1>4 DEF Newest
  <2> QED BY <1>1, <2>1
<1> QED BY <1>3, <1>4

\* The sum of what was applied, where each version was applied as it is.
LEMMA PreviousIsSum ==
  ASSUME \A v \in Version : outputs[v].applied \in {NoValue, Value[v]}
  PROVE  Previous = MapThenSumSet(LAMBDA v : Value[v], Applied)
<1>1. \A v \in Applied : outputs[v].applied = Value[v]
  BY DEF Applied
<1>2. Previous = MapThenSumSet(LAMBDA v : outputs[v].applied, Applied)
  BY DEF Previous
<1> DEFINE Sum(f(_), g) == [s \in SUBSET Applied |->
                 IF s = {} THEN 0 ELSE LET x == CHOOSE x \in s : TRUE IN f(x) + g[s \ {x}]]
           OfRows(g) == Sum(LAMBDA v : outputs[v].applied, g)
           OfValues(g) == Sum(LAMBDA v : Value[v], g)
<1>3. ASSUME NEW g PROVE OfRows(g) = OfValues(g)
  <2>1. \A s \in SUBSET Applied : s # {} =>
           outputs[CHOOSE x \in s : TRUE].applied = Value[CHOOSE x \in s : TRUE]
    BY <1>1
  <2> QED BY <2>1
<1>4. /\ MapThenSumSet(LAMBDA v : outputs[v].applied, Applied) = (CHOOSE g : g = OfRows(g))[Applied]
      /\ MapThenSumSet(LAMBDA v : Value[v], Applied) = (CHOOSE g : g = OfValues(g))[Applied]
  BY DEF MapThenSumSet, MapThenFoldSet
<1>5. (CHOOSE g : g = OfRows(g)) = (CHOOSE g : g = OfValues(g))
  <2> HIDE DEF OfRows, OfValues
  <2> QED BY <1>3
<1> QED BY <1>2, <1>4, <1>5

-----------------------------------------------------------------------------
(* Types.                                                                   *)

TaskType == [at : Step, status : RequestStatus, version : {0} \cup Version,
             priced : BOOLEAN, sqft : Nat]

\* An ingest that has chosen the version it is going to write.
Writing == {"read_section", "read_applied", "insert", "update", "record"}

BeamInv == BeamTypeOK /\ \A p \in Proc : task[p].at \in Writing => task[p].version \in Version

\* A step of one ingest moves it and no other.
Moves(p) == task' \in [Proc -> TaskType] /\ \A q \in Proc \ {p} : task'[q] = task[q]

LEMMA IdleType == Idle \in TaskType /\ Idle.at = "idle"
  BY DEF Idle, TaskType, Step, RequestStatus

LEMMA BeamTypes ==
  ASSUME BeamInv
  PROVE  /\ request \in [status : RequestStatus, submitted : BOOLEAN]
         /\ outputs \in [Version -> [stored : BOOLEAN, applied : OptValue]]
         /\ section \in [exists : BOOLEAN, sqft : Nat]
         /\ click \in [Click -> {"idle", "order", "persist"}] /\ task \in [Proc -> TaskType]
         /\ attentive \in [status : RequestStatus, version : {0} \cup Version]
         /\ orders \in 0..2 /\ wrote \in OptValue /\ reviewed \in {0} \cup Version
         /\ priced \in BOOLEAN /\ flag \in BOOLEAN /\ mishap \in BOOLEAN
  BY DEF BeamInv, BeamTypeOK, TaskType

LEMMA ValueType == \A v \in Version : Value[v] \in Nat /\ Value[v] # NoValue /\ Value[v] \in OptValue
  BY TakeoffAssumption DEF Version, OptValue

LEMMA TaskSteps ==
  ASSUME task \in [Proc -> TaskType], NEW p \in Proc
  PROVE  /\ \A step \in Step : Goto(p, step) =>
              /\ Moves(p) /\ task'[p].at = step
              /\ task'[p].version = task[p].version /\ task'[p].sqft = task[p].sqft
         /\ Finish(p) => Moves(p) /\ task'[p].at = "idle"
<1>1. ASSUME NEW step \in Step, Goto(p, step)
      PROVE  /\ Moves(p) /\ task'[p].at = step
             /\ task'[p].version = task[p].version /\ task'[p].sqft = task[p].sqft
  BY <1>1 DEF Goto, Moves, TaskType
<1>2. ASSUME Finish(p) PROVE Moves(p) /\ task'[p].at = "idle"
  BY <1>2, IdleType DEF Finish, Moves
<1> QED BY <1>1, <1>2

\* A step that also keeps what it has read.
LEMMA TaskReadsStatus ==
  ASSUME task \in [Proc -> TaskType], NEW p \in Proc, NEW step \in Step, NEW s \in RequestStatus,
         task' = [task EXCEPT ![p].at = step, ![p].status = s]
  PROVE  Moves(p) /\ task'[p].at = step
  BY DEF Moves, TaskType

LEMMA TaskReadsVersion ==
  ASSUME task \in [Proc -> TaskType], NEW p \in Proc, NEW step \in Step, NEW v \in {0} \cup Version,
         task' = [task EXCEPT ![p].at = step, ![p].version = v]
  PROVE  Moves(p) /\ task'[p].at = step /\ task'[p].version = v
  BY DEF Moves, TaskType

LEMMA TaskReadsPriced ==
  ASSUME task \in [Proc -> TaskType], NEW p \in Proc, NEW step \in Step, NEW b \in BOOLEAN,
         task' = [task EXCEPT ![p].at = step, ![p].priced = b]
  PROVE  Moves(p) /\ task'[p].at = step
  BY DEF Moves, TaskType

LEMMA TaskReadsSection ==
  ASSUME task \in [Proc -> TaskType], NEW p \in Proc, NEW step \in Step, NEW n \in Nat,
         task' = [task EXCEPT ![p].at = step, ![p].sqft = n]
  PROVE  /\ Moves(p) /\ task'[p].at = step
         /\ task'[p].version = task[p].version /\ task'[p].sqft = n
  BY DEF Moves, TaskType

\* What an ingest does to itself: where it goes, and with which version.
LEMMA IngestMoves ==
  ASSUME BeamInv, NEW p \in Proc
  PROVE  /\ Callback(p) \/ Sweep(p) => Moves(p) /\ task[p].at = "idle" /\ task'[p].at = "get_request"
         /\ GetRequest(p) => Moves(p) /\ task[p].at = "get_request" /\ task'[p].at = "get_outputs"
         /\ GetOutputs(p) => Moves(p) /\ task[p].at = "get_outputs" /\ task'[p].at = "persist_request"
         /\ FetchFails(p) => Moves(p) /\ task[p].at \in {"get_request", "get_outputs"} /\ task'[p].at = "idle"
         /\ PersistRequest(p) => Moves(p) /\ task[p].at = "persist_request" /\ task'[p].at = "persist_outputs"
         /\ PersistOutputs(p) => Moves(p) /\ task[p].at = "persist_outputs" /\ task'[p].at = "read_estimate"
         /\ ReadEstimate(p) => Moves(p) /\ task[p].at = "read_estimate" /\ task'[p].at = "read_latest"
         /\ ReadLatest(p) =>
              /\ Moves(p) /\ task[p].at = "read_latest"
              /\ \/ task'[p].at = "flag"
                 \/ task'[p].at = "idle" /\ Newest = 0
                 \/ task'[p].at = "read_section" /\ task'[p].version = Newest /\ Newest # 0
         /\ ReadSection(p) =>
              /\ Moves(p) /\ task[p].at = "read_section" /\ task'[p].version = task[p].version
              /\ task'[p].sqft = section.sqft
              /\ task'[p].at = IF section.exists THEN "read_applied" ELSE "insert"
         /\ ReadApplied(p) =>
              /\ Moves(p) /\ task[p].at = "read_applied" /\ task'[p].version = task[p].version
              /\ task'[p].at = IF Untouched(task[p].sqft) THEN "update" ELSE "flag"
         /\ WriteSection(p) =>
              /\ Moves(p) /\ task[p].at \in {"insert", "update"} /\ task'[p].at = "record"
              /\ task'[p].version = task[p].version
         /\ RecordApplied(p) => Moves(p) /\ task[p].at = "record" /\ task'[p].at = "idle"
         /\ FlagEstimate(p) => Moves(p) /\ task[p].at = "flag" /\ task'[p].at = "idle"
<1> USE BeamTypes
<1>1. Callback(p) \/ Sweep(p) => Moves(p) /\ task[p].at = "idle" /\ task'[p].at = "get_request"
  <2>1. Callback(p) \/ Sweep(p) => task[p].at = "idle" /\ Goto(p, "get_request")
    BY DEF Callback, Sweep, Start, Goto
  <2> QED BY <2>1, TaskSteps DEF Step
<1>2. GetRequest(p) => Moves(p) /\ task[p].at = "get_request" /\ task'[p].at = "get_outputs"
  BY TaskReadsStatus DEF GetRequest, Step
<1>3. GetOutputs(p) => Moves(p) /\ task[p].at = "get_outputs" /\ task'[p].at = "persist_request"
  <2>1. attentive.version \in {0} \cup Version /\ "persist_request" \in Step
    BY DEF Step
  <2> QED BY <2>1, TaskReadsVersion DEF GetOutputs
<1>4. FetchFails(p) => Moves(p) /\ task[p].at \in {"get_request", "get_outputs"} /\ task'[p].at = "idle"
  BY TaskSteps DEF FetchFails
<1>5. PersistRequest(p) => Moves(p) /\ task[p].at = "persist_request" /\ task'[p].at = "persist_outputs"
  BY TaskSteps DEF PersistRequest, Step
<1>6. PersistOutputs(p) => Moves(p) /\ task[p].at = "persist_outputs" /\ task'[p].at = "read_estimate"
  BY TaskSteps DEF PersistOutputs, Step
<1>7. ReadEstimate(p) => Moves(p) /\ task[p].at = "read_estimate" /\ task'[p].at = "read_latest"
  BY TaskReadsPriced DEF ReadEstimate, Step
<1>8. ASSUME ReadLatest(p)
      PROVE  /\ Moves(p) /\ task[p].at = "read_latest"
             /\ \/ task'[p].at = "flag"
                \/ task'[p].at = "idle" /\ Newest = 0
                \/ task'[p].at = "read_section" /\ task'[p].version = Newest /\ Newest # 0
  <2>1. CASE Goto(p, "flag")
    BY <1>8, <2>1, TaskSteps DEF ReadLatest, Step
  <2>2. CASE Newest = 0 /\ Finish(p)
    BY <1>8, <2>2, TaskSteps DEF ReadLatest
  <2>3. CASE Newest # 0 /\ task' = [task EXCEPT ![p].at = "read_section", ![p].version = Newest]
    <3>1. "read_section" \in Step
      BY DEF Step
    <3>2. Newest \in {0} \cup Version
      BY NewestType
    <3>3. Moves(p) /\ task'[p].at = "read_section" /\ task'[p].version = Newest
      BY <2>3, <3>1, <3>2, TaskReadsVersion
    <3> QED BY <1>8, <2>3, <3>3 DEF ReadLatest
  <2> QED BY <1>8, <2>1, <2>2, <2>3 DEF ReadLatest
<1>9. ASSUME ReadSection(p)
      PROVE  /\ Moves(p) /\ task[p].at = "read_section" /\ task'[p].version = task[p].version
             /\ task'[p].sqft = section.sqft
             /\ task'[p].at = IF section.exists THEN "read_applied" ELSE "insert"
  <2>1. PICK step \in Step : step = IF section.exists THEN "read_applied" ELSE "insert"
    BY DEF Step
  <2>2. task' = [task EXCEPT ![p].at = step, ![p].sqft = section.sqft]
    BY <1>9, <2>1 DEF ReadSection
  <2>3. section.sqft \in Nat /\ task \in [Proc -> TaskType]
    OBVIOUS
  <2>4. /\ Moves(p) /\ task'[p].at = step
        /\ task'[p].version = task[p].version /\ task'[p].sqft = section.sqft
    BY <2>2, <2>3, TaskReadsSection
  <2> QED BY <1>9, <2>1, <2>4 DEF ReadSection
<1>10. ReadApplied(p) =>
         /\ Moves(p) /\ task[p].at = "read_applied" /\ task'[p].version = task[p].version
         /\ task'[p].at = IF Untouched(task[p].sqft) THEN "update" ELSE "flag"
  BY TaskSteps DEF ReadApplied, Step
<1>11. WriteSection(p) =>
         /\ Moves(p) /\ task[p].at \in {"insert", "update"} /\ task'[p].at = "record"
         /\ task'[p].version = task[p].version
  BY TaskSteps DEF WriteSection, Step
<1>12. RecordApplied(p) => Moves(p) /\ task[p].at = "record" /\ task'[p].at = "idle"
  BY TaskSteps DEF RecordApplied
<1>13. FlagEstimate(p) => Moves(p) /\ task[p].at = "flag" /\ task'[p].at = "idle"
  BY TaskSteps DEF FlagEstimate
<1> QED BY <1>1, <1>2, <1>3, <1>4, <1>5, <1>6, <1>7, <1>8, <1>9, <1>10, <1>11, <1>12, <1>13

\* An ingest that moves as IngestMoves says has chosen a version when it writes.
LEMMA MoveKeepsInv ==
  ASSUME BeamInv, NEW p \in Proc, Moves(p), BeamTypeOK',
         task'[p].at \in Writing => task'[p].version \in Version
  PROVE  BeamInv'
  BY DEF BeamInv, Moves

LEMMA OrderTypes ==
  ASSUME BeamInv, NEW c \in Click,
         Generate(c) \/ PersistOrder(c) \/ \E answer \in Answers : Order(c, answer)
  PROVE  BeamInv'
<1> USE BeamTypes
<1>1. CASE Generate(c)
  BY <1>1 DEF Generate, BeamInv, BeamTypeOK, beamRows, outside, history
<1>2. CASE PersistOrder(c)
  BY <1>2 DEF PersistOrder, BeamInv, BeamTypeOK, outside, history, RequestStatus
<1>3. CASE \E answer \in Answers : Order(c, answer)
  <2>1. PICK answer \in Answers : Order(c, answer)
    BY <1>3
  <2>2. /\ click' \in [Click -> {"idle", "order", "persist"}]
        /\ UNCHANGED <<request, outputs, section, priced, flag, task, notice, wrote, reviewed, mishap>>
    BY <2>1 DEF Order, beamRows, history
  <2>3. orders' \in 0..2 /\ attentive' \in [status : RequestStatus, version : {0} \cup Version]
    <3>1. CASE UNCHANGED <<attentive, orders>>
      BY <3>1
    <3>2. CASE /\ orders' = Min({orders + 1, 2})
               /\ attentive' = IF attentive.status = "draft"
                               THEN [attentive EXCEPT !.status = "queued"] ELSE attentive
      <4>1. Min({orders + 1, 2}) \in 0..2
        BY DEF Min
      <4> QED BY <3>2, <4>1 DEF RequestStatus
    <3> QED BY <2>1, <3>1, <3>2 DEF Order
  <2> QED BY <2>2, <2>3 DEF BeamInv, BeamTypeOK
<1> QED BY <1>1, <1>2, <1>3

LEMMA OutsideTypes ==
  ASSUME BeamInv, AttentiveAccepts \/ AttentiveDelivers
  PROVE  BeamInv'
<1> USE BeamTypes
<1>1. CASE AttentiveAccepts
  BY <1>1 DEF AttentiveAccepts, BeamInv, BeamTypeOK, beamRows, history, RequestStatus
<1>2. CASE AttentiveDelivers
  BY <1>2 DEF AttentiveDelivers, BeamInv, BeamTypeOK, beamRows, history, RequestStatus
<1> QED BY <1>1, <1>2

LEMMA IngestTypes ==
  ASSUME BeamInv, NEW p \in Proc,
         Callback(p) \/ Sweep(p) \/ GetRequest(p) \/ GetOutputs(p) \/ FetchFails(p) \/ Ingest(p)
  PROVE  BeamInv'
<1>1. Moves(p) /\ (task'[p].at \in Writing => task'[p].version \in Version)
  BY IngestMoves, NewestType DEF Ingest, Writing, BeamInv
<1>2. UNCHANGED <<click, attentive, orders, reviewed, mishap, priced>> /\ notice' \in BOOLEAN
  BY DEF Callback, Sweep, GetRequest, GetOutputs, FetchFails, Ingest, PersistRequest, PersistOutputs, ReadEstimate,
     ReadLatest, ReadSection, ReadApplied, WriteSection, RecordApplied, FlagEstimate, beamRows, outside, history,
     BeamInv, BeamTypeOK
<1>3. /\ request' \in [status : RequestStatus, submitted : BOOLEAN]
      /\ outputs' \in [Version -> [stored : BOOLEAN, applied : OptValue]]
      /\ section' \in [exists : BOOLEAN, sqft : Nat] /\ flag' \in BOOLEAN /\ wrote' \in OptValue
  <2> USE BeamTypes
  <2>1. CASE Callback(p) \/ Sweep(p) \/ GetRequest(p) \/ GetOutputs(p) \/ FetchFails(p) \/ ReadEstimate(p)
             \/ ReadLatest(p) \/ ReadSection(p) \/ ReadApplied(p)
    BY <2>1 DEF Callback, Sweep, GetRequest, GetOutputs, FetchFails, ReadEstimate, ReadLatest, ReadSection,
       ReadApplied, beamRows, history
  <2>2. CASE PersistRequest(p)
    BY <2>2 DEF PersistRequest, history, TaskType
  <2>3. CASE PersistOutputs(p)
    <3>1. \A v \in Version : [outputs[v] EXCEPT !.stored = TRUE] \in [stored : BOOLEAN, applied : OptValue]
      OBVIOUS
    <3>2. outputs' \in [Version -> [stored : BOOLEAN, applied : OptValue]]
      BY <2>3, <3>1 DEF PersistOutputs
    <3> QED BY <2>3, <3>2 DEF PersistOutputs, history
  <2>4. CASE WriteSection(p)
    <3>1. Value[task[p].version] \in Nat /\ Value[task[p].version] \in OptValue
      BY <2>4, ValueType DEF WriteSection, BeamInv, Writing
    <3> QED BY <2>4, <3>1 DEF WriteSection
  <2>5. CASE RecordApplied(p)
    <3>1. task[p].version \in Version /\ Value[task[p].version] \in OptValue
      BY <2>5, ValueType DEF RecordApplied, BeamInv, Writing
    <3> QED BY <2>5, <3>1 DEF RecordApplied, history
  <2>6. CASE FlagEstimate(p)
    BY <2>6 DEF FlagEstimate, history
  <2> QED BY <2>1, <2>2, <2>3, <2>4, <2>5, <2>6 DEF Ingest
<1>4. BeamTypeOK'
  BY <1>1, <1>2, <1>3 DEF BeamInv, BeamTypeOK, Moves, TaskType
<1> QED BY <1>1, <1>4, MoveKeepsInv

LEMMA EstimatorTypes ==
  ASSUME BeamInv, (\E n \in Entered : Enter(n)) \/ DeleteSection \/ Price \/ Accept
  PROVE  BeamInv'
<1> USE BeamTypes
<1>1. UNCHANGED <<request, click, task, attentive, orders, notice, mishap>>
  BY DEF Enter, DeleteSection, Price, Accept, AtWork, outside
<1>2. /\ outputs' \in [Version -> [stored : BOOLEAN, applied : OptValue]]
      /\ section' \in [exists : BOOLEAN, sqft : Nat] /\ flag' \in BOOLEAN /\ priced' \in BOOLEAN
      /\ wrote' \in OptValue /\ reviewed' \in {0} \cup Version
  <2>1. CASE \E n \in Entered : Enter(n)
    BY <2>1, TakeoffAssumption DEF Enter
  <2>2. CASE DeleteSection
    BY <2>2 DEF DeleteSection, Unwritten, OptValue
  <2>3. CASE Price
    BY <2>3 DEF Price
  <2>4. CASE Accept
    BY <2>4, NewestType DEF Accept
  <2> QED BY <2>1, <2>2, <2>3, <2>4
<1> QED BY <1>1, <1>2 DEF BeamInv, BeamTypeOK

LEMMA CrashTypes == ASSUME BeamInv, Crash PROVE BeamInv'
<1>1. task' \in [Proc -> TaskType] /\ \A p \in Proc : task'[p].at = "idle"
  BY IdleType DEF Crash
<1> QED BY <1>1, BeamTypes DEF Crash, BeamInv, BeamTypeOK, beamRows, outside, TaskType, Writing

LEMMA BeamTypeStep == ASSUME BeamInv, [Next]_vars PROVE BeamInv'
<1>1. CASE UNCHANGED vars
  BY <1>1 DEF vars, beamRows, outside, history, BeamInv, BeamTypeOK
<1>2. CASE Next
  BY <1>2, OrderTypes, OutsideTypes, IngestTypes, EstimatorTypes, CrashTypes DEF Next
<1> QED BY <1>1, <1>2

LEMMA BeamInit == ASSUME Init PROVE BeamInv
<1>1. task \in [Proc -> TaskType] /\ \A p \in Proc : task[p].at = "idle"
  BY IdleType DEF Init
<1>2. [stored |-> FALSE, applied |-> NoValue] \in [stored : BOOLEAN, applied : OptValue]
  BY DEF OptValue
<1>3. /\ outputs \in [Version -> [stored : BOOLEAN, applied : OptValue]]
      /\ click \in [Click -> {"idle", "order", "persist"}]
  BY <1>2 DEF Init
<1>4. /\ request \in [status : RequestStatus, submitted : BOOLEAN]
      /\ section \in [exists : BOOLEAN, sqft : Nat]
      /\ attentive \in [status : RequestStatus, version : {0} \cup Version]
      /\ orders \in 0..2 /\ wrote \in OptValue /\ reviewed \in {0} \cup Version
  BY DEF Init, Unwritten, RequestStatus, OptValue
<1>5. priced \in BOOLEAN /\ flag \in BOOLEAN /\ notice \in BOOLEAN /\ mishap \in BOOLEAN
  BY Zenon DEF Init
<1> QED BY <1>1, <1>3, <1>4, <1>5 DEF BeamInv, BeamTypeOK, TaskType, Writing

-----------------------------------------------------------------------------
(* One order.                                                               *)

OneClick == \A c, d \in Click : c = d
AnswersArrive == "lost" \notin Answers

\* The guard's submitted_at is written, or about to be, once there is an order.
OrderInv ==
    ~mishap =>
        /\ orders < 2
        /\ orders > 0 => request.submitted \/ \E c \in Click : click[c] = "persist"
        /\ \A c \in Click : click[c] = "order" => orders = 0

LEMMA OrderSteps ==
  ASSUME OneClick, AnswersArrive, BeamInv, OrderInv, NEW c \in Click,
         Generate(c) \/ PersistOrder(c) \/ \E answer \in Answers : Order(c, answer)
  PROVE  OrderInv'
<1> USE BeamTypes
<1>1. mishap' = mishap /\ \A d \in Click : d = c
  BY DEF Generate, PersistOrder, Order, history, OneClick
<1>2. CASE Generate(c)
  <2>1. ~request.submitted /\ click[c] = "idle" /\ click'[c] = "order" /\ UNCHANGED <<request, orders>>
    BY <1>2 DEF Generate, beamRows, outside
  <2>2. ~mishap => orders = 0
    BY <1>1, <2>1 DEF OrderInv
  <2> QED BY <1>1, <2>1, <2>2 DEF OrderInv
<1>3. CASE PersistOrder(c)
  <2>1. request'.submitted /\ click'[c] = "idle" /\ orders' = orders
    BY <1>3 DEF PersistOrder, outside
  <2> QED BY <1>1, <2>1 DEF OrderInv
<1>4. CASE \E answer \in Answers : Order(c, answer)
  <2>1. PICK answer \in Answers : Order(c, answer)
    BY <1>4
  <2>2. answer \in {"ok", "refused"} /\ click[c] = "order" /\ request' = request
    BY <2>1, TakeoffAssumption DEF AnswersArrive, Order, beamRows
  <2>3. CASE answer = "refused"
    <3>1. click'[c] = "idle" /\ orders' = orders
      BY <2>1, <2>3 DEF Order
    <3> QED BY <1>1, <2>2, <3>1 DEF OrderInv
  <2>4. CASE answer = "ok"
    <3>1. click'[c] = "persist" /\ orders' = Min({orders + 1, 2})
      BY <2>1, <2>4 DEF Order
    <3>2. ~mishap => orders = 0
      BY <2>2 DEF OrderInv
    <3>3. Min({1, 2}) = 1
      BY DEF Min
    <3> QED BY <1>1, <2>2, <3>1, <3>2, <3>3 DEF OrderInv
  <2> QED BY <2>2, <2>3, <2>4
<1> QED BY <1>2, <1>3, <1>4

LEMMA OrderStep == ASSUME OneClick, AnswersArrive, BeamInv, OrderInv, [Next]_vars PROVE OrderInv'
<1>1. CASE UNCHANGED vars
  BY <1>1 DEF vars, beamRows, outside, history, OrderInv
<1>2. CASE Crash
  BY <1>2 DEF Crash, OrderInv
<1>3. ASSUME NEW p \in Proc,
             Callback(p) \/ Sweep(p) \/ GetRequest(p) \/ GetOutputs(p) \/ FetchFails(p) \/ Ingest(p)
      PROVE  OrderInv'
  <2>1. UNCHANGED <<click, orders, mishap>>
    BY <1>3 DEF Callback, Sweep, GetRequest, GetOutputs, FetchFails, Ingest, PersistRequest, PersistOutputs,
       ReadEstimate, ReadLatest, ReadSection, ReadApplied, WriteSection, RecordApplied, FlagEstimate, outside,
       history
  <2>2. request'.submitted = request.submitted
    <3>1. CASE PersistRequest(p)
      BY <3>1, BeamTypes DEF PersistRequest
    <3>2. CASE ~PersistRequest(p)
      BY <1>3, <3>2 DEF Callback, Sweep, GetRequest, GetOutputs, FetchFails, Ingest, PersistOutputs,
         ReadEstimate, ReadLatest, ReadSection, ReadApplied, WriteSection, RecordApplied, FlagEstimate, beamRows
    <3> QED BY <3>1, <3>2
  <2> QED BY <2>1, <2>2 DEF OrderInv
<1>4. CASE AttentiveAccepts \/ AttentiveDelivers
  BY <1>4 DEF AttentiveAccepts, AttentiveDelivers, beamRows, history, OrderInv
<1>5. CASE (\E n \in Entered : Enter(n)) \/ DeleteSection \/ Price \/ Accept
  BY <1>5 DEF Enter, DeleteSection, Price, Accept, AtWork, outside, OrderInv
<1> QED BY <1>1, <1>2, <1>3, <1>4, <1>5, OrderSteps DEF Next

\* A takeoff is not billed twice: the guard of generate, over any ingests and edits,
\* where the button is pressed once at a time, answers arrive and nothing crashed.
THEOREM OrdersOnce == ASSUME OneClick, AnswersArrive PROVE Spec => []OrderedOnceUnlessCut
<1>1. Init => BeamInv /\ OrderInv
  <2>1. Init => orders = 0 /\ \A c \in Click : click[c] = "idle"
    BY DEF Init
  <2> QED BY <2>1, BeamInit DEF OrderInv
<1>2. BeamInv /\ OrderInv /\ [Next]_vars => BeamInv' /\ OrderInv'
  BY BeamTypeStep, OrderStep
<1>3. OrderInv => OrderedOnceUnlessCut
  BY DEF OrderInv, OrderedOnceUnlessCut, OrderedOnce
<1> QED BY <1>1, <1>2, <1>3, PTL DEF Spec

-----------------------------------------------------------------------------
(* The estimator's number.                                                  *)

\* No number an estimator types is a sum of versions.
NumbersApart ==
    \A n \in Entered, S \in SUBSET Version : S # {} => n # MapThenSumSet(LAMBDA v : Value[v], S)

OwnsInv ==
    /\ \A v \in Version : outputs[v].applied \in {NoValue, Value[v]}
    /\ wrote # NoValue /\ ~mishap /\ Applied = {} => \E p \in Proc : task[p].at = "record"
    /\ EstimatorOwns => section.sqft \in Entered
    /\ EstimatorOwns => \A p \in Proc : task[p].at \notin {"insert", "update", "record"}
    /\ EstimatorOwns => \A p \in Proc : task[p].at = "read_applied" => task[p].sqft = section.sqft

\* A number of the estimator's does not pass for Beam's.
LEMMA OwnedIsTouched ==
  ASSUME BeamInv, OwnsInv, NumbersApart, EstimatorOwns
  PROVE  ~Untouched(section.sqft)
<1>1. section.sqft \in Entered /\ \A p \in Proc : task[p].at # "record"
  BY DEF OwnsInv
<1>2. CASE Applied = {}
  <2>1. wrote = NoValue \/ mishap
    BY <1>1, <1>2 DEF OwnsInv
  <2> QED BY <1>2, <2>1 DEF EstimatorOwns, Untouched
<1>3. CASE Applied # {}
  <2>1. Previous = MapThenSumSet(LAMBDA v : Value[v], Applied)
    BY PreviousIsSum DEF OwnsInv
  <2>2. Applied \in SUBSET Version
    BY DEF Applied
  <2>3. section.sqft # Previous
    BY <1>1, <1>3, <2>1, <2>2 DEF NumbersApart
  <2> QED BY <1>3, <2>3 DEF Untouched
<1> QED BY <1>2, <1>3

\* Steps that leave the section and the applied values as they are.
LEMMA OwnsKept ==
  ASSUME BeamInv, BeamInv', OwnsInv, NEW p \in Proc, Moves(p), UNCHANGED <<section, wrote, mishap>>,
         \A v \in Version : outputs'[v].applied = outputs[v].applied,
         task[p].at # "record",
         task'[p].at \in {"insert", "update", "record"} => ~EstimatorOwns,
         task'[p].at = "read_applied" => task'[p].sqft = section.sqft
  PROVE  OwnsInv'
<1>1. EstimatorOwns' = EstimatorOwns
  BY DEF EstimatorOwns
<1>2. Applied' = Applied
  BY DEF Applied
<1>3. \A q \in Proc : task[q].at = "record" => task'[q].at = "record"
  BY DEF Moves
<1> QED BY <1>1, <1>2, <1>3 DEF OwnsInv, Moves

LEMMA OwnsIngest ==
  ASSUME NumbersApart, BeamInv, BeamInv', OwnsInv, NEW p \in Proc,
         Callback(p) \/ Sweep(p) \/ GetRequest(p) \/ GetOutputs(p) \/ FetchFails(p) \/ Ingest(p)
  PROVE  OwnsInv'
<1>1. CASE Callback(p) \/ Sweep(p) \/ GetRequest(p) \/ GetOutputs(p) \/ FetchFails(p) \/ PersistRequest(p)
           \/ ReadEstimate(p) \/ ReadLatest(p) \/ FlagEstimate(p)
  <2>1. UNCHANGED <<outputs, section, wrote, mishap>>
    BY <1>1 DEF Callback, Sweep, GetRequest, GetOutputs, FetchFails, PersistRequest, ReadEstimate, ReadLatest,
       FlagEstimate, beamRows, history
  <2>2. /\ Moves(p) /\ task[p].at # "record"
        /\ task'[p].at \notin {"insert", "update", "record", "read_applied"}
    BY <1>1, IngestMoves
  <2> QED BY <2>1, <2>2, OwnsKept
<1>2. CASE PersistOutputs(p)
  <2>1. UNCHANGED <<section, wrote, mishap>> /\ \A v \in Version : outputs'[v].applied = outputs[v].applied
    BY <1>2, BeamTypes DEF PersistOutputs, history
  <2>2. Moves(p) /\ task[p].at # "record" /\ task'[p].at = "read_estimate"
    BY <1>2, IngestMoves
  <2> QED BY <2>1, <2>2, OwnsKept
<1>3. CASE ReadSection(p)
  <2>1. UNCHANGED <<outputs, section, wrote, mishap>>
    BY <1>3 DEF ReadSection, beamRows, history
  <2>2. /\ Moves(p) /\ task[p].at # "record" /\ task'[p].sqft = section.sqft
        /\ task'[p].at = IF section.exists THEN "read_applied" ELSE "insert"
    BY <1>3, IngestMoves
  <2>3. task'[p].at \in {"insert", "update", "record"} => ~EstimatorOwns
    BY <2>2 DEF EstimatorOwns
  <2> QED BY <2>1, <2>2, <2>3, OwnsKept
<1>4. CASE ReadApplied(p)
  <2>1. UNCHANGED <<outputs, section, wrote, mishap>>
    BY <1>4 DEF ReadApplied, beamRows, history
  <2>2. /\ Moves(p) /\ task[p].at = "read_applied"
        /\ task'[p].at = IF Untouched(task[p].sqft) THEN "update" ELSE "flag"
    BY <1>4, IngestMoves
  <2>3. EstimatorOwns => task'[p].at = "flag"
    BY <2>2, OwnedIsTouched DEF OwnsInv
  <2> QED BY <2>1, <2>2, <2>3, OwnsKept
<1>5. CASE WriteSection(p)
  <2>1. Moves(p) /\ task'[p].at = "record"
    BY <1>5, IngestMoves
  <2>2. ~EstimatorOwns /\ outputs' = outputs /\ Value[task[p].version] # NoValue
    BY <1>5, ValueType DEF WriteSection, OwnsInv, BeamInv, Writing
  <2>3. ~EstimatorOwns'
    BY <1>5, <2>2 DEF WriteSection, EstimatorOwns
  <2> QED BY <2>1, <2>2, <2>3 DEF OwnsInv
<1>6. CASE RecordApplied(p)
  <2>1. task[p].at = "record" /\ UNCHANGED <<section, wrote, mishap>> /\ task[p].version \in Version
    BY <1>6 DEF RecordApplied, history, BeamInv, Writing
  <2>2. /\ outputs'[task[p].version].applied = Value[task[p].version]
        /\ \A v \in Version : outputs'[v].applied \in {outputs[v].applied, Value[v]}
    BY <1>6, <2>1, BeamTypes DEF RecordApplied
  <2>3. ~EstimatorOwns'
    BY <2>1 DEF EstimatorOwns, OwnsInv
  <2>4. Applied' # {}
    BY <2>1, <2>2, ValueType DEF Applied
  <2>5. \A v \in Version : outputs'[v].applied \in {NoValue, Value[v]}
    BY <2>2 DEF OwnsInv
  <2> QED BY <2>3, <2>4, <2>5 DEF OwnsInv
<1> QED BY <1>1, <1>2, <1>3, <1>4, <1>5, <1>6 DEF Ingest

\* The estimator, while no ingest runs.
LEMMA OwnsEstimator ==
  ASSUME ~MayOverlap, BeamInv, BeamInv', OwnsInv,
         (\E n \in Entered : Enter(n)) \/ DeleteSection \/ Price \/ Accept
  PROVE  OwnsInv'
<1>1. task' = task /\ mishap' = mishap /\ \A p \in Proc : task[p].at = "idle"
  BY DEF Enter, DeleteSection, Price, Accept, AtWork, Quiet
<1>2. CASE \E n \in Entered : Enter(n)
  <2>1. section'.sqft \in Entered /\ UNCHANGED <<outputs, wrote>> /\ Applied' = Applied
    BY <1>2 DEF Enter, Applied
  <2> QED BY <1>1, <2>1 DEF OwnsInv
<1>3. CASE DeleteSection
  <2>1. ~section'.exists /\ wrote' = NoValue /\ \A v \in Version : outputs'[v].applied = NoValue
    BY <1>3, BeamTypes DEF DeleteSection, Unwritten
  <2> QED BY <1>1, <2>1 DEF OwnsInv, EstimatorOwns
<1>4. CASE Price \/ Accept
  <2>1. UNCHANGED <<outputs, section, wrote>> /\ Applied' = Applied /\ EstimatorOwns' = EstimatorOwns
    BY <1>1, <1>4 DEF Price, Accept, Applied, EstimatorOwns
  <2> QED BY <1>1, <2>1 DEF OwnsInv
<1> QED BY <1>2, <1>3, <1>4

LEMMA OwnsStep ==
  ASSUME ~MayOverlap, NumbersApart, BeamInv, OwnsInv, [Next]_vars
  PROVE  OwnsInv'
<1>1. BeamInv'
  BY BeamTypeStep
<1>2. CASE UNCHANGED <<task, outputs, section, wrote, mishap>>
  <2>1. Applied' = Applied /\ EstimatorOwns' = EstimatorOwns
    BY <1>2 DEF Applied, EstimatorOwns
  <2> QED BY <1>2, <2>1 DEF OwnsInv
<1>3. CASE Crash
  <2>1. UNCHANGED <<outputs, section, wrote>> /\ mishap' /\ \A p \in Proc : task'[p].at = "idle"
    BY <1>3, IdleType DEF Crash, beamRows
  <2>2. EstimatorOwns' => EstimatorOwns
    BY <2>1 DEF EstimatorOwns
  <2> QED BY <2>1, <2>2 DEF OwnsInv
<1>4. CASE \E c \in Click : Generate(c) \/ PersistOrder(c) \/ \E answer \in Answers : Order(c, answer)
  BY <1>2, <1>4 DEF Generate, PersistOrder, Order, beamRows, history
<1>5. CASE AttentiveAccepts \/ AttentiveDelivers
  BY <1>2, <1>5 DEF AttentiveAccepts, AttentiveDelivers, beamRows, history
<1>6. CASE UNCHANGED vars
  BY <1>2, <1>6 DEF vars, beamRows, history
<1> QED BY <1>1, <1>3, <1>4, <1>5, <1>6, OwnsIngest, OwnsEstimator DEF Next

\* No ingest overwrites an estimator's number, however many run at once, crash, or
\* are asked for twice: the estimator works while none runs, and types no number
\* that is a sum of versions.
THEOREM NumberIsKept == ASSUME ~MayOverlap, NumbersApart PROVE Spec => EstimatorsNumberKept
<1>1. Init => BeamInv /\ OwnsInv
  <2>1. Init => /\ ~section.exists /\ wrote = NoValue /\ \A v \in Version : outputs[v].applied = NoValue
    BY DEF Init, Unwritten
  <2> QED BY <2>1, BeamInit DEF OwnsInv, EstimatorOwns
<1>2. BeamInv /\ OwnsInv /\ [Next]_vars => BeamInv' /\ OwnsInv'
  BY BeamTypeStep, OwnsStep
<1>3. BeamInv /\ OwnsInv => (EstimatorOwns => \A p \in Proc : ~WriteSection(p))
  BY DEF OwnsInv, WriteSection
<1> QED BY <1>1, <1>2, <1>3, PTL DEF Spec, EstimatorsNumberKept

-----------------------------------------------------------------------------
(* No silent drift.                                                         *)

OneIngest == \A p, q \in Proc : p = q

\* The ingest has not stored what it fetched.
Before == {"idle", "get_request", "get_outputs", "persist_request", "persist_outputs"}

\* Beam's number is the newest measurement, or somebody is told, or knows.
Told == wrote # NoValue => wrote = Value[Newest] \/ flag \/ reviewed >= Newest

DriftInv ==
    ~mishap =>
        /\ Stored = {} => wrote = NoValue
        /\ (\A p \in Proc : task[p].at \in Before) => Told
        /\ \A p \in Proc : task[p].at \in Writing => task[p].version = Newest /\ Stored # {}
        /\ \A p \in Proc : task[p].at = "record" => wrote = Value[Newest]

LEMMA DriftIngest ==
  ASSUME OneIngest, BeamInv, DriftInv, NEW p \in Proc, ~mishap,
         Callback(p) \/ Sweep(p) \/ GetRequest(p) \/ GetOutputs(p) \/ FetchFails(p) \/ Ingest(p)
  PROVE  DriftInv'
<1>1. \A q \in Proc : q = p
  BY DEF OneIngest
<1>2. ASSUME UNCHANGED <<outputs, wrote, flag, reviewed>>
      PROVE  Stored' = Stored /\ Newest' = Newest /\ Told' = Told
  BY <1>2 DEF Stored, Newest, Told
<1>3. CASE Callback(p) \/ Sweep(p) \/ GetRequest(p) \/ GetOutputs(p) \/ FetchFails(p) \/ PersistRequest(p)
  <2>1. UNCHANGED <<outputs, wrote, flag, reviewed>>
    BY <1>3 DEF Callback, Sweep, GetRequest, GetOutputs, FetchFails, PersistRequest, beamRows, history
  <2>2. task[p].at \in Before /\ task'[p].at \in Before
    BY <1>3, IngestMoves DEF Before
  <2> QED BY <1>1, <1>2, <2>1, <2>2 DEF DriftInv, Before, Writing
<1>4. CASE PersistOutputs(p)
  <2>1. wrote' = wrote /\ \A v \in Version : outputs[v].stored => outputs'[v].stored
    BY <1>4, BeamTypes DEF PersistOutputs, history
  <2>2. Stored' = {} => Stored = {}
    BY <2>1 DEF Stored
  <2>3. task'[p].at = "read_estimate"
    BY <1>4, IngestMoves
  <2> QED BY <1>1, <2>1, <2>2, <2>3 DEF DriftInv, Before, Writing
<1>5. CASE ReadEstimate(p) \/ ReadLatest(p) \/ ReadSection(p) \/ ReadApplied(p)
  <2>1. UNCHANGED <<outputs, wrote, flag, reviewed>>
    BY <1>5 DEF ReadEstimate, ReadLatest, ReadSection, ReadApplied, beamRows, history
  <2>2. \/ task'[p].at \in {"read_latest", "flag"}
        \/ task'[p].at = "idle" /\ Newest = 0
        \/ task'[p].at \in {"read_section", "read_applied", "insert", "update"} /\ task'[p].version = Newest /\ Stored # {}
    <3>1. CASE ReadEstimate(p) BY <3>1, IngestMoves
    <3>2. CASE ReadLatest(p)
      <4>1. Newest # 0 => Stored # {}
        BY DEF Newest
      <4> QED BY <3>2, <4>1, IngestMoves
    <3>3. CASE ReadSection(p) BY <3>3, IngestMoves DEF DriftInv, Writing
    <3>4. CASE ReadApplied(p) BY <3>4, IngestMoves DEF DriftInv, Writing
    <3> QED BY <1>5, <3>1, <3>2, <3>3, <3>4
  <2>3. Newest = 0 => Told
    <3>1. Newest = 0 => Stored = {}
      BY NewestType, TakeoffAssumption DEF Stored, Version
    <3> QED BY <3>1 DEF DriftInv, Told
  <2> QED BY <1>1, <1>2, <2>1, <2>2, <2>3 DEF DriftInv, Before, Writing
<1>6. CASE WriteSection(p)
  <2>1. /\ outputs' = outputs /\ wrote' = Value[task[p].version] /\ task[p].at \in Writing
    BY <1>6 DEF WriteSection, Writing
  <2>2. Stored' = Stored /\ Newest' = Newest
    BY <2>1 DEF Stored, Newest
  <2>3. task'[p].at = "record" /\ task'[p].version = task[p].version
    BY <1>6, IngestMoves
  <2> QED BY <1>1, <2>1, <2>2, <2>3 DEF DriftInv, Before, Writing
<1>7. CASE RecordApplied(p)
  <2>1. task[p].at = "record" /\ UNCHANGED <<wrote, flag, reviewed>> /\ task[p].version \in Version
    BY <1>7 DEF RecordApplied, history, BeamInv, Writing
  <2>2. \A v \in Version : outputs'[v].stored = outputs[v].stored
    BY <1>7, <2>1, BeamTypes DEF RecordApplied
  <2>3. Stored' = Stored /\ Newest' = Newest
    BY <2>2 DEF Stored, Newest
  <2>4. task'[p].at = "idle"
    BY <1>7, IngestMoves
  <2> QED BY <1>1, <2>1, <2>3, <2>4 DEF DriftInv, Told, Before, Writing
<1>8. CASE FlagEstimate(p)
  <2>1. UNCHANGED <<outputs, wrote>> /\ flag'
    BY <1>8 DEF FlagEstimate, history
  <2>2. Stored' = Stored
    BY <2>1 DEF Stored
  <2>3. task'[p].at = "idle"
    BY <1>8, IngestMoves
  <2> QED BY <1>1, <2>1, <2>2, <2>3 DEF DriftInv, Told, Before, Writing
<1> QED BY <1>3, <1>4, <1>5, <1>6, <1>7, <1>8 DEF Ingest

LEMMA DriftEstimator ==
  ASSUME ~MayOverlap, BeamInv, BeamInv', DriftInv, ~mishap,
         (\E n \in Entered : Enter(n)) \/ DeleteSection \/ Price \/ Accept
  PROVE  DriftInv'
<1>1. task' = task /\ \A p \in Proc : task[p].at = "idle"
  BY DEF Enter, DeleteSection, Price, Accept, AtWork, Quiet
<1>2. Told
  BY <1>1 DEF DriftInv, Before
<1>3. \A v \in Version : outputs'[v].stored = outputs[v].stored
  BY BeamTypes DEF Enter, DeleteSection, Price, Accept
<1>4. Stored' = Stored /\ Newest' = Newest
  BY <1>3 DEF Stored, Newest
<1>5. wrote' \in {wrote, NoValue} /\ Told'
  <2>1. CASE (\E n \in Entered : Enter(n)) \/ Price
    BY <1>2, <1>4, <2>1 DEF Enter, Price, Told
  <2>2. CASE DeleteSection
    BY <2>2 DEF DeleteSection, Told
  <2>3. CASE Accept
    <3>1. reviewed' = Newest /\ wrote' = wrote /\ Newest >= Newest
      BY <2>3, NewestType DEF Accept
    <3> QED BY <1>4, <3>1 DEF Told
  <2> QED BY <2>1, <2>2, <2>3
<1> QED BY <1>1, <1>4, <1>5 DEF DriftInv, Before, Writing

LEMMA DriftStep ==
  ASSUME ~MayOverlap, OneIngest, BeamInv, DriftInv, [Next]_vars
  PROVE  DriftInv'
<1>1. BeamInv'
  BY BeamTypeStep
<1>2. CASE UNCHANGED <<task, outputs, wrote, flag, reviewed, mishap>>
  <2>1. Stored' = Stored /\ Newest' = Newest /\ Told' = Told
    BY <1>2 DEF Stored, Newest, Told
  <2> QED BY <1>2, <2>1 DEF DriftInv
<1>3. CASE Crash
  BY <1>3 DEF Crash, DriftInv
<1>4. CASE \E c \in Click : Generate(c) \/ PersistOrder(c) \/ \E answer \in Answers : Order(c, answer)
  BY <1>2, <1>4 DEF Generate, PersistOrder, Order, beamRows, history
<1>5. CASE AttentiveAccepts \/ AttentiveDelivers
  BY <1>2, <1>5 DEF AttentiveAccepts, AttentiveDelivers, beamRows, history
<1>6. CASE UNCHANGED vars
  BY <1>2, <1>6 DEF vars, beamRows, history
<1>7. CASE mishap
  <2>1. mishap'
    BY <1>7 DEF Next, vars, Generate, PersistOrder, Order, AttentiveAccepts, AttentiveDelivers, Callback, Sweep,
       GetRequest, GetOutputs, FetchFails, Ingest, PersistRequest, PersistOutputs, ReadEstimate, ReadLatest,
       ReadSection, ReadApplied, WriteSection, RecordApplied, FlagEstimate, Enter, DeleteSection, Price, Accept,
       AtWork, Crash, history
  <2> QED BY <2>1 DEF DriftInv
<1> QED BY <1>1, <1>3, <1>4, <1>5, <1>6, <1>7, DriftIngest, DriftEstimator DEF Next

\* With one ingest at a time and the estimator at work between them, a number of
\* Beam's is the newest one, or flagged, or was accepted with that version known.
THEOREM NothingDrifts == ASSUME ~MayOverlap, OneIngest PROVE Spec => []NoSilentDrift
<1>1. Init => BeamInv /\ DriftInv
  <2>1. Init => wrote = NoValue /\ \A p \in Proc : task[p].at = "idle"
    BY IdleType DEF Init
  <2> QED BY <2>1, BeamInit DEF DriftInv, Told, Writing
<1>2. BeamInv /\ DriftInv /\ [Next]_vars => BeamInv' /\ DriftInv'
  BY BeamTypeStep, DriftStep
<1>3. BeamInv /\ DriftInv => NoSilentDrift
  BY DEF BeamInv, DriftInv, NoSilentDrift, Quiet, Told, Before
<1> QED BY <1>1, <1>2, <1>3, PTL DEF Spec

(***************************************************************************)
(*                              THE EDITORS                                *)
(***************************************************************************)
-----------------------------------------------------------------------------
(* Trees.                                                                   *)

LEMMA Fields == \A p, v : Node(p, v).parent = p /\ Node(p, v).val = v
  BY DEF Node

LEMMA Members ==
  ASSUME NEW t
  PROVE  /\ \A i : i \in Sections(t) <=> i \in DOMAIN t /\ t[i].parent = Root
         /\ \A i : i \in Lines(t) <=> i \in DOMAIN t /\ t[i].parent \in Sections(t)
  BY DEF Sections, Lines, Under

\* Nothing is both a section and a line, and what is neither hangs on a line.
LEMMA Levels ==
  ASSUME NEW t, IsTree(t)
  PROVE  /\ Root \notin DOMAIN t
         /\ Sections(t) \subseteq DOMAIN t /\ Lines(t) \subseteq DOMAIN t
         /\ Sections(t) \cap Lines(t) = {}
         /\ \A i \in DOMAIN t : t[i].parent \in {Root} \cup Sections(t) \cup Lines(t)
<1>1. Root \notin DOMAIN t
  BY EditorAssumption DEF IsTree, IsOutline
<1>2. Sections(t) \cap Lines(t) = {}
  BY <1>1, Members
<1> QED BY <1>1, <1>2, Members DEF IsTree, IsOutline

\* Below a node: the node, and whatever hangs on a node below it, three levels deep.
LEMMA BelowIsClosed ==
  ASSUME NEW t, IsTree(t), NEW i \in DOMAIN t
  PROVE  /\ i \in Below(t, i) /\ Below(t, i) \subseteq DOMAIN t
         /\ \A k \in Below(t, i) \ {i} : t[k].parent \in Below(t, i)
         /\ \A k \in DOMAIN t : t[k].parent \in Below(t, i) => k \in Below(t, i)
<1>1. \A k : k \in Below(t, i) <=>
               \/ k = i
               \/ k \in DOMAIN t /\ t[k].parent = i
               \/ k \in DOMAIN t /\ t[k].parent \in DOMAIN t /\ t[t[k].parent].parent = i
  BY DEF Below, Under
<1>2. ASSUME NEW k \in DOMAIN t, t[k].parent \in Below(t, i) PROVE k \in Below(t, i)
  <2> DEFINE q == t[k].parent
  <2>1. CASE q = i
    BY <1>1, <2>1
  <2>2. CASE q \in DOMAIN t /\ t[q].parent = i
    BY <1>1, <2>2
  <2>3. CASE q \in DOMAIN t /\ t[q].parent \in DOMAIN t /\ t[t[q].parent].parent = i
    <3>1. q \notin Sections(t) /\ q \in Sections(t) \cup Lines(t)
      BY <2>3, Levels, Members
    <3>2. t[t[q].parent].parent = Root
      BY <3>1, Members
    <3> QED BY <3>2, <2>3, Levels
  <2> QED BY <1>1, <1>2, <2>1, <2>2, <2>3
<1>3. \A k \in Below(t, i) \ {i} : t[k].parent \in Below(t, i)
  BY <1>1
<1> QED BY <1>1, <1>2, <1>3

LEMMA WithoutIsTree ==
  ASSUME NEW t, IsTree(t), NEW gone,
         \A k \in DOMAIN t \ gone : t[k].parent \notin gone
  PROVE  /\ IsTree(Without(t, gone)) /\ DOMAIN Without(t, gone) = DOMAIN t \ gone
         /\ \A k \in DOMAIN t \ gone : Without(t, gone)[k] = t[k]
<1> DEFINE w == Without(t, gone)
<1>1. DOMAIN w = DOMAIN t \ gone /\ \A k \in DOMAIN w : w[k] = t[k]
  BY DEF Without
<1>2. w = [k \in DOMAIN w |-> Node(w[k].parent, w[k].val)]
  <2>1. \A k \in DOMAIN t : t[k] = Node(t[k].parent, t[k].val)
    BY DEF IsTree, IsOutline
  <2>2. \A k \in DOMAIN w : w[k] = Node(w[k].parent, w[k].val)
    BY <1>1, <2>1
  <2>3. w = [k \in DOMAIN w |-> w[k]]
    BY DEF Without
  <2> HIDE DEF w
  <2> QED BY <2>2, <2>3
<1>3. \A k \in Sections(t) \ gone : k \in Sections(w)
  BY <1>1, Members
<1>4. \A k \in Lines(t) \ gone : k \in Lines(w)
  BY <1>1, <1>3, Members
<1>5. \A k \in DOMAIN w : w[k].parent \in {Root} \cup Sections(w) \cup Lines(w)
  <2> HIDE DEF w
  <2> QED BY <1>1, <1>3, <1>4, Levels
<1>6. DOMAIN w \subseteq Ids /\ \A k \in DOMAIN w : w[k].val \in Vals
  BY <1>1 DEF IsTree, IsOutline
<1> HIDE DEF w
<1>7. IsTree(w)
  BY <1>2, <1>5, <1>6 DEF IsTree, IsOutline
<1> QED BY <1>1, <1>7 DEF w

LEMMA PruneIsTree ==
  ASSUME NEW t, IsTree(t), NEW i \in DOMAIN t
  PROVE  /\ IsTree(Without(t, Below(t, i))) /\ DOMAIN Without(t, Below(t, i)) \subseteq DOMAIN t
         /\ \A k \in DOMAIN Without(t, Below(t, i)) : Without(t, Below(t, i))[k] = t[k]
<1>1. \A k \in DOMAIN t \ Below(t, i) : t[k].parent \notin Below(t, i)
  BY BelowIsClosed
<1> QED BY <1>1, WithoutIsTree

LEMMA PatchIsTree ==
  ASSUME NEW t, IsTree(t), NEW i \in DOMAIN t, NEW v \in Vals
  PROVE  LET w == [t EXCEPT ![i].val = v] IN
         /\ IsTree(w) /\ DOMAIN w = DOMAIN t /\ \A k \in DOMAIN t : w[k].parent = t[k].parent
<1> DEFINE w == [t EXCEPT ![i].val = v]
<1>1. \A k \in DOMAIN t : t[k] = [parent |-> t[k].parent, val |-> t[k].val]
  BY DEF IsTree, IsOutline, Node
<1>2. DOMAIN w = DOMAIN t /\ w = [k \in DOMAIN t |-> w[k]]
  BY DEF IsTree, IsOutline
<1>3. \A k \in DOMAIN t : w[k] = Node(t[k].parent, IF k = i THEN v ELSE t[k].val)
  BY <1>1 DEF Node
<1> HIDE DEF w
<1>4. \A k \in DOMAIN t : w[k].parent = t[k].parent /\ w[k].val \in Vals
                       /\ w[k] = Node(w[k].parent, w[k].val)
  <2>1. \A k \in DOMAIN t : t[k].val \in Vals
    BY DEF IsTree, IsOutline
  <2>2. ASSUME NEW k \in DOMAIN t, NEW x \in Vals, w[k] = Node(t[k].parent, x)
        PROVE  w[k].parent = t[k].parent /\ w[k].val = x /\ w[k] = Node(w[k].parent, w[k].val)
    BY <2>2 DEF Node
  <2> QED BY <1>3, <2>1, <2>2
<1>5. w = [k \in DOMAIN w |-> Node(w[k].parent, w[k].val)]
  BY <1>2, <1>4
<1>6. Sections(w) = Sections(t)
  <2>1. \A k : k \in Sections(w) <=> k \in Sections(t)
    BY <1>2, <1>4, Members
  <2> QED BY <2>1
<1>7. Lines(w) = Lines(t)
  <2>1. \A k : k \in Lines(w) <=> k \in Lines(t)
    BY <1>2, <1>4, <1>6, Members
  <2> QED BY <2>1
<1>8. IsTree(w)
  BY <1>2, <1>4, <1>5, <1>6, <1>7 DEF IsTree, IsOutline
<1> QED BY <1>2, <1>4, <1>8 DEF w

\* Fresh nodes may be added wherever the grown tree has room for them.
LEMMA WithIsTree ==
  ASSUME NEW t, IsTree(t), NEW more, more = [k \in DOMAIN more |-> Node(more[k].parent, more[k].val)],
         DOMAIN more \subseteq Ids, DOMAIN more \cap DOMAIN t = {},
         \A k \in DOMAIN more : more[k].val \in Vals,
         \A k \in DOMAIN more :
           more[k].parent \in {Root} \cup Sections(With(t, more)) \cup Lines(With(t, more))
  PROVE  IsTree(With(t, more))
<1> DEFINE w == With(t, more)
<1>1. /\ DOMAIN w = DOMAIN t \cup DOMAIN more
      /\ \A k \in DOMAIN t : w[k] = t[k]
      /\ \A k \in DOMAIN more : w[k] = more[k]
      /\ w = [k \in DOMAIN w |-> w[k]]
  BY DEF With
<1>2. \A k \in DOMAIN t : t[k] = Node(t[k].parent, t[k].val) /\ t[k].val \in Vals
  BY DEF IsTree, IsOutline
<1>3. \A k \in DOMAIN more : more[k] = Node(more[k].parent, more[k].val)
  OBVIOUS
<1> HIDE DEF w
<1>4. \A k \in DOMAIN w : w[k] = Node(w[k].parent, w[k].val) /\ w[k].val \in Vals
  BY <1>1, <1>2, <1>3
<1>5. w = [k \in DOMAIN w |-> Node(w[k].parent, w[k].val)]
  BY <1>1, <1>4
<1>6. Sections(t) \subseteq Sections(w)
  BY <1>1, Members
<1>7. Lines(t) \subseteq Lines(w)
  BY <1>1, <1>6, Members
<1>8. \A k \in DOMAIN w : w[k].parent \in {Root} \cup Sections(w) \cup Lines(w)
  BY <1>1, <1>6, <1>7, Levels DEF w
<1>9. DOMAIN w \subseteq Ids
  BY <1>1 DEF IsTree, IsOutline
<1>10. IsTree(w)
  BY <1>4, <1>5, <1>8, <1>9 DEF IsTree, IsOutline
<1> QED BY <1>10 DEF w

\* A place in one tree is the same place in another that agrees with it on the parents.
LEMMA SamePlace ==
  ASSUME NEW t, IsTree(t), NEW r, IsTree(r),
         \A k \in DOMAIN r \cap DOMAIN t : r[k].parent = t[k].parent,
         NEW i \in DOMAIN t, t[i].parent \in DOMAIN r \cup {Root}
  PROVE  \/ t[i].parent = Root /\ i \in Sections(t)
         \/ t[i].parent \in Sections(r) /\ i \in Lines(t)
         \/ t[i].parent \in Lines(r) /\ i \notin Sections(t) \cup Lines(t)
<1> DEFINE p == t[i].parent
<1>1. CASE p = Root
  BY <1>1, Members
<1>2. CASE p \in Sections(t)
  <2>1. p \in DOMAIN r /\ p \in DOMAIN t /\ t[p].parent = Root
    BY <1>2, Levels, Members
  <2>2. p \in Sections(r)
    BY <2>1, Members
  <2> QED BY <1>2, <2>2, Members
<1>3. CASE p \in Lines(t)
  <2>1. p \in DOMAIN r /\ p \in DOMAIN t /\ t[p].parent \in Sections(t)
    BY <1>3, Levels, Members
  <2>2. r[p].parent = t[p].parent /\ t[p].parent \in DOMAIN t /\ t[p].parent # Root
    BY <2>1, Levels
  <2>3. t[p].parent \in DOMAIN r
    BY <2>1, <2>2, Levels
  <2>4. r[t[p].parent].parent = Root
    BY <2>1, <2>2, <2>3, Members
  <2>5. t[p].parent \in Sections(r)
    BY <2>3, <2>4, Members
  <2>6. p \in Lines(r)
    BY <2>1, <2>2, <2>5, Members
  <2>7. i \notin Sections(t) /\ i \notin Lines(t)
    BY <1>3, Levels, Members
  <2> QED BY <2>6, <2>7
<1> QED BY <1>1, <1>2, <1>3, Levels

LEMMA CopyFacts ==
  ASSUME NEW t, NEW i, NEW p, NEW f,
         \A x, y \in Below(t, i) : f[x] = f[y] => x = y
  PROVE  /\ \A j : j \in DOMAIN Copy(t, i, p, f) <=> \E k \in Below(t, i) : f[k] = j
         /\ \A k \in Below(t, i) :
              Copy(t, i, p, f)[f[k]] = Node(IF k = i THEN p ELSE f[t[k].parent], t[k].val)
         /\ Copy(t, i, p, f) = [j \in DOMAIN Copy(t, i, p, f) |-> Copy(t, i, p, f)[j]]
<1> DEFINE c == Copy(t, i, p, f)
           img == {f[k] : k \in Below(t, i)}
           of(j) == CHOOSE k \in Below(t, i) : f[k] = j
<1>1. c = [j \in img |-> Node(IF of(j) = i THEN p ELSE f[t[of(j)].parent], t[of(j)].val)]
  BY DEF Copy
<1>2. \A k \in Below(t, i) : f[k] \in img /\ of(f[k]) = k
  OBVIOUS
<1> HIDE DEF c, of
<1> QED BY <1>1, <1>2 DEF c

\* A copied subtree is at home where its original was.
LEMMA CopyIsTree ==
  ASSUME NEW t, IsTree(t), NEW r, IsTree(r),
         \A k \in DOMAIN r \cap DOMAIN t : r[k].parent = t[k].parent,
         NEW i \in DOMAIN t, t[i].parent \in DOMAIN r \cup {Root},
         NEW f \in [Below(t, i) -> Ids \ DOMAIN r],
         \A x, y \in Below(t, i) : f[x] = f[y] => x = y
  PROVE  LET w == With(r, Copy(t, i, t[i].parent, f)) IN
         /\ IsTree(w) /\ \A j : j \in DOMAIN w <=> (j \in DOMAIN r) \/ \E k \in Below(t, i) : f[k] = j
         /\ \A k \in DOMAIN r : w[k] = r[k]
<1> DEFINE p == t[i].parent
           c == Copy(t, i, p, f)
           w == With(r, c)
           B == Below(t, i)
<1>1. /\ \A j : j \in DOMAIN c <=> \E k \in B : f[k] = j
      /\ \A k \in B : c[f[k]] = Node(IF k = i THEN p ELSE f[t[k].parent], t[k].val)
      /\ c = [j \in DOMAIN c |-> c[j]]
  BY CopyFacts
<1>2. /\ DOMAIN w = DOMAIN r \cup DOMAIN c /\ \A k \in DOMAIN c : w[k] = c[k]
  BY DEF With
<1>3. DOMAIN c \subseteq Ids \ DOMAIN r
  BY <1>1
<1>4. \A k \in DOMAIN r : w[k] = r[k]
  BY <1>3 DEF With
<1> HIDE DEF c, w
<1>5. /\ i \in B /\ B \subseteq DOMAIN t /\ \A k \in B \ {i} : t[k].parent \in B
  BY BelowIsClosed
<1>6. /\ f[i] \in DOMAIN w /\ w[f[i]].parent = p
      /\ \A k \in B \ {i} : f[k] \in DOMAIN w /\ w[f[k]].parent = f[t[k].parent]
      /\ \A k \in B : f[k] \in DOMAIN c /\ c[f[k]].val = t[k].val /\ c[f[k]].parent = w[f[k]].parent
  <2>1. \A k \in B : f[k] \in DOMAIN c /\ f[k] \in DOMAIN w /\ w[f[k]] = c[f[k]]
    BY <1>1, <1>2
  <2>2. \A k \in B : /\ c[f[k]].parent = IF k = i THEN p ELSE f[t[k].parent]
                     /\ c[f[k]].val = t[k].val
    BY <1>1, Fields
  <2> HIDE DEF B
  <2> QED BY <1>5, <2>1, <2>2
<1>7. Sections(r) \subseteq Sections(w) /\ Lines(r) \subseteq Lines(w)
  <2>1. \A k \in Sections(r) : k \in Sections(w)
    BY <1>2, <1>4, Members
  <2>2. \A k \in Lines(r) : k \in Lines(w)
    BY <1>2, <1>4, <2>1, Members
  <2> QED BY <2>1, <2>2
<1>8. \/ p = Root /\ i \in Sections(t)
      \/ p \in Sections(r) /\ i \in Lines(t)
      \/ p \in Lines(r) /\ i \notin Sections(t) \cup Lines(t)
  BY SamePlace
<1>9. \A k \in B \ {i} : k \notin Sections(t)
  BY <1>5, Levels, Members
<1>10. ASSUME NEW k \in B
       PROVE  w[f[k]].parent \in {Root} \cup Sections(w) \cup Lines(w)
  <2> DEFINE q == t[k].parent
  <2>1. CASE k = i
    BY <2>1, <1>6, <1>7, <1>8
  <2>2. CASE k # i /\ q = i
    <3>1. i \in Sections(t) \cup Lines(t)
      BY <2>2, <1>5, Levels
    <3>2. f[i] \in Sections(w) \cup Lines(w)
      BY <3>1, <1>6, <1>7, <1>8, Members, Levels
    <3> QED BY <2>2, <3>2, <1>6
  <2>3. CASE k # i /\ q # i
    <3>1. q \in B /\ q \notin Sections(t) /\ q \in Lines(t)
      BY <2>3, <1>5, <1>9, Levels
    <3>2. t[q].parent \in Sections(t) /\ t[q].parent \in B
      BY <3>1, <2>3, <1>5, Members
    <3>3. t[q].parent = i /\ i \in Sections(t)
      BY <3>2, <1>9
    <3>4. f[i] \in Sections(w)
      BY <3>3, <1>6, <1>8, Levels, Members
    <3>5. f[q] \in Lines(w)
      BY <3>1, <3>3, <3>4, <2>3, <1>6, Members
    <3> QED BY <2>3, <3>1, <3>5, <1>6
  <2> QED BY <2>1, <2>2, <2>3
<1>11. \A j \in DOMAIN c : /\ c[j].parent \in {Root} \cup Sections(w) \cup Lines(w)
                           /\ c[j].val \in Vals
  <2>1. \A k \in B : t[k].val \in Vals
    BY <1>5 DEF IsTree, IsOutline
  <2> QED BY <1>1, <1>6, <1>10, <2>1
<1>12. c = [j \in DOMAIN c |-> Node(c[j].parent, c[j].val)]
  <2>1. \A k \in B : c[f[k]] = Node(c[f[k]].parent, c[f[k]].val)
    BY <1>1, Fields
  <2>2. \A j \in DOMAIN c : c[j] = Node(c[j].parent, c[j].val)
    BY <1>1, <2>1
  <2> QED BY <1>1, <2>2
<1>13. IsTree(w)
  <2>1. \A j \in DOMAIN c : c[j].parent \in {Root} \cup Sections(With(r, c)) \cup Lines(With(r, c))
    BY <1>11 DEF w
  <2> QED BY <1>3, <1>11, <1>12, <2>1, WithIsTree DEF w
<1>14. \A j : j \in DOMAIN w <=> (j \in DOMAIN r) \/ \E k \in B : f[k] = j
  BY <1>1, <1>2
<1> QED BY <1>4, <1>13, <1>14 DEF w, c

\* What the server adds to the draft q of a save with baseline o: of the nodes of q it changes
\* values only, those of new or changed lines; the nodes that come are lines and items of new
\* sections, under names nothing bears yet.
LEMMA FurnishedIsTree ==
  ASSUME NEW o, DOMAIN o \subseteq Given, NEW q, IsTree(q), DOMAIN q \subseteq Given
  PROVE  LET n == Furnished(o, q) IN
         /\ IsTree(n)
         /\ DOMAIN q \subseteq DOMAIN n /\ DOMAIN n \cap Given = DOMAIN q
         /\ \A i \in DOMAIN q : n[i].parent = q[i].parent
         /\ \A i \in DOMAIN q \cap DOMAIN o : n[i].val # q[i].val => o[i].val # q[i].val
         /\ \A i \in DOMAIN n \ DOMAIN q : n[i].parent \in Ids \ DOMAIN o
<1> DEFINE val(i) == IF i \in Repriced(o, q) THEN CrewPrice[q[i].val] ELSE q[i].val
           new == [i \in DOMAIN q |-> Node(q[i].parent, val(i))]
           B == Bare(o, q)
           more == Seeded(B)
           n == With(new, more)
<1>1. Furnished(o, q) = n
  BY DEF Furnished
<1>2. /\ \A i \in DOMAIN q : q[i].val \in Vals
      /\ \A v \in Vals : CrewPrice[v] \in Vals
  BY EditorAssumption DEF IsTree, IsOutline
<1>3. \A i \in DOMAIN q : val(i) \in Vals
  BY <1>2
<1>4. \A i \in DOMAIN q \cap DOMAIN o : val(i) # q[i].val => o[i].val # q[i].val
  BY DEF Repriced
<1> HIDE DEF val
<1>5. /\ DOMAIN new = DOMAIN q /\ new = [i \in DOMAIN new |-> new[i]]
      /\ \A i \in DOMAIN q : /\ new[i] = Node(new[i].parent, new[i].val)
                            /\ new[i].parent = q[i].parent /\ new[i].val = val(i)
  BY Fields
<1> HIDE DEF new
<1>6. Sections(new) = Sections(q)
  <2>1. \A k : k \in Sections(new) <=> k \in Sections(q)
    BY <1>5, Members
  <2> QED BY <2>1
<1>7. Lines(new) = Lines(q)
  <2>1. \A k : k \in Lines(new) <=> k \in Lines(q)
    BY <1>5, <1>6, Members
  <2> QED BY <2>1
<1>8. IsTree(new)
  <2>1. new = [i \in DOMAIN new |-> Node(new[i].parent, new[i].val)]
    BY <1>5
  <2>2. \A i \in DOMAIN new : new[i].parent \in {Root} \cup Sections(new) \cup Lines(new)
    BY <1>5, <1>6, <1>7, Levels
  <2>3. DOMAIN new \subseteq Ids /\ \A i \in DOMAIN new : new[i].val \in Vals
    BY <1>3, <1>5 DEF IsTree, IsOutline
  <2> QED BY <2>1, <2>2, <2>3 DEF IsTree, IsOutline
<1>9. B \subseteq Sections(q) /\ B \cap DOMAIN o = {} /\ B \subseteq DOMAIN q
  BY Members DEF Bare
<1> HIDE DEF B
<1> DEFINE S == DOMAIN Standard
           at(s, j) == IF Standard[j].parent = Root THEN s ELSE <<s, Standard[j].parent>>
<1>10. /\ Root \notin S /\ \A j \in S : Standard[j].val \in Vals
       /\ \A j \in S : \/ Standard[j].parent = Root
                        \/ /\ Standard[j].parent \in S
                           /\ Standard[Standard[j].parent].parent = Root
  <2>1. \A j \in S : j \in Sections(Standard) \/ j \in Lines(Standard)
    BY EditorAssumption
  <2>2. Root \notin S /\ \A j \in S : Standard[j].val \in Vals
    BY EditorAssumption DEF IsOutline
  <2> QED BY <2>1, <2>2, Members
<1>11. DOMAIN more = B \X S /\ more = [k \in DOMAIN more |-> more[k]]
  BY DEF Seeded
<1>12. \A k \in DOMAIN more : /\ k[1] \in B /\ k[2] \in S /\ k = <<k[1], k[2]>>
                              /\ more[k] = Node(at(k[1], k[2]), Standard[k[2]].val)
  BY <1>11 DEF Seeded
<1>13. \A k \in DOMAIN more : more[k].parent = at(k[1], k[2]) /\ more[k].val = Standard[k[2]].val
  BY <1>12, Fields
<1> HIDE DEF more, S
<1>14. DOMAIN more \subseteq Given \X S
  BY <1>9, <1>11
<1>15. DOMAIN more \subseteq Ids /\ DOMAIN more \cap Given = {}
  BY <1>14, EditorAssumption DEF Ids, S
<1>16. DOMAIN more \cap DOMAIN new = {}
  BY <1>5, <1>15
<1>17. /\ DOMAIN n = DOMAIN q \cup DOMAIN more
       /\ \A i \in DOMAIN q : n[i] = new[i]
       /\ \A i \in DOMAIN more : n[i] = more[i]
  BY <1>5, <1>16 DEF With
<1> HIDE DEF n
<1>18. \A s \in B : s \in Sections(n)
  BY <1>5, <1>9, <1>17, Members
<1>19. ASSUME NEW s \in B, NEW j \in S, Standard[j].parent = Root PROVE <<s, j>> \in Lines(n)
  <2>1. <<s, j>> \in DOMAIN more
    BY <1>11
  <2>2. more[<<s, j>>].parent = s
    BY <2>1, <1>13, <1>19
  <2> QED BY <2>1, <2>2, <1>17, <1>18, Members
<1>20. ASSUME NEW k \in DOMAIN more
       PROVE  /\ more[k].parent \in {Root} \cup Sections(n) \cup Lines(n)
              /\ more[k].parent \in Ids \ DOMAIN o
  <2> DEFINE s == k[1]
             j == k[2]
             u == Standard[j].parent
  <2>1. s \in B /\ j \in S /\ more[k].parent = IF u = Root THEN s ELSE <<s, u>>
    BY <1>12, <1>13
  <2> HIDE DEF s, j
  <2>2. CASE u = Root
    BY <2>1, <2>2, <1>9, <1>18 DEF Ids
  <2>3. CASE u # Root
    <3>1. u \in S /\ <<s, u>> \in Lines(n)
      BY <2>1, <2>3, <1>10, <1>19
    <3>2. <<s, u>> \in DOMAIN more
      BY <1>11, <2>1, <3>1
    <3> QED BY <2>1, <2>3, <3>1, <3>2, <1>15
  <2> QED BY <2>2, <2>3
<1>21. \A k \in DOMAIN more : /\ more[k].val \in Vals
                              /\ more[k] = Node(more[k].parent, more[k].val)
  <2>1. \A k \in DOMAIN more : /\ Standard[k[2]].val \in Vals
                               /\ more[k] = Node(more[k].parent, Standard[k[2]].val)
    BY <1>10, <1>12, <1>13
  <2> QED BY <2>1, <1>13
<1>22. IsTree(n)
  <2>1. more = [k \in DOMAIN more |-> Node(more[k].parent, more[k].val)]
    BY <1>11, <1>21
  <2>2. \A k \in DOMAIN more :
          more[k].parent \in {Root} \cup Sections(With(new, more)) \cup Lines(With(new, more))
    BY <1>20 DEF n
  <2> QED BY <1>8, <1>15, <1>16, <1>21, <2>1, <2>2, WithIsTree DEF n
<1>23. DOMAIN n \cap Given = DOMAIN q
  BY <1>15, <1>17
<1>24. \A i \in DOMAIN q : n[i].parent = q[i].parent /\ n[i].val = val(i)
  BY <1>5, <1>17
<1>25. \A i \in DOMAIN n \ DOMAIN q : n[i].parent \in Ids \ DOMAIN o
  BY <1>17, <1>20
<1> HIDE DEF n
<1>26. \A i \in DOMAIN q \cap DOMAIN o : n[i].val # q[i].val => o[i].val # q[i].val
  BY <1>4, <1>24
<1> QED BY <1>1, <1>17, <1>22, <1>23, <1>24, <1>25, <1>26

LEMMA SetsAreFinite == IsFiniteSet(ServerIds) /\ IsFiniteSet(LocalIds)
  BY EditorAssumption, FS_Subset DEF Ids, Given

\* Names for a set exist when there are enough of them.
LEMMA NamingIsInjective ==
  ASSUME NEW S, IsFiniteSet(S), NEW free, IsFiniteSet(free), Cardinality(S) <= Cardinality(free)
  PROVE  /\ Naming(S, free) \in [S -> free]
         /\ \A x, y \in S : Naming(S, free)[x] = Naming(S, free)[y] => x = y
<1>1. /\ Cardinality(S) \in Nat /\ ExistsBijection(1..Cardinality(S), S)
      /\ Cardinality(free) \in Nat /\ ExistsBijection(1..Cardinality(free), free)
  BY FS_CardinalityType
<1>2. ExistsInjection(S, 1..Cardinality(S)) /\ ExistsInjection(1..Cardinality(free), free)
  BY <1>1, Fun_ExistsBijEquiv
<1>3. ExistsInjection(1..Cardinality(S), 1..Cardinality(free))
  BY <1>1, Fun_NatInjLeq
<1>4. ExistsInjection(S, free)
  BY <1>2, <1>3, Fun_ExistsInjTransitive
<1>5. PICK f \in Injection(S, free) : TRUE
  BY <1>4, Fun_ExistsInj
<1>6. f \in [S -> free] /\ \A x, y \in S : f[x] = f[y] => x = y
  BY <1>5, Fun_InjectionProperties
<1> QED BY <1>6 DEF Naming

LEMMA NextSaveIsUnused ==
  ASSUME CanSave
  PROVE  NextSave \in Attempts /\ saves[NextSave] = NoSave
<1> DEFINE T == {a \in Attempts : saves[a] = NoSave}
<1>1. T \subseteq Nat /\ T # {}
  BY EditorAssumption DEF CanSave, Attempts
<1>2. \E m \in T : \A k \in T : ~(<<k, m>> \in OpToRel(<, Nat))
  BY <1>1, NatLessThanWellFounded, WFMin
<1>3. PICK m \in T : \A k \in T : ~(k < m)
  BY <1>1, <1>2 DEF OpToRel
<1>4. \A b \in 1..(m - 1) : saves[b] # NoSave
  <2>1. ASSUME NEW b \in 1..(m - 1) PROVE b \in Attempts /\ b < m
    BY EditorAssumption DEF Attempts
  <2> QED BY <1>3, <2>1
<1> QED BY <1>3, <1>4 DEF NextSave

-----------------------------------------------------------------------------
(* The invariant.                                                           *)

Sheet(e) == e = [tree |-> e.tree, life |-> e.life]

\* A tree that may be told to a server holding r that has minted m: where they share
\* nodes, they agree on their places.
Sound(t, r, m) ==
  /\ IsTree(t) /\ DOMAIN t \cap ServerIds \subseteq m
  /\ \A k \in DOMAIN r \cap DOMAIN t : r[k].parent = t[k].parent

Stores(r, m) == IsTree(r) /\ DOMAIN r \subseteq m /\ m \subseteq ServerIds

ShowsOK(e) == Sheet(e) /\ Sound(e.tree, rows, minted) /\ DOMAIN e.tree \subseteq Given
ToggleOK(g) ==
  /\ g = [to |-> g.to, seen |-> g.seen, own |-> g.own]
  /\ g # NoToggle => Sound(g.seen, rows, minted) /\ DOMAIN g.seen \subseteq Given
SavesOK ==
  /\ saves = [a \in Attempts |-> [phase |-> saves[a].phase, old |-> saves[a].old,
                                  asked |-> saves[a].asked, wanted |-> saves[a].wanted, life |-> saves[a].life]]
  /\ \A a \in Attempts :
       /\ saves[a].phase \in {"none", "done", "failed"} \cup Running
       /\ saves[a].phase # "none" => Sound(saves[a].wanted, rows, minted)
       /\ DOMAIN saves[a].asked \subseteq DOMAIN saves[a].wanted

TreesInv ==
  /\ Stores(rows, minted)
  /\ ShowsOK(draft) /\ ShowsOK(saved) /\ ShowsOK(cache) /\ ToggleOK(toggle) /\ SavesOK

Busy(a) == saves[a].phase \in Running

\* A request belongs to a save that awaits it, or to one another request has failed.
Sent(r) ==
  /\ r.by \in Attempts /\ r.do \in TreeBatches
  /\ r.do # "delete" => r.id \in DOMAIN saves[r.by].asked
  /\ \/ saves[r.by].phase \in TreeBatches
     \/ saves[r.by].phase = "failed" /\ "failed" \in broken

\* Only the save the editor waits for is under way, or one whose editor is gone; and
\* with none, the baseline and the cache are what is stored.
TurnsInv ==
  /\ \A r \in wire : Sent(r)
  /\ cur = 0 \/ (cur \in Attempts /\ Busy(cur))
  /\ broken \subseteq {"failed", "orphan", "leaked"}
  /\ \A a \in Attempts : Busy(a) /\ a # cur => "orphan" \in broken
  /\ broken = {} /\ cur = 0 => saved.tree = rows /\ cache.tree = rows

EditorInv == TreesInv /\ TurnsInv

LEMMA InvImpliesBaseline == EditorInv => BaselineIsServer
  BY DEF EditorInv, TreesInv, TurnsInv, BaselineIsServer, EditorTypeOK, Stores, ShowsOK, Sound, Busy

LEMMA SoundOfItself == \A r, m : Stores(r, m) => Sound(r, r, m)
  BY DEF Stores, Sound

LEMMA InitInv == EditorInit => EditorInv
<1> SUFFICES ASSUME EditorInit PROVE EditorInv
  OBVIOUS
<1>1. Stores(rows, minted)
  BY EditorAssumption DEF EditorInit, Stores
<1>2. ShowsOK(draft) /\ ShowsOK(saved) /\ ShowsOK(cache)
  BY <1>1, SoundOfItself DEF EditorInit, ShowsOK, Sheet, Fresh, Stores, Given
<1>3. ToggleOK(toggle)
  BY DEF EditorInit, ToggleOK, NoToggle
<1>4. \A a \in Attempts : saves[a] = NoSave
  BY DEF EditorInit
<1>5. SavesOK
  BY <1>4 DEF EditorInit, SavesOK, NoSave
<1>6. TurnsInv
  <2>1. \A a \in Attempts : ~Busy(a)
    BY <1>4 DEF NoSave, Busy, Running, TreeBatches
  <2>2. wire = {} /\ cur = 0 /\ broken = {} /\ saved.tree = rows /\ cache.tree = rows
    BY DEF EditorInit, Fresh
  <2>3. broken \subseteq {"failed", "orphan", "leaked"} /\ \A r \in wire : Sent(r)
    BY <2>2
  <2>4. \A a \in Attempts : Busy(a) /\ a # cur => "orphan" \in broken
    BY <2>1
  <2> QED BY <2>2, <2>3, <2>4 DEF TurnsInv
<1> QED BY <1>1, <1>2, <1>3, <1>5, <1>6 DEF EditorInv, TreesInv

-----------------------------------------------------------------------------
(* Edits.                                                                   *)

\* A single fresh node.
LEMMA LeafFacts ==
  \A n, p, v : /\ DOMAIN Leaf(n, p, v) = {n} /\ Leaf(n, p, v)[n] = Node(p, v)
               /\ Leaf(n, p, v) = [k \in {n} |-> Node(p, v)]
  BY DEF Leaf

LEMMA LeafIsTree ==
  ASSUME NEW t, NEW n, NEW v, NEW p, IsTree(t), n \in Ids \ DOMAIN t, v \in Vals,
         p \in {Root} \cup Sections(t) \cup Lines(t)
  PROVE  LET w == With(t, Leaf(n, p, v)) IN
         /\ IsTree(w) /\ \A j : j \in DOMAIN w <=> j \in DOMAIN t \/ j = n
         /\ \A k \in DOMAIN t : w[k] = t[k]
         /\ w[n] = Node(p, v)
<1> DEFINE more == Leaf(n, p, v)
           w == With(t, more)
<1>1. DOMAIN more = {n} /\ more[n] = Node(p, v) /\ more[n].parent = p /\ more[n].val = v
  BY LeafFacts, Fields
<1>2. more = [k \in DOMAIN more |-> Node(more[k].parent, more[k].val)]
  BY <1>1, LeafFacts
<1> HIDE DEF more
<1>3. /\ \A j : j \in DOMAIN w <=> j \in DOMAIN t \/ j = n
      /\ w[n] = Node(p, v)
      /\ \A k \in DOMAIN t : w[k] = t[k]
  BY <1>1 DEF With, more
<1>4. Sections(t) \subseteq Sections(w)
  BY <1>3, Members
<1>5. Lines(t) \subseteq Lines(w)
  BY <1>3, <1>4, Members
<1>6. \A k \in DOMAIN more :
        more[k].parent \in {Root} \cup Sections(With(t, more)) \cup Lines(With(t, more))
  BY <1>1, <1>4, <1>5 DEF more
<1>7. IsTree(w)
  BY <1>1, <1>2, <1>6, WithIsTree DEF more
<1> QED BY <1>3, <1>7 DEF more

\* A tree keeps being sound when nodes go, values change and local nodes come.
LEMMA Derived ==
  ASSUME NEW r, NEW m, Stores(r, m), NEW t, Sound(t, r, m), NEW w, IsTree(w),
         DOMAIN t \subseteq Given, DOMAIN w \subseteq DOMAIN t \cup LocalIds,
         \A k \in DOMAIN w \cap DOMAIN t : w[k].parent = t[k].parent
  PROVE  Sound(w, r, m) /\ DOMAIN w \subseteq Given
<1>1. ServerIds \cap LocalIds = {}
  BY EditorAssumption
<1> QED BY <1>1 DEF Stores, Sound, Given

LEMMA DraftStep ==
  ASSUME EditorInv, Sheet(draft'), Sound(draft'.tree, rows, minted), DOMAIN draft'.tree \subseteq Given,
         UNCHANGED <<rows, minted, cache, saved, cur, saves, wire, toggle, broken>>
  PROVE  EditorInv'
<1>1. /\ rows' = rows /\ minted' = minted /\ cache' = cache /\ saved' = saved /\ cur' = cur
      /\ saves' = saves /\ wire' = wire /\ toggle' = toggle /\ broken' = broken
  OBVIOUS
<1>2. TreesInv'
  BY <1>1 DEF EditorInv, TreesInv, ShowsOK, ToggleOK, SavesOK
<1>3. TurnsInv'
  BY <1>1 DEF EditorInv, TurnsInv, Busy, Sent
<1> QED BY <1>2, <1>3 DEF EditorInv

\* What an edit does to the draft: it gets local nodes, and loses what counts as removed; or it
\* becomes the baseline.
Edited ==
  /\ UNCHANGED <<rows, minted, cache, saved, cur, saves, wire, broken>>
  /\ removed \subseteq removed'
  /\ \/ draft' = saved
     \/ /\ DOMAIN draft'.tree \subseteq DOMAIN draft.tree \cup LocalIds
        /\ DOMAIN draft.tree \ DOMAIN draft'.tree \subseteq removed'

LEMMA EditStep ==
  ASSUME EditorInv, NEW STATE t, Edit(t), IsTree(t), DOMAIN t \subseteq DOMAIN draft.tree \cup LocalIds,
         \A k \in DOMAIN t \cap DOMAIN draft.tree : t[k].parent = draft.tree[k].parent,
         removed \subseteq removed', DOMAIN draft.tree \ DOMAIN t \subseteq removed'
  PROVE  EditorInv' /\ Edited
<1>1. /\ draft = [tree |-> draft.tree, life |-> draft.life] /\ Sound(draft.tree, rows, minted)
      /\ DOMAIN draft.tree \subseteq Given
  BY DEF EditorInv, TreesInv, ShowsOK, Sheet
<1>2. draft' = [draft EXCEPT !.tree = t]
  BY DEF Edit
<1>3. draft'.tree = t /\ Sheet(draft')
  BY <1>1, <1>2 DEF Sheet
<1>4. Sound(t, rows, minted) /\ DOMAIN t \subseteq Given
  BY <1>1, Derived DEF EditorInv, TreesInv
<1>5. UNCHANGED <<rows, minted, cache, saved, cur, saves, wire, toggle, broken>>
  BY DEF Edit, server
<1>6. Edited
  BY <1>3, <1>5 DEF Edited
<1> QED BY <1>3, <1>4, <1>5, <1>6, DraftStep

LEMMA AddLeaf ==
  ASSUME EditorInv, NEW STATE n, n \in LocalIds \ DOMAIN draft.tree, NEW STATE p, NEW v \in Vals,
         p \in {Root} \cup Sections(draft.tree) \cup Lines(draft.tree), Add(Leaf(n, p, v))
  PROVE  EditorInv' /\ Edited
<1> DEFINE t == draft.tree
           w == With(t, Leaf(n, p, v))
<1>1. IsTree(t) /\ n \in Ids \ DOMAIN t
  BY DEF EditorInv, TreesInv, ShowsOK, Sound, Ids, Given
<1>2. /\ IsTree(w) /\ \A j : j \in DOMAIN w <=> j \in DOMAIN t \/ j = n
      /\ \A k \in DOMAIN t : w[k] = t[k]
  BY <1>1, LeafIsTree
<1>3. Edit(w) /\ removed' = removed
  BY DEF Add
<1> HIDE DEF w
<1> QED BY <1>2, <1>3, EditStep

LEMMA DropStep ==
  ASSUME EditorInv, NEW i \in DOMAIN draft.tree, Drop(i)
  PROVE  EditorInv' /\ Edited
<1> DEFINE t == draft.tree
           w == Without(t, Below(t, i))
<1>1. IsTree(t)
  BY DEF EditorInv, TreesInv, ShowsOK, Sound
<1>2. IsTree(w) /\ DOMAIN w \subseteq DOMAIN t /\ \A k \in DOMAIN w : w[k] = t[k]
  BY <1>1, PruneIsTree
<1>3. Edit(w) /\ removed' = removed \cup Below(t, i) /\ DOMAIN w = DOMAIN t \ Below(t, i)
  BY DEF Drop, Without
<1> HIDE DEF w
<1> QED BY <1>2, <1>3, EditStep

LEMMA PatchStep ==
  ASSUME EditorInv, NEW i \in DOMAIN draft.tree, NEW v \in Vals, Patch(i, v)
  PROVE  EditorInv' /\ Edited
<1> DEFINE t == draft.tree
           w == [t EXCEPT ![i].val = v]
<1>1. IsTree(t)
  BY DEF EditorInv, TreesInv, ShowsOK, Sound
<1>2. IsTree(w) /\ DOMAIN w = DOMAIN t /\ \A k \in DOMAIN t : w[k].parent = t[k].parent
  BY <1>1, PatchIsTree
<1>3. Edit(w) /\ removed' = removed
  BY DEF Patch
<1> HIDE DEF w
<1> QED BY <1>2, <1>3, EditStep

LEMMA LocalIsFree ==
  FreeLocal # {} => Local \in LocalIds \ DOMAIN draft.tree
<1>1. FreeLocal # {} => Local \in FreeLocal
  BY DEF Local
<1>2. FreeLocal \subseteq LocalIds \ DOMAIN draft.tree
  BY DEF FreeLocal
<1> QED BY <1>1, <1>2

LEMMA FreeIsFinite ==
  /\ IsFiniteSet(FreeLocal) /\ FreeLocal \subseteq LocalIds \ DOMAIN draft.tree
  /\ IsFiniteSet(FreeServer) /\ FreeServer \subseteq ServerIds
<1>1. FreeLocal \in SUBSET LocalIds /\ FreeServer \in SUBSET ServerIds
  BY DEF FreeLocal, FreeServer
<1> QED BY <1>1, SetsAreFinite, FS_Subset DEF FreeLocal

LEMMA BelowIsFinite ==
  ASSUME NEW t, IsTree(t), NEW i \in DOMAIN t PROVE IsFiniteSet(Below(t, i))
<1>1. Below(t, i) \in SUBSET Ids
  BY BelowIsClosed DEF IsTree, IsOutline
<1> QED BY <1>1, EditorAssumption, FS_Subset

LEMMA DuplicateStep ==
  ASSUME EditorInv, NEW s \in DOMAIN draft.tree, DuplicateSection(s) PROVE EditorInv' /\ Edited
<1> DEFINE t == draft.tree
           f == Naming(Below(t, s), FreeLocal)
           w == With(t, Copy(t, s, t[s].parent, f))
<1>1. IsTree(t) /\ IsFiniteSet(Below(t, s)) /\ t[s].parent = Root
  <2>1. IsTree(t)
    BY DEF EditorInv, TreesInv, ShowsOK, Sound
  <2>2. s \in Sections(t)
    BY DEF DuplicateSection
  <2> QED BY <2>1, <2>2, BelowIsFinite, Members
<1>2. Edit(w) /\ removed' = removed
  BY <1>1 DEF DuplicateSection, Add
<1>3. Cardinality(Below(t, s)) <= Cardinality(FreeLocal)
  <2>1. Cardinality(Below(t, s)) \in Nat /\ Cardinality(FreeLocal) \in Nat
    BY <1>1, FreeIsFinite, FS_CardinalityType
  <2> QED BY <2>1 DEF DuplicateSection
<1>4. f \in [Below(t, s) -> FreeLocal] /\ \A x, y \in Below(t, s) : f[x] = f[y] => x = y
  BY <1>1, <1>3, FreeIsFinite, NamingIsInjective
<1> HIDE DEF f
<1>5. f \in [Below(t, s) -> Ids \ DOMAIN t]
  BY <1>4, FreeIsFinite DEF Ids, Given
<1>6. /\ IsTree(w) /\ \A j : j \in DOMAIN w <=> (j \in DOMAIN t) \/ \E k \in Below(t, s) : f[k] = j
      /\ \A k \in DOMAIN t : w[k] = t[k]
  BY <1>1, <1>4, <1>5, CopyIsTree
<1>7. DOMAIN w \subseteq DOMAIN t \cup LocalIds
  BY <1>4, <1>6, FreeIsFinite
<1> HIDE DEF w
<1> QED BY <1>2, <1>6, <1>7, EditStep

LEMMA TwoLeavesAreTree ==
  ASSUME NEW t, NEW n, NEW k, NEW o, NEW v, IsTree(t),
         n \in Ids \ DOMAIN t, k \in Ids \ DOMAIN t, n # k, o \in Vals, v \in Vals
  PROVE  LET x == With(t, With(Leaf(n, Root, o), Leaf(k, n, v))) IN
         /\ IsTree(x) /\ \A j : j \in DOMAIN x <=> j \in DOMAIN t \/ j = n \/ j = k
         /\ \A j \in DOMAIN t : x[j] = t[j]
<1> DEFINE one == Leaf(n, Root, o)
           two == Leaf(k, n, v)
           u == With(t, one)
           w == With(u, two)
<1>1. With(t, With(one, two)) = w
  <2>1. /\ DOMAIN With(one, two) = DOMAIN one \cup DOMAIN two
        /\ \A j \in DOMAIN one \cup DOMAIN two :
             With(one, two)[j] = IF j \in DOMAIN two THEN two[j] ELSE one[j]
    BY DEF With
  <2>2. /\ DOMAIN u = DOMAIN t \cup DOMAIN one
        /\ \A j \in DOMAIN u : u[j] = IF j \in DOMAIN one THEN one[j] ELSE t[j]
    BY DEF With
  <2> HIDE DEF one, two, u
  <2>3. w = [j \in DOMAIN u \cup DOMAIN two |-> IF j \in DOMAIN two THEN two[j] ELSE u[j]]
    BY DEF With
  <2>4. With(t, With(one, two)) =
          [j \in DOMAIN t \cup DOMAIN With(one, two) |->
             IF j \in DOMAIN With(one, two) THEN With(one, two)[j] ELSE t[j]]
    BY DEF With
  <2> HIDE DEF w
  <2> QED BY <2>1, <2>2, <2>3, <2>4
<1>2. /\ IsTree(u) /\ \A j : j \in DOMAIN u <=> j \in DOMAIN t \/ j = n
      /\ \A j \in DOMAIN t : u[j] = t[j]
      /\ u[n] = Node(Root, o)
  BY LeafIsTree
<1> HIDE DEF u
<1>3. n \in Sections(u) /\ k \in Ids \ DOMAIN u
  BY <1>2, Members, Fields
<1>4. /\ IsTree(w) /\ \A j : j \in DOMAIN w <=> j \in DOMAIN u \/ j = k
      /\ \A j \in DOMAIN u : w[j] = u[j]
  <2>1. IsTree(u) /\ k \in Ids \ DOMAIN u /\ v \in Vals
    BY <1>2, <1>3
  <2>2. n \in {Root} \cup Sections(u) \cup Lines(u)
    BY <1>3
  <2> QED BY ONLY <2>1, <2>2, LeafIsTree
<1> HIDE DEF w
<1> QED BY <1>1, <1>2, <1>4

LEMMA OptionalStep ==
  ASSUME EditorInv, NEW v \in Vals, AddOptionalService(v) PROVE EditorInv' /\ Edited
<1> DEFINE t == draft.tree
           f == Naming({"section", "line"}, FreeLocal)
           w == With(t, With(Leaf(f["section"], Root, Optional), Leaf(f["line"], f["section"], v)))
<1>1. f["section"] \in FreeLocal /\ f["line"] \in FreeLocal /\ f["section"] # f["line"]
  <2>1. IsFiniteSet({"section", "line"}) /\ Cardinality({"section", "line"}) = 2
    <3>1. IsFiniteSet({"section"}) /\ Cardinality({"section"}) = 1
      BY FS_Singleton
    <3>2. {"section", "line"} = {"section"} \cup {"line"} /\ "line" \notin {"section"}
      OBVIOUS
    <3> QED BY <3>1, <3>2, FS_AddElement
  <2>2. Cardinality({"section", "line"}) <= Cardinality(FreeLocal)
    BY <2>1, FreeIsFinite, FS_CardinalityType DEF AddOptionalService
  <2>3. /\ f \in [{"section", "line"} -> FreeLocal]
        /\ \A x, y \in {"section", "line"} : f[x] = f[y] => x = y
    BY <2>1, <2>2, FreeIsFinite, NamingIsInjective
  <2> HIDE DEF f
  <2> QED BY <2>3
<1>2. Edit(w) /\ removed' = removed
  BY DEF AddOptionalService, Add
<1> HIDE DEF f
<1>3. /\ IsTree(t) /\ f["section"] \in Ids \ DOMAIN t /\ f["line"] \in Ids \ DOMAIN t
      /\ Optional \in Vals
  BY <1>1, FreeIsFinite, EditorAssumption DEF EditorInv, TreesInv, ShowsOK, Sound, Ids, Given
<1>4. /\ IsTree(w) /\ \A j : j \in DOMAIN w <=> j \in DOMAIN t \/ j = f["section"] \/ j = f["line"]
      /\ \A k \in DOMAIN t : w[k] = t[k]
  <2> DEFINE n == f["section"]
             k == f["line"]
  <2>1. IsTree(t) /\ n \in Ids \ DOMAIN t /\ k \in Ids \ DOMAIN t /\ Optional \in Vals /\ n # k
    BY <1>1, <1>3
  <2>2. w = With(t, With(Leaf(n, Root, Optional), Leaf(k, n, v)))
    OBVIOUS
  <2> HIDE DEF n, k, t
  <2>3. /\ IsTree(w) /\ \A j : j \in DOMAIN w <=> j \in DOMAIN t \/ j = n \/ j = k
        /\ \A j \in DOMAIN t : w[j] = t[j]
    BY <2>1, <2>2, TwoLeavesAreTree
  <2> QED BY <2>3 DEF n, k, t
<1> HIDE DEF w
<1>5. DOMAIN w \subseteq DOMAIN t \cup LocalIds
  BY <1>1, <1>4, FreeIsFinite
<1> QED BY <1>2, <1>4, <1>5, EditStep

LEMMA GroupStep ==
  ASSUME EditorInv, NEW l \in DOMAIN draft.tree, NEW v \in Vals, GroupLabor(l, v) PROVE EditorInv' /\ Edited
<1> DEFINE t == draft.tree
           same == {c \in Under(t, l) : t[c].val = v}
           first == CHOOSE c \in same : TRUE
           u == [t EXCEPT ![first].val = Grown]
           w == Without(u, same \ {first})
<1>1. /\ IsTree(t) /\ l \in Lines(t) /\ Edit(w) /\ Grown \in Vals
      /\ removed' = removed \cup (same \ {first})
  BY EditorAssumption DEF EditorInv, TreesInv, ShowsOK, Sound, GroupLabor
<1>2. same # {}
  <2>1. Cardinality({}) = 0
    BY FS_EmptySet
  <2>2. Cardinality(same) > 1
    BY DEF GroupLabor
  <2> HIDE DEF same
  <2> QED BY <2>1, <2>2
<1>3. first \in same /\ same \subseteq DOMAIN t /\ \A c \in same : t[c].parent = l
  BY <1>2 DEF Under
<1> HIDE DEF first, same
<1>4. IsTree(u) /\ DOMAIN u = DOMAIN t /\ \A k \in DOMAIN t : u[k].parent = t[k].parent
  BY <1>1, <1>3, PatchIsTree
<1> HIDE DEF u
<1>5. \A c \in same : c \notin {Root} \cup Sections(t) \cup Lines(t)
  BY <1>1, <1>3, Levels, Members
<1>6. \A k \in DOMAIN u \ (same \ {first}) : u[k].parent \notin same \ {first}
  BY <1>1, <1>4, <1>5, Levels
<1>7. /\ IsTree(w) /\ DOMAIN w = DOMAIN u \ (same \ {first})
      /\ \A k \in DOMAIN u \ (same \ {first}) : w[k] = u[k]
  BY <1>4, <1>6, WithoutIsTree
<1> HIDE DEF w
<1>8. DOMAIN w \subseteq DOMAIN t /\ \A k \in DOMAIN w : w[k].parent = t[k].parent
  BY <1>4, <1>7
<1>9. DOMAIN t \ DOMAIN w \subseteq removed' /\ removed \subseteq removed'
  BY <1>1, <1>4, <1>7
<1> QED BY <1>1, <1>7, <1>8, <1>9, EditStep

LEMMA EditingStep ==
  ASSUME EditorInv, Editing PROVE EditorInv' /\ Edited
<1> DEFINE t == draft.tree
<1>1. ASSUME NEW i \in DOMAIN t, NEW v \in Vals,
             PatchSection(i, v) \/ PatchLine(i, v) \/ PatchService(i, v) \/ PatchComponent(i, v)
      PROVE  EditorInv' /\ Edited
  <2>1. Patch(i, v)
    BY <1>1 DEF PatchSection, PatchLine, PatchService, PatchComponent
  <2> QED BY <2>1, PatchStep
<1>2. ASSUME NEW i \in DOMAIN t, NEW v \in Vals,
             AddCatalogLine(i, v) \/ AddService(i, v) \/ AddComponent(i, v)
      PROVE  EditorInv' /\ Edited
  <2>1. /\ Local \in LocalIds \ DOMAIN t /\ Add(Leaf(Local, i, v))
        /\ i \in {Root} \cup Sections(t) \cup Lines(t)
    BY <1>2, LocalIsFree DEF AddCatalogLine, AddService, AddComponent
  <2> QED BY <2>1, AddLeaf
<1>3. ASSUME NEW v \in Vals, AddSection(v) PROVE EditorInv' /\ Edited
  <2>1. Local \in LocalIds \ DOMAIN t /\ Add(Leaf(Local, Root, v))
    BY <1>3, LocalIsFree DEF AddSection
  <2> QED BY <2>1, AddLeaf
<1>4. ASSUME NEW i \in DOMAIN t,
             RemoveSection(i) \/ RemoveLine(i) \/ DeleteService(i) \/ DeleteComponent(i)
      PROVE  EditorInv' /\ Edited
  <2>1. Drop(i)
    BY <1>4 DEF RemoveSection, RemoveLine, DeleteService, DeleteComponent
  <2> QED BY <2>1, DropStep
<1>5. ASSUME Reset PROVE EditorInv' /\ Edited
  <2>1. /\ draft' = saved
        /\ UNCHANGED <<rows, minted, cache, saved, cur, saves, wire, toggle, broken>>
    BY <1>5 DEF Reset, server, ghosts
  <2>2. Edited
    BY <1>5 DEF Reset, server, ghosts, Edited
  <2>3. Sheet(draft') /\ Sound(draft'.tree, rows, minted) /\ DOMAIN draft'.tree \subseteq Given
    BY <2>1 DEF EditorInv, TreesInv, ShowsOK
  <2> QED BY <2>1, <2>2, <2>3, DraftStep
<1> QED BY <1>1, <1>2, <1>3, <1>4, <1>5, GroupStep, OptionalStep, DuplicateStep DEF Editing

-----------------------------------------------------------------------------
(* Requests and answers.                                                    *)

\* What a step of one save does to the list of saves.
LEMMA PhaseStep ==
  ASSUME SavesOK, NEW a \in Attempts, NEW p, saves' = [saves EXCEPT ![a].phase = p]
  PROVE  /\ \A b \in Attempts : /\ saves'[b].phase = IF b = a THEN p ELSE saves[b].phase
                                /\ saves'[b].asked = saves[b].asked /\ saves'[b].wanted = saves[b].wanted
         /\ \A b \in Attempts : saves'[b].old = saves[b].old
         /\ saves' = [b \in Attempts |-> [phase |-> saves'[b].phase, old |-> saves'[b].old,
                                         asked |-> saves'[b].asked, wanted |-> saves'[b].wanted, life |-> saves'[b].life]]
<1>1. \A b \in Attempts : saves[b] = [phase |-> saves[b].phase, old |-> saves[b].old,
                                      asked |-> saves[b].asked, wanted |-> saves[b].wanted, life |-> saves[b].life]
  BY DEF SavesOK
<1>2. DOMAIN saves = Attempts
  BY DEF SavesOK
<1>3. saves'[a] = [phase |-> p, old |-> saves[a].old, asked |-> saves[a].asked,
                   wanted |-> saves[a].wanted, life |-> saves[a].life]
  <2>1. saves'[a] = [saves[a] EXCEPT !.phase = p]
    BY <1>2
  <2> QED BY <1>1, <2>1
<1>4. \A b \in Attempts \ {a} : saves'[b] = saves[b]
  BY <1>2
<1>5. \A b \in Attempts : /\ saves'[b].phase = IF b = a THEN p ELSE saves[b].phase
                          /\ saves'[b].asked = saves[b].asked /\ saves'[b].wanted = saves[b].wanted
  BY <1>3, <1>4
<1>8. \A b \in Attempts : saves'[b].old = saves[b].old
  BY <1>3, <1>4
<1>6. \A b \in Attempts : saves'[b] = [phase |-> saves'[b].phase, old |-> saves'[b].old,
                                       asked |-> saves'[b].asked, wanted |-> saves'[b].wanted, life |-> saves'[b].life]
  BY <1>1, <1>3, <1>4
<1>7. saves' = [b \in Attempts |-> saves'[b]]
  BY <1>2
<1> QED BY <1>5, <1>6, <1>7, <1>8

LEMMA PhaseKeepsSaves ==
  ASSUME SavesOK, NEW a \in Attempts, NEW p, p \in {"done", "failed"} \cup Running,
         saves' = [saves EXCEPT ![a].phase = p], saves[a].phase # "none",
         rows' = rows, minted' = minted
  PROVE  SavesOK'
<1>1. /\ \A b \in Attempts : /\ saves'[b].phase = IF b = a THEN p ELSE saves[b].phase
                             /\ saves'[b].asked = saves[b].asked /\ saves'[b].wanted = saves[b].wanted
      /\ saves' = [b \in Attempts |-> [phase |-> saves'[b].phase, old |-> saves'[b].old,
                                      asked |-> saves'[b].asked, wanted |-> saves'[b].wanted, life |-> saves'[b].life]]
  BY PhaseStep
<1>2. \A b \in Attempts :
        /\ saves'[b].phase \in {"none", "done", "failed"} \cup Running
        /\ saves'[b].phase # "none" => Sound(saves'[b].wanted, rows', minted')
        /\ DOMAIN saves'[b].asked \subseteq DOMAIN saves'[b].wanted
  <2>1. \A b \in Attempts : /\ saves[b].phase \in {"none", "done", "failed"} \cup Running
                            /\ saves[b].phase # "none" => Sound(saves[b].wanted, rows, minted)
                            /\ DOMAIN saves[b].asked \subseteq DOMAIN saves[b].wanted
    BY DEF SavesOK
  <2> QED BY <1>1, <2>1
<1> QED BY <1>1, <1>2 DEF SavesOK

\* The database moves on, and whatever was sound before is sound after.
StaysSound(r, m) ==
  /\ Stores(r, m)
  /\ \A t : Sound(t, rows, minted) => Sound(t, r, m)

LEMMA NoMove == TreesInv => StaysSound(rows, minted)
  BY DEF TreesInv, StaysSound

LEMMA RowsGo ==
  ASSUME TreesInv, NEW i \in DOMAIN rows
  PROVE  StaysSound(Without(rows, Below(rows, i)), minted)
<1> DEFINE w == Without(rows, Below(rows, i))
<1>1. IsTree(w) /\ DOMAIN w \subseteq DOMAIN rows /\ \A k \in DOMAIN w : w[k] = rows[k]
  BY PruneIsTree DEF TreesInv, Stores
<1> HIDE DEF w
<1>2. StaysSound(w, minted)
  BY <1>1 DEF TreesInv, StaysSound, Stores, Sound
<1> QED BY <1>2 DEF w

LEMMA RowChanges ==
  ASSUME TreesInv, NEW i \in DOMAIN rows, NEW v \in Vals
  PROVE  StaysSound([rows EXCEPT ![i].val = v], minted)
<1> DEFINE w == [rows EXCEPT ![i].val = v]
<1>1. IsTree(w) /\ DOMAIN w = DOMAIN rows /\ \A k \in DOMAIN rows : w[k].parent = rows[k].parent
  BY PatchIsTree DEF TreesInv, Stores
<1> HIDE DEF w
<1>2. StaysSound(w, minted)
  BY <1>1 DEF TreesInv, StaysSound, Stores, Sound
<1> QED BY <1>2 DEF w

\* Rows with newly minted ids: no tree in play has ever heard of them.
LEMMA RowsCome ==
  ASSUME TreesInv, NEW w, NEW m, IsTree(w), DOMAIN rows \subseteq DOMAIN w,
         \A k \in DOMAIN rows : w[k] = rows[k],
         m \subseteq ServerIds, minted \subseteq m,
         DOMAIN w \ DOMAIN rows \subseteq m \ minted
  PROVE  StaysSound(w, m)
<1>1. Stores(w, m)
  BY DEF TreesInv, Stores
<1>2. ASSUME NEW t, Sound(t, rows, minted) PROVE Sound(t, w, m)
  <2>1. DOMAIN w \cap DOMAIN t \subseteq DOMAIN rows
    BY <1>2 DEF Sound
  <2> QED BY <1>2, <2>1 DEF Sound
<1> QED BY <1>1, <1>2 DEF StaysSound

\* There are names for a subtree that the server has room for, and nobody has used them.
LEMMA NewNames ==
  ASSUME TreesInv, NEW t, IsTree(t), NEW i \in DOMAIN t,
         Cardinality(FreeServer) >= Cardinality(Below(t, i))
  PROVE  LET f == Naming(Below(t, i), FreeServer) IN
         /\ f \in [Below(t, i) -> Ids \ DOMAIN rows]
         /\ \A x, y \in Below(t, i) : f[x] = f[y] => x = y
         /\ \A k \in Below(t, i) : f[k] \in ServerIds \ minted
<1> DEFINE f == Naming(Below(t, i), FreeServer)
<1>1. IsFiniteSet(Below(t, i))
  BY BelowIsFinite
<1>2. Cardinality(Below(t, i)) <= Cardinality(FreeServer)
  <2>1. Cardinality(Below(t, i)) \in Nat /\ Cardinality(FreeServer) \in Nat
    BY <1>1, FreeIsFinite, FS_CardinalityType
  <2> QED BY <2>1
<1>3. f \in [Below(t, i) -> FreeServer] /\ \A x, y \in Below(t, i) : f[x] = f[y] => x = y
  BY <1>1, <1>2, FreeIsFinite, NamingIsInjective
<1> HIDE DEF f
<1>4. \A k \in Below(t, i) : f[k] \in ServerIds \ minted
  BY <1>3 DEF FreeServer
<1>5. f \in [Below(t, i) -> Ids \ DOMAIN rows]
  BY <1>3, <1>4 DEF TreesInv, Stores, Ids, Given
<1> QED BY <1>3, <1>4, <1>5 DEF f

\* What a served create adds: the subtree, under minted ids.
LEMMA SubtreeComes ==
  ASSUME TreesInv, NEW t, Sound(t, rows, minted), NEW i \in DOMAIN t,
         t[i].parent \in DOMAIN rows \cup {Root},
         Cardinality(FreeServer) >= Cardinality(Below(t, i))
  PROVE  LET f == Naming(Below(t, i), FreeServer) IN
         StaysSound(With(rows, Copy(t, i, t[i].parent, f)), minted \cup {f[k] : k \in Below(t, i)})
<1> DEFINE f == Naming(Below(t, i), FreeServer)
           w == With(rows, Copy(t, i, t[i].parent, f))
           m == minted \cup {f[k] : k \in Below(t, i)}
<1>1. IsTree(t)
  BY DEF Sound
<1>2. /\ f \in [Below(t, i) -> Ids \ DOMAIN rows]
      /\ \A x, y \in Below(t, i) : f[x] = f[y] => x = y
      /\ \A k \in Below(t, i) : f[k] \in ServerIds \ minted
  BY <1>1, NewNames
<1> HIDE DEF f
<1>4. IsTree(rows) /\ DOMAIN rows \subseteq minted /\ minted \subseteq ServerIds
  BY DEF TreesInv, Stores
<1>7. \A k \in DOMAIN rows \cap DOMAIN t : rows[k].parent = t[k].parent
  BY DEF Sound
<1>8. /\ IsTree(w) /\ \A j : j \in DOMAIN w <=> (j \in DOMAIN rows) \/ \E k \in Below(t, i) : f[k] = j
      /\ \A k \in DOMAIN rows : w[k] = rows[k]
  BY <1>1, <1>2, <1>4, <1>7, CopyIsTree
<1> HIDE DEF w
<1>9. StaysSound(w, m)
  BY <1>2, <1>4, <1>8, RowsCome
<1> QED BY <1>9 DEF f, w

\* A create that stops half way writes a part of the subtree, which is at home there as well.
LEMMA PartOfSubtree ==
  ASSUME TreesInv, NEW t, Sound(t, rows, minted), NEW i \in DOMAIN t,
         Cardinality(FreeServer) >= Cardinality(Below(t, i)),
         NEW gone, i \notin gone, \A k \in gone : Under(t, k) \subseteq gone
  PROVE  LET u == Without(t, gone) IN
         /\ Sound(u, rows, minted) /\ i \in DOMAIN u /\ u[i] = t[i]
         /\ Cardinality(FreeServer) >= Cardinality(Below(u, i))
<1> DEFINE u == Without(t, gone)
<1>1. \A k \in DOMAIN t \ gone : t[k].parent \notin gone
  BY DEF Under
<1>2. IsTree(t)
  BY DEF Sound
<1>3. /\ IsTree(u) /\ DOMAIN u = DOMAIN t \ gone
      /\ \A k \in DOMAIN t \ gone : u[k] = t[k]
  BY <1>1, <1>2, WithoutIsTree
<1> HIDE DEF u
<1>4. Sound(u, rows, minted)
  BY <1>3 DEF Sound
<1>5. Below(u, i) \subseteq Below(t, i)
  <2>1. \A p : Under(u, p) \subseteq Under(t, p)
    BY <1>3 DEF Under
  <2> QED BY <2>1 DEF Below
<1>6. IsFiniteSet(Below(t, i)) /\ Cardinality(Below(u, i)) <= Cardinality(Below(t, i))
  BY <1>2, <1>5, BelowIsFinite, FS_Subset
<1>7. Cardinality(FreeServer) >= Cardinality(Below(u, i))
  <2>1. /\ Cardinality(Below(t, i)) \in Nat /\ Cardinality(FreeServer) \in Nat
        /\ Cardinality(Below(u, i)) \in Nat
    BY <1>5, <1>6, FreeIsFinite, FS_CardinalityType, FS_Subset
  <2> QED BY <1>6, <2>1
<1>8. i \in DOMAIN u /\ u[i] = t[i]
  BY <1>3
<1> QED BY <1>4, <1>7, <1>8 DEF u

\* The subtree that a create writes.
LEMMA InsertedStep ==
  ASSUME TreesInv, NEW t, Sound(t, rows, minted), NEW i \in DOMAIN t,
         t[i].parent \in DOMAIN rows \cup {Root},
         Cardinality(FreeServer) >= Cardinality(Below(t, i)), Inserted(t, i)
  PROVE  /\ StaysSound(rows', minted') /\ minted \subseteq minted'
         /\ DOMAIN rows \subseteq DOMAIN rows' /\ DOMAIN rows' \cap minted \subseteq DOMAIN rows
<1> DEFINE f == Naming(Below(t, i), FreeServer)
           w == With(rows, Copy(t, i, t[i].parent, f))
           m == minted \cup {f[k] : k \in Below(t, i)}
<1>1. rows' = w /\ minted' = m
  BY DEF Inserted
<1>2. StaysSound(w, m)
  BY SubtreeComes
<1>3. \A k \in Below(t, i) : f[k] \notin minted
  BY NewNames DEF Sound
<1>4. DOMAIN w = DOMAIN rows \cup {f[k] : k \in Below(t, i)}
  BY DEF With, Copy
<1> HIDE DEF f, w
<1> QED BY <1>1, <1>2, <1>3, <1>4

LEMMA SenderIsKnown ==
  ASSUME EditorInv, NEW r \in wire
  PROVE  /\ r.by \in Attempts /\ r.do \in {"delete", "update", "create"}
         /\ saves[r.by].phase # "none" /\ Sound(saves[r.by].wanted, rows, minted)
         /\ r.do # "delete" => r.id \in DOMAIN saves[r.by].wanted
  BY DEF EditorInv, TreesInv, TurnsInv, SavesOK, Sent, TreeBatches

LEMMA ApplyStep ==
  ASSUME EditorInv, NEW r \in wire, Serves(r), Apply(r)
  PROVE  StaysSound(rows', minted')
<1> DEFINE t == saves[r.by].wanted
<1>1. r.do \in {"delete", "update", "create"} /\ (r.do # "delete" => r.id \in DOMAIN t)
  BY SenderIsKnown
<1>2. TreesInv /\ Sound(t, rows, minted)
  BY SenderIsKnown DEF EditorInv
<1>3. CASE r.do = "delete"
  <2>1. r.id \in DOMAIN rows /\ rows' = Without(rows, Below(rows, r.id)) /\ minted' = minted
    BY <1>3 DEF Serves, Apply
  <2> QED BY <1>2, <2>1, RowsGo
<1>4. CASE r.do = "update"
  <2>1. r.id \in DOMAIN rows /\ rows' = [rows EXCEPT ![r.id].val = t[r.id].val] /\ minted' = minted
    BY <1>4 DEF Serves, Apply
  <2>2. t[r.id].val \in Vals
    BY <1>1, <1>2, <1>4 DEF Sound, IsTree, IsOutline
  <2> QED BY <1>2, <2>1, <2>2, RowChanges
<1>5. CASE r.do = "create"
  <2>1. /\ t[r.id].parent \in DOMAIN rows \cup {Root}
        /\ Cardinality(FreeServer) >= Cardinality(Below(t, r.id))
    BY <1>5 DEF Serves, Payload
  <2>2. Inserted(t, r.id) /\ r.id \in DOMAIN t
    BY <1>1, <1>5 DEF Apply
  <2> HIDE DEF t
  <2> QED BY <1>2, <2>1, <2>2, InsertedStep
<1> QED BY <1>1, <1>3, <1>4, <1>5

\* The trees stay sound as long as nobody but the database moves.
LEMMA TreesStay ==
  ASSUME TreesInv, StaysSound(rows', minted'), UNCHANGED <<draft, saved, cache, toggle>>,
         saves' = [b \in Attempts |-> [phase |-> saves'[b].phase, old |-> saves'[b].old,
                                       asked |-> saves'[b].asked, wanted |-> saves'[b].wanted, life |-> saves'[b].life]],
         \A b \in Attempts : /\ saves'[b].asked = saves[b].asked /\ saves'[b].wanted = saves[b].wanted
                             /\ saves'[b].phase \in {"none", "done", "failed"} \cup Running
                             /\ saves'[b].phase # "none" => saves[b].phase # "none"
  PROVE  TreesInv'
<1>1. draft' = draft /\ saved' = saved /\ cache' = cache /\ toggle' = toggle
  OBVIOUS
<1>2. SavesOK'
  <2>1. \A b \in Attempts :
          /\ saves'[b].phase \in {"none", "done", "failed"} \cup Running
          /\ saves'[b].phase # "none" => Sound(saves'[b].wanted, rows', minted')
          /\ DOMAIN saves'[b].asked \subseteq DOMAIN saves'[b].wanted
    <3>1. \A b \in Attempts : saves[b].phase # "none" => Sound(saves[b].wanted, rows, minted)
      BY DEF TreesInv, SavesOK
    <3>2. \A t : Sound(t, rows, minted) => Sound(t, rows', minted')
      BY DEF StaysSound
    <3>3. ASSUME NEW b \in Attempts, saves'[b].phase # "none" PROVE Sound(saves'[b].wanted, rows', minted')
      <4>1. saves'[b].wanted = saves[b].wanted /\ Sound(saves[b].wanted, rows, minted)
        BY <3>1, <3>3
      <4>2. Sound(saves[b].wanted, rows', minted')
        BY <3>2, <4>1
      <4> QED BY <4>1, <4>2
    <3>4. \A b \in Attempts : DOMAIN saves'[b].asked \subseteq DOMAIN saves'[b].wanted
      BY DEF TreesInv, SavesOK
    <3> QED BY <3>3, <3>4
  <2> QED BY <2>1 DEF SavesOK
<1>3. ToggleOK(toggle)'
  BY <1>1 DEF TreesInv, ToggleOK, StaysSound
<1>4. ShowsOK(draft)' /\ ShowsOK(saved)' /\ ShowsOK(cache)'
  BY <1>1 DEF TreesInv, ShowsOK, StaysSound
<1> QED BY <1>2, <1>3, <1>4 DEF TreesInv, StaysSound

LEMMA ServeStep ==
  ASSUME EditorInv, NEW r \in wire, Serve(r) PROVE EditorInv'
<1>1. /\ wire' = wire \ {r} /\ saves' = saves /\ cur' = cur /\ broken' = broken /\ saved' = saved
      /\ cache' = cache /\ draft' = draft /\ toggle' = toggle
  BY DEF Serve, ghosts
<1>2. StaysSound(rows', minted')
  BY ApplyStep DEF Serve
<1>3. TreesInv'
  <2>1. TreesInv
    BY DEF EditorInv
  <2>2. saves' = [b \in Attempts |-> [phase |-> saves'[b].phase, old |-> saves'[b].old,
                                      asked |-> saves'[b].asked, wanted |-> saves'[b].wanted, life |-> saves'[b].life]]
    BY <1>1, <2>1 DEF TreesInv, SavesOK
  <2>3. \A b \in Attempts : /\ saves'[b].asked = saves[b].asked /\ saves'[b].wanted = saves[b].wanted
                            /\ saves'[b].phase \in {"none", "done", "failed"} \cup Running
                            /\ saves'[b].phase # "none" => saves[b].phase # "none"
    BY <1>1, <2>1 DEF TreesInv, SavesOK
  <2> QED BY <1>1, <1>2, <2>1, <2>2, <2>3, TreesStay
<1>4. broken = {} => cur # 0
  <2>1. r.by \in Attempts /\ r.by # 0 /\ (broken = {} => Busy(r.by))
    BY EditorAssumption DEF EditorInv, TurnsInv, Sent, Busy, Running, Attempts
  <2> QED BY <2>1 DEF EditorInv, TurnsInv
<1>5. TurnsInv'
  BY <1>1, <1>4 DEF EditorInv, TurnsInv, Sent, Busy
<1> QED BY <1>3, <1>5 DEF EditorInv

\* The catch block, with or without a row that was written first.
LEMMA RejectStep ==
  ASSUME EditorInv, NEW a \in Attempts, Reject(a), saves[a].phase # "none",
         StaysSound(rows', minted'), UNCHANGED <<draft, saved, cache, toggle>>,
         wire' \subseteq wire
  PROVE  EditorInv'
<1>1. TreesInv /\ SavesOK
  BY DEF EditorInv, TreesInv
<1>2. /\ \A b \in Attempts :
           /\ saves'[b].phase = IF b = a /\ Busy(a) THEN "failed" ELSE saves[b].phase
           /\ saves'[b].asked = saves[b].asked /\ saves'[b].wanted = saves[b].wanted
      /\ saves' = [b \in Attempts |-> [phase |-> saves'[b].phase, old |-> saves'[b].old,
                                       asked |-> saves'[b].asked, wanted |-> saves'[b].wanted, life |-> saves'[b].life]]
  <2>1. CASE Busy(a)
    <3>1. saves' = [saves EXCEPT ![a].phase = "failed"]
      BY <2>1 DEF Reject, Busy
    <3>2. /\ \A b \in Attempts : /\ saves'[b].phase = IF b = a THEN "failed" ELSE saves[b].phase
                                 /\ saves'[b].asked = saves[b].asked /\ saves'[b].wanted = saves[b].wanted
          /\ saves' = [b \in Attempts |-> [phase |-> saves'[b].phase, old |-> saves'[b].old,
                                           asked |-> saves'[b].asked, wanted |-> saves'[b].wanted, life |-> saves'[b].life]]
      BY <1>1, <3>1, PhaseStep
    <3> QED BY <2>1, <3>2
  <2>2. CASE ~Busy(a)
    <3>1. saves' = saves
      BY <2>2 DEF Reject, Busy
    <3> QED BY <1>1, <2>2, <3>1 DEF SavesOK
  <2> QED BY <2>1, <2>2
<1>3. TreesInv'
  <2>1. \A b \in Attempts : /\ saves'[b].asked = saves[b].asked /\ saves'[b].wanted = saves[b].wanted
                            /\ saves'[b].phase \in {"none", "done", "failed"} \cup Running
                            /\ saves'[b].phase # "none" => saves[b].phase # "none"
    BY <1>1, <1>2 DEF SavesOK
  <2> QED BY <1>1, <1>2, <2>1, TreesStay
<1>4. broken' = broken \cup {"failed"} /\ cur' = IF cur = a THEN 0 ELSE cur
  BY DEF Reject
<1>5. \A b \in Attempts : Busy(b)' <=> Busy(b) /\ b # a
  BY <1>2 DEF Busy, Running, TreeBatches
<1>6. \A q \in wire' : Sent(q)'
  <2> SUFFICES ASSUME NEW q \in wire' PROVE Sent(q)'
    OBVIOUS
  <2>1. /\ q.by \in Attempts /\ q.do \in TreeBatches
        /\ q.do # "delete" => q.id \in DOMAIN saves[q.by].asked
        /\ saves[q.by].phase \in TreeBatches \cup {"failed"}
    BY DEF EditorInv, TurnsInv, Sent
  <2>2. saves'[q.by].phase \in TreeBatches \cup {"failed"} /\ saves'[q.by].asked = saves[q.by].asked
    BY <1>2, <2>1
  <2> QED BY <1>4, <2>1, <2>2 DEF Sent
<1>7. TurnsInv'
  <2>1. cur' = 0 \/ (cur' \in Attempts /\ Busy(cur)')
    BY <1>4, <1>5 DEF EditorInv, TurnsInv, Busy
  <2>2. \A b \in Attempts : Busy(b)' /\ b # cur' => "orphan" \in broken'
    BY <1>4, <1>5 DEF EditorInv, TurnsInv
  <2>3. broken' \subseteq {"failed", "orphan", "leaked"} /\ broken' # {}
    BY <1>4 DEF EditorInv, TurnsInv
  <2> QED BY <1>6, <2>1, <2>2, <2>3 DEF TurnsInv
<1> QED BY <1>3, <1>7 DEF EditorInv

\* A create that stops half way, like one that is served, only adds rows with new ids.
LEMMA CutStep ==
  ASSUME EditorInv, NEW r \in wire, CreateCut(r)
  PROVE  /\ StaysSound(rows', minted') /\ minted \subseteq minted'
         /\ DOMAIN rows \subseteq DOMAIN rows' /\ DOMAIN rows' \cap minted \subseteq DOMAIN rows
<1> DEFINE t == saves[r.by].wanted
<1>1. r.do = "create" /\ Serves(r)
  BY DEF CreateCut
<1>2. /\ t[r.id].parent \in DOMAIN rows \cup {Root}
      /\ Cardinality(FreeServer) >= Cardinality(Below(t, r.id))
  BY <1>1 DEF Serves, Payload
<1>3. PICK gone \in SUBSET (Payload(r) \ {r.id}) :
        /\ \A k \in gone : Under(t, k) \subseteq gone
        /\ Inserted(Without(t, gone), r.id)
  BY DEF CreateCut
<1>4. TreesInv /\ Sound(t, rows, minted) /\ r.id \in DOMAIN t
  BY <1>1, SenderIsKnown DEF EditorInv
<1>5. r.id \notin gone
  OBVIOUS
<1> DEFINE u == Without(t, gone)
<1> HIDE DEF t
<1>6. /\ Sound(u, rows, minted) /\ r.id \in DOMAIN u /\ u[r.id] = t[r.id]
      /\ Cardinality(FreeServer) >= Cardinality(Below(u, r.id))
  BY <1>2, <1>3, <1>4, <1>5, PartOfSubtree
<1>7. Inserted(u, r.id)
  BY <1>3 DEF t
<1> HIDE DEF u
<1> QED BY <1>2, <1>4, <1>6, <1>7, InsertedStep

LEMMA AnswerStep ==
  ASSUME EditorInv, NEW r \in wire, Answer(r) PROVE EditorInv'
<1>1. CASE Serve(r)
  BY <1>1, ServeStep
<1>2. CASE ServeUnheard(r)
  <2>1. /\ wire' = wire \ {r} /\ Reject(r.by)
        /\ UNCHANGED <<draft, saved, cache, toggle>>
    BY <1>2 DEF ServeUnheard
  <2>2. StaysSound(rows', minted')
    BY <1>2, ApplyStep DEF ServeUnheard
  <2> QED BY <2>1, <2>2, SenderIsKnown, RejectStep
<1>3. CASE RequestFails(r)
  <2>1. /\ wire' = wire \ {r} /\ Reject(r.by)
        /\ rows' = rows /\ minted' = minted /\ UNCHANGED <<draft, saved, cache, toggle>>
    BY <1>3 DEF RequestFails, server
  <2>2. StaysSound(rows', minted')
    BY <2>1, NoMove DEF EditorInv
  <2> QED BY <2>1, <2>2, SenderIsKnown, RejectStep
<1>4. CASE CreateCut(r)
  <2>1. /\ wire' = wire \ {r} /\ Reject(r.by)
        /\ UNCHANGED <<draft, saved, cache, toggle>>
    BY <1>4 DEF CreateCut
  <2>2. StaysSound(rows', minted')
    BY <1>4, CutStep
  <2> QED BY <2>1, <2>2, SenderIsKnown, RejectStep
<1> QED BY <1>1, <1>2, <1>3, <1>4 DEF Answer

\* Nothing of the trees moves.
LEMMA StartStep ==
  ASSUME EditorInv, StartSave PROVE EditorInv'
<1> DEFINE a == NextSave
           new == [phase |-> "delete", old |-> saved.tree, asked |-> draft.tree,
                   wanted |-> Furnished(saved.tree, draft.tree), life |-> draft.life]
<1>1. a \in Attempts /\ saves[a] = NoSave /\ cur = 0 /\ cur' = a /\ a # 0
  BY NextSaveIsUnused, EditorAssumption DEF StartSave, CanSave, Attempts
<1>2. /\ saves' = [saves EXCEPT ![a] = new]
      /\ wire' = wire \cup Requests(a, "delete", saved.tree, draft.tree)
      /\ rows' = rows /\ minted' = minted /\ cache' = cache /\ draft' = draft /\ saved' = saved
      /\ toggle' = toggle /\ broken' = broken
  BY DEF StartSave, server, ghosts
<1> HIDE DEF a
<1>3. DOMAIN saves = Attempts
  BY DEF EditorInv, TreesInv, SavesOK
<1>4. saves'[a] = new /\ \A b \in Attempts \ {a} : saves'[b] = saves[b]
  BY <1>1, <1>2, <1>3
<1>11. /\ Sound(saves'[a].wanted, rows, minted)
       /\ DOMAIN saves'[a].asked \subseteq DOMAIN saves'[a].wanted
  <2> DEFINE o == saved.tree
             q == draft.tree
             n == Furnished(o, q)
  <2>1. /\ Sound(q, rows, minted) /\ IsTree(q) /\ DOMAIN q \subseteq Given
        /\ DOMAIN o \subseteq Given /\ DOMAIN rows \subseteq ServerIds
    BY DEF EditorInv, TreesInv, ShowsOK, Sound, Stores
  <2> HIDE DEF o, q
  <2>2. /\ IsTree(n) /\ DOMAIN q \subseteq DOMAIN n /\ DOMAIN n \cap Given = DOMAIN q
        /\ \A i \in DOMAIN q : n[i].parent = q[i].parent
    BY <2>1, FurnishedIsTree
  <2> HIDE DEF n
  <2>3. Sound(n, rows, minted)
    BY <2>1, <2>2 DEF Sound, Given
  <2>4. saves'[a].wanted = n /\ saves'[a].asked = q
    BY <1>4 DEF n, o, q
  <2> QED BY <2>2, <2>3, <2>4
<1>5. /\ saves'[a].phase = "delete" /\ saves'[a].asked = draft.tree
      /\ saves'[a] = [phase |-> saves'[a].phase, old |-> saves'[a].old,
                      asked |-> saves'[a].asked, wanted |-> saves'[a].wanted, life |-> saves'[a].life]
  BY <1>4
<1>6. SavesOK'
  <2>1. \A b \in Attempts : /\ saves'[b].phase \in {"none", "done", "failed"} \cup Running
                            /\ saves'[b].phase # "none" => Sound(saves'[b].wanted, rows, minted)
                            /\ DOMAIN saves'[b].asked \subseteq DOMAIN saves'[b].wanted
    BY <1>4, <1>5, <1>11 DEF EditorInv, TreesInv, SavesOK, Running, TreeBatches
  <2>2. \A b \in Attempts : saves'[b] = [phase |-> saves'[b].phase, old |-> saves'[b].old,
                                        asked |-> saves'[b].asked, wanted |-> saves'[b].wanted, life |-> saves'[b].life]
    <3>1. \A b \in Attempts : saves[b] = [phase |-> saves[b].phase, old |-> saves[b].old,
                                          asked |-> saves[b].asked, wanted |-> saves[b].wanted, life |-> saves[b].life]
      BY DEF EditorInv, TreesInv, SavesOK
    <3> QED BY <1>4, <1>5, <3>1
  <2>3. saves' = [b \in Attempts |-> saves'[b]]
    BY <1>2, <1>3
  <2>4. saves' = [b \in Attempts |-> [phase |-> saves'[b].phase, old |-> saves'[b].old,
                                      asked |-> saves'[b].asked, wanted |-> saves'[b].wanted, life |-> saves'[b].life]]
    BY <2>2, <2>3
  <2> QED BY <1>2, <2>1, <2>4 DEF SavesOK
<1>7. TreesInv'
  BY <1>2, <1>6 DEF EditorInv, TreesInv, ShowsOK, ToggleOK
<1>8. \A r \in wire' : Sent(r)'
  <2>1. ASSUME NEW r \in wire PROVE Sent(r)'
    <3>1. Sent(r) /\ r.by # a
      BY <1>1 DEF EditorInv, TurnsInv, Sent, NoSave, TreeBatches
    <3> QED BY <3>1, <1>2, <1>4 DEF Sent
  <2>2. ASSUME NEW r \in Requests(a, "delete", saved.tree, draft.tree) PROVE Sent(r)'
    <3>1. r.by = a /\ r.do = "delete"
      BY DEF Requests
    <3> QED BY <3>1, <1>1, <1>5 DEF Sent, TreeBatches
  <2> QED BY <1>2, <2>1, <2>2
<1>9. \A b \in Attempts : Busy(b)' <=> Busy(b) \/ b = a
  BY <1>1, <1>4, <1>5 DEF Busy, Running, TreeBatches
<1>10. TurnsInv'
  <2>1. cur' \in Attempts /\ Busy(cur)'
    BY <1>1, <1>5 DEF Busy, Running, TreeBatches
  <2>2. \A b \in Attempts : Busy(b)' /\ b # cur' => "orphan" \in broken'
    BY <1>1, <1>2, <1>9, EditorAssumption DEF EditorInv, TurnsInv, Attempts
  <2>3. broken' \subseteq {"failed", "orphan", "leaked"} /\ cur' # 0
    BY <1>1, <1>2 DEF EditorInv, TurnsInv
  <2> QED BY <1>8, <2>1, <2>2, <2>3 DEF TurnsInv
<1> QED BY <1>7, <1>10 DEF EditorInv

LEMMA AfterValues ==
  After("delete") = "update" /\ After("update") = "create" /\ After("create") = "scalars"
<1>1. /\ Batches[1] = "delete" /\ Batches[2] = "update" /\ Batches[3] = "create"
      /\ Batches[4] = "scalars"
  BY DEF Batches
<1>2. (CHOOSE n \in 1..4 : Batches[n] = "delete") = 1
  BY <1>1
<1>3. (CHOOSE n \in 1..4 : Batches[n] = "update") = 2
  BY <1>1
<1>4. (CHOOSE n \in 1..4 : Batches[n] = "create") = 3
  BY <1>1
<1> QED BY <1>1, <1>2, <1>3, <1>4 DEF After

LEMMA PhaseKeepsTrees ==
  ASSUME TreesInv, NEW a \in Attempts, NEW p, p \in {"done", "failed"} \cup Running,
         saves' = [saves EXCEPT ![a].phase = p], saves[a].phase # "none",
         UNCHANGED <<rows, minted, draft, saved, cache, toggle>>
  PROVE  TreesInv'
<1>1. /\ rows' = rows /\ minted' = minted /\ draft' = draft /\ saved' = saved /\ cache' = cache
      /\ toggle' = toggle
  OBVIOUS
<1>2. SavesOK'
  BY <1>1, PhaseKeepsSaves DEF TreesInv
<1> QED BY <1>1, <1>2 DEF TreesInv, ShowsOK, ToggleOK

LEMMA NextBatchStep ==
  ASSUME EditorInv, NEW a \in Attempts, NextBatch(a) PROVE EditorInv'
<1> DEFINE p == After(saves[a].phase)
<1>1. /\ saves[a].phase \in TreeBatches /\ \A r \in wire : r.by # a
      /\ saves' = [saves EXCEPT ![a].phase = p]
      /\ wire' = IF p \in TreeBatches
                   THEN wire \cup Requests(a, p, saves[a].old, saves[a].asked) ELSE wire
      /\ rows' = rows /\ minted' = minted /\ cache' = cache /\ draft' = draft /\ saved' = saved
      /\ toggle' = toggle /\ broken' = broken /\ cur' = cur
  BY DEF NextBatch, server, ghosts
<1>2. p \in {"update", "create", "scalars"}
  BY <1>1, AfterValues DEF TreeBatches
<1> HIDE DEF p
<1>3. p \in {"done", "failed"} \cup Running /\ saves[a].phase # "none"
  BY <1>1, <1>2 DEF Running, TreeBatches
<1>4. TreesInv'
  BY <1>1, <1>3, PhaseKeepsTrees DEF EditorInv
<1>5. \A b \in Attempts : /\ saves'[b].phase = IF b = a THEN p ELSE saves[b].phase
                          /\ saves'[b].asked = saves[b].asked /\ saves'[b].wanted = saves[b].wanted
  BY <1>1, PhaseStep DEF EditorInv, TreesInv
<1>6. \A r \in wire' : Sent(r)'
  <2>1. ASSUME NEW r \in wire PROVE Sent(r)'
    <3>1. Sent(r) /\ r.by # a
      BY <1>1 DEF EditorInv, TurnsInv
    <3> QED BY <3>1, <1>1, <1>5 DEF Sent
  <2>2. ASSUME p \in TreeBatches, NEW r \in Requests(a, p, saves[a].old, saves[a].asked)
        PROVE  Sent(r)'
    <3>1. r.by = a /\ r.do = p /\ r.id \in TreeOps(saves[a].old, saves[a].asked, p)
      BY DEF Requests
    <3>2. p \in {"update", "create"}
      BY <1>2, <2>2 DEF TreeBatches
    <3>3. r.id \in DOMAIN saves[a].asked
      BY <3>1, <3>2 DEF TreeOps, Updates, Creates
    <3> QED BY <3>1, <3>3, <1>5, <2>2 DEF Sent
  <2> QED BY <1>1, <2>1, <2>2
<1>7. \A b \in Attempts : Busy(b)' <=> Busy(b)
  BY <1>1, <1>2, <1>5 DEF Busy, Running, TreeBatches
<1>8. TurnsInv'
  BY <1>1, <1>6, <1>7 DEF EditorInv, TurnsInv, Busy
<1> QED BY <1>4, <1>8 DEF EditorInv

LEMMA ScalarsStep ==
  ASSUME EditorInv, NEW a \in Attempts, PatchScalars(a) PROVE EditorInv'
<1>1. /\ saves[a].phase = "scalars" /\ saves' = [saves EXCEPT ![a].phase = "reload"]
      /\ rows' = rows /\ minted' = minted /\ cache' = cache /\ draft' = draft /\ saved' = saved
      /\ toggle' = toggle /\ broken' = broken /\ cur' = cur /\ wire' = wire
  BY DEF PatchScalars, ghosts
<1>2. TreesInv'
  BY <1>1, PhaseKeepsTrees DEF EditorInv, Running
<1>3. \A b \in Attempts : /\ saves'[b].phase = IF b = a THEN "reload" ELSE saves[b].phase
                          /\ saves'[b].asked = saves[b].asked /\ saves'[b].wanted = saves[b].wanted
  BY <1>1, PhaseStep DEF EditorInv, TreesInv
<1>4. \A b \in Attempts : Busy(b)' <=> Busy(b)
  BY <1>1, <1>3 DEF Busy, Running, TreeBatches
<1>5. \A r \in wire' : Sent(r)'
  <2> SUFFICES ASSUME NEW r \in wire PROVE Sent(r)'
    BY <1>1
  <2>1. Sent(r) /\ r.by # a
    BY <1>1 DEF EditorInv, TurnsInv, Sent, TreeBatches
  <2> QED BY <2>1, <1>1, <1>3 DEF Sent
<1>6. TurnsInv'
  BY <1>1, <1>4, <1>5 DEF EditorInv, TurnsInv, Busy
<1> QED BY <1>2, <1>6 DEF EditorInv

LEMMA LateStep ==
  ASSUME EditorInv, NEW a \in Attempts, LateStepFails(a) PROVE EditorInv'
<1>1. /\ Reject(a) /\ saves[a].phase # "none" /\ wire' = wire
      /\ rows' = rows /\ minted' = minted /\ UNCHANGED <<draft, saved, cache, toggle>>
  BY DEF LateStepFails, server
<1>2. StaysSound(rows', minted')
  BY <1>1, NoMove DEF EditorInv
<1> QED BY <1>1, <1>2, RejectStep

-----------------------------------------------------------------------------
(* The open estimate is replaced.                                           *)

LEMMA OpenFacts ==
  ASSUME NEW STATE c, NEW STATE ed, SetOpenEstimate(c, ed)
  PROVE  /\ cache' = c
         /\ Remounts(c) => /\ draft' = c /\ saved' = c /\ cur' = 0
                           /\ toggle' = [ed.toggle EXCEPT !.own = FALSE]
         /\ ~Remounts(c) => /\ draft' = ed.draft /\ saved' = ed.saved /\ cur' = ed.cur
                            /\ toggle' = ed.toggle
  BY DEF SetOpenEstimate, Shows, Mounted

LEMMA LetGo ==
  ASSUME NEW STATE g, ToggleOK(g)
  PROVE  ToggleOK([g EXCEPT !.own = FALSE])
<1> DEFINE h == [g EXCEPT !.own = FALSE]
<1>1. h = [to |-> g.to, seen |-> g.seen, own |-> FALSE]
  <2>1. PICK x, y, z : g = [to |-> x, seen |-> y, own |-> z]
    BY DEF ToggleOK
  <2>2. g.to = x /\ g.seen = y
    BY <2>1
  <2>3. [g EXCEPT !.own = FALSE] = [to |-> x, seen |-> y, own |-> FALSE]
    <3> DEFINE no == FALSE
    <3>1. [[to |-> x, seen |-> y, own |-> z] EXCEPT !.own = no] = [to |-> x, seen |-> y, own |-> no]
      <4> HIDE DEF no
      <4> QED OBVIOUS
    <3> QED BY <2>1, <3>1
  <2> QED BY <2>2, <2>3
<1> HIDE DEF h
<1>2. g = NoToggle => h = NoToggle
  BY <1>1 DEF NoToggle
<1>3. ToggleOK(h)
  BY <1>1, <1>2 DEF ToggleOK
<1> QED BY <1>3 DEF h

LEMMA NoToggleOK == ToggleOK(NoToggle)
  BY DEF ToggleOK, NoToggle

LEMMA OpenKeepsTrees ==
  ASSUME TreesInv, NEW STATE c, NEW STATE ed, SetOpenEstimate(c, ed),
         ShowsOK(c), ShowsOK(ed.draft), ShowsOK(ed.saved), ToggleOK(ed.toggle),
         rows' = rows, minted' = minted, SavesOK'
  PROVE  TreesInv'
<1>1. ShowsOK(draft)' /\ ShowsOK(saved)' /\ ShowsOK(cache)'
  BY OpenFacts DEF ShowsOK
<1>2. ToggleOK(toggle)'
  <2>1. toggle' = ed.toggle \/ toggle' = [ed.toggle EXCEPT !.own = FALSE]
    BY OpenFacts
  <2>2. ToggleOK([ed.toggle EXCEPT !.own = FALSE])
    BY LetGo
  <2> QED BY <2>1, <2>2 DEF ToggleOK
<1> QED BY <1>1, <1>2 DEF TreesInv

LEMMA SavesStay ==
  ASSUME SavesOK, saves' = saves, rows' = rows, minted' = minted PROVE SavesOK'
  BY DEF SavesOK

LEMMA FreshIsSound ==
  TreesInv => ShowsOK(Fresh) /\ Fresh.tree = rows
<1>1. Fresh = [tree |-> rows, life |-> life] /\ Fresh.tree = rows /\ Fresh.life = life
  BY DEF Fresh
<1> QED BY <1>1, SoundOfItself DEF TreesInv, ShowsOK, Sheet, Stores, Given

LEMMA EditorFacts ==
  /\ Editor.draft = draft /\ Editor.saved = saved /\ Editor.cur = cur /\ Editor.toggle = toggle
  /\ TreesInv => ShowsOK(Editor.draft) /\ ShowsOK(Editor.saved) /\ ToggleOK(Editor.toggle)
  BY DEF Editor, TreesInv

\* The requests and the saves go on; the editor keeps waiting or is dropped.
LEMMA TurnsGoOn ==
  ASSUME TurnsInv, saves' = saves, wire' = wire,
         broken \subseteq broken', broken' \subseteq {"failed", "orphan", "leaked"},
         cur' = cur \/ (cur' = 0 /\ (cur # 0 => "orphan" \in broken')),
         broken' = {} /\ cur' = 0 => saved'.tree = rows' /\ cache'.tree = rows'
  PROVE  TurnsInv'
<1>1. \A r \in wire' : Sent(r)'
  BY DEF TurnsInv, Sent
<1>2. \A a \in Attempts : Busy(a)' /\ a # cur' => "orphan" \in broken'
  <2>1. \A a \in Attempts : a # 0
    BY EditorAssumption DEF Attempts
  <2> QED BY <2>1 DEF TurnsInv, Busy
<1>3. cur' = 0 \/ (cur' \in Attempts /\ Busy(cur)')
  BY DEF TurnsInv, Busy
<1> QED BY <1>1, <1>2, <1>3 DEF TurnsInv

LEMMA OrphaningFacts == Orphaning \subseteq {"orphan"} /\ (cur # 0 => "orphan" \in Orphaning)
  BY DEF Orphaning

LEMMA RefetchStep ==
  ASSUME EditorInv, Refetch PROVE EditorInv'
<1>1. /\ SetOpenEstimate(Fresh, Editor)
      /\ broken' = broken \cup (IF Remounts(Fresh) THEN Orphaning ELSE {})
      /\ rows' = rows /\ minted' = minted /\ saves' = saves /\ wire' = wire
  BY DEF Refetch, server
<1>2. TreesInv'
  BY <1>1, OpenKeepsTrees, SavesStay, FreshIsSound, EditorFacts DEF EditorInv, TreesInv
<1>3. /\ cache' = Fresh
      /\ Remounts(Fresh) => saved' = Fresh /\ cur' = 0
      /\ ~Remounts(Fresh) => saved' = saved /\ cur' = cur
  BY <1>1, OpenFacts, EditorFacts
<1>4. broken' = {} /\ cur' = 0 => saved'.tree = rows' /\ cache'.tree = rows'
  BY <1>1, <1>3, FreshIsSound DEF EditorInv, TurnsInv
<1>5. TurnsInv'
  BY <1>1, <1>3, <1>4, OrphaningFacts, TurnsGoOn DEF EditorInv, TurnsInv
<1> QED BY <1>2, <1>5 DEF EditorInv

LEMMA MarkLostStep ==
  ASSUME EditorInv, MarkLost PROVE EditorInv'
<1> DEFINE ed == [Editor EXCEPT !.draft = Fresh, !.saved = Fresh]
<1>1. /\ SetOpenEstimate(Fresh, ed)
      /\ broken' = broken \cup (IF Remounts(Fresh) THEN Orphaning ELSE {})
      /\ rows' = rows /\ minted' = minted /\ saves' = saves /\ wire' = wire
  BY DEF MarkLost, server
<1>2. ed.draft = Fresh /\ ed.saved = Fresh /\ ed.cur = cur /\ ed.toggle = toggle
  BY DEF Editor
<1> HIDE DEF ed
<1>3. TreesInv'
  <2>1. ShowsOK(ed.draft) /\ ShowsOK(ed.saved) /\ ToggleOK(ed.toggle) /\ ShowsOK(Fresh) /\ SavesOK'
    BY <1>1, <1>2, SavesStay, FreshIsSound DEF EditorInv, TreesInv
  <2> QED BY <1>1, <2>1, OpenKeepsTrees DEF EditorInv
<1>4. /\ cache' = Fresh /\ saved' = Fresh
      /\ Remounts(Fresh) => cur' = 0
      /\ ~Remounts(Fresh) => cur' = cur
  BY <1>1, <1>2, OpenFacts
<1>5. saved'.tree = rows' /\ cache'.tree = rows'
  BY <1>1, <1>4, FreshIsSound DEF EditorInv
<1>6. TurnsInv'
  BY <1>1, <1>4, <1>5, OrphaningFacts, TurnsGoOn DEF EditorInv, TurnsInv
<1> QED BY <1>3, <1>6 DEF EditorInv

LEMMA SwitchStep ==
  ASSUME EditorInv, SwitchTab PROVE EditorInv'
<1>1. /\ draft' = cache /\ saved' = cache /\ cur' = 0 /\ toggle' = [toggle EXCEPT !.own = FALSE]
      /\ broken' = broken \cup Orphaning
      /\ rows' = rows /\ minted' = minted /\ cache' = cache /\ saves' = saves /\ wire' = wire
  BY DEF SwitchTab, Shows, Mounted, server
<1>2. TreesInv'
  <2>1. ToggleOK([toggle EXCEPT !.own = FALSE]) /\ SavesOK'
    BY <1>1, LetGo, SavesStay DEF EditorInv, TreesInv
  <2>2. ToggleOK(toggle)'
    BY <1>1, <2>1 DEF ToggleOK
  <2> QED BY <1>1, <2>1, <2>2 DEF EditorInv, TreesInv, ShowsOK
<1>3. broken' = {} /\ cur' = 0 => saved'.tree = rows' /\ cache'.tree = rows'
  BY <1>1, OrphaningFacts DEF EditorInv, TurnsInv
<1>4. TurnsInv'
  BY <1>1, <1>3, OrphaningFacts, TurnsGoOn DEF EditorInv, TurnsInv
<1> QED BY <1>2, <1>4 DEF EditorInv

LEMMA ToggleSteps ==
  ASSUME EditorInv,
         (\E to \in {"bidding", "won"} : ClickToggle(to)) \/ ToggleAnswered \/ ToggleFails
  PROVE  EditorInv'
<1>1. ASSUME toggle' = NoToggle \/ \E to : toggle' = [to |-> to, seen |-> draft.tree, own |-> TRUE],
             UNCHANGED <<rows, minted, cache, draft, saved, cur, saves, wire, broken>>
      PROVE  EditorInv'
  <2>1. /\ rows' = rows /\ minted' = minted /\ cache' = cache /\ draft' = draft /\ saved' = saved
        /\ cur' = cur /\ saves' = saves /\ wire' = wire /\ broken' = broken
    BY <1>1
  <2>2. ToggleOK(toggle)'
    BY <1>1, <2>1, NoToggleOK DEF ToggleOK, EditorInv, TreesInv, ShowsOK
  <2>3. TreesInv'
    BY <2>1, <2>2, SavesStay DEF EditorInv, TreesInv, ShowsOK
  <2>4. TurnsInv'
    BY <2>1, TurnsGoOn DEF EditorInv, TurnsInv
  <2> QED BY <2>3, <2>4 DEF EditorInv
<1>2. CASE \E to \in {"bidding", "won"} : ClickToggle(to)
  BY <1>1, <1>2 DEF ClickToggle, server, ghosts
<1>3. CASE ToggleFails
  BY <1>1, <1>3 DEF ToggleFails, server, ghosts
<1>4. CASE ToggleAnswered
  <2> DEFINE next == [tree |-> toggle.seen, life |-> toggle.to]
             ed == IF toggle.own
                     THEN [Editor EXCEPT !.draft = next, !.saved.life = toggle.to,
                                         !.toggle = NoToggle]
                     ELSE [Editor EXCEPT !.toggle = NoToggle]
  <2>1. /\ toggle # NoToggle /\ SetOpenEstimate(next, ed)
        /\ broken' = broken \cup (IF next.tree # rows THEN {"leaked"} ELSE {})
                            \cup (IF Remounts(next) THEN Orphaning ELSE {})
        /\ rows' = rows /\ minted' = minted /\ saves' = saves /\ wire' = wire
    BY <1>4 DEF ToggleAnswered
  <2>2. ShowsOK(next) /\ next.tree = toggle.seen
    BY <2>1 DEF EditorInv, TreesInv, ToggleOK, ShowsOK, Sheet
  <2>3. /\ ed.draft = next \/ ed.draft = draft
        /\ ed.saved = [saved EXCEPT !.life = toggle.to] \/ ed.saved = saved
        /\ ed.cur = cur /\ ed.toggle = NoToggle
    <3> HIDE DEF next
    <3>1. CASE toggle.own
      BY <3>1 DEF Editor
    <3>2. CASE ~toggle.own
      BY <3>2 DEF Editor
    <3> QED BY <3>1, <3>2
  <2> HIDE DEF next, ed
  <2>4. ShowsOK(ed.saved) /\ ed.saved.tree = saved.tree
    <3>1. saved = [tree |-> saved.tree, life |-> saved.life] /\ ShowsOK(saved)
      BY DEF EditorInv, TreesInv, ShowsOK, Sheet
    <3>2. PICK x, y : saved = [tree |-> x, life |-> y] /\ x = saved.tree
      BY <3>1
    <3>3. [saved EXCEPT !.life = toggle.to] = [tree |-> x, life |-> toggle.to]
      BY <3>2
    <3> QED BY <2>3, <3>1, <3>2, <3>3 DEF ShowsOK, Sheet
  <2>5. TreesInv'
    <3>1. ShowsOK(ed.draft) /\ ToggleOK(ed.toggle) /\ SavesOK'
      BY <2>1, <2>2, <2>3, NoToggleOK, SavesStay DEF EditorInv, TreesInv
    <3> QED BY <2>1, <2>2, <2>4, <3>1, OpenKeepsTrees DEF EditorInv
  <2>6. /\ cache' = next
        /\ Remounts(next) => saved' = next /\ cur' = 0
        /\ ~Remounts(next) => saved'.tree = saved.tree /\ cur' = cur
    BY <2>1, <2>3, <2>4, OpenFacts
  <2>7. broken' = {} => next.tree = rows /\ broken = {}
    BY <2>1
  <2>8. broken' = {} /\ cur' = 0 => saved'.tree = rows' /\ cache'.tree = rows'
    BY <2>1, <2>6, <2>7 DEF EditorInv, TurnsInv
  <2>9. TurnsInv'
    BY <2>1, <2>6, <2>8, OrphaningFacts, TurnsGoOn DEF EditorInv, TurnsInv
  <2> QED BY <2>5, <2>9 DEF EditorInv
<1> QED BY <1>2, <1>3, <1>4

\* The estimate read back: with everything else at rest the past is forgotten.
LEMMA ReloadStep ==
  ASSUME EditorInv, NEW a \in Attempts, Reload(a) PROVE EditorInv'
<1> DEFINE own == cur = a
           quiet == wire = {} /\ \A b \in Attempts \ {a} : saves[b].phase \notin Running
           ed == IF own THEN [Editor EXCEPT !.draft = Fresh, !.saved = Fresh, !.cur = 0] ELSE Editor
<1>1. /\ saves[a].phase = "reload" /\ saves' = [saves EXCEPT ![a].phase = "done"]
      /\ SetOpenEstimate(Fresh, ed)
      /\ rows' = rows /\ minted' = minted /\ wire' = wire
  BY DEF Reload, server
<1>2. /\ own /\ quiet => broken' = {}
      /\ own /\ ~quiet => broken' = broken
      /\ ~own => broken' = broken \cup (IF Remounts(Fresh) THEN Orphaning ELSE {})
  BY DEF Reload
<1>3. /\ own => ed.draft = Fresh /\ ed.saved = Fresh /\ ed.cur = 0 /\ ed.toggle = toggle
      /\ ~own => ed.draft = draft /\ ed.saved = saved /\ ed.cur = cur /\ ed.toggle = toggle
  BY DEF Editor
<1> HIDE DEF ed
<1>4. TreesInv'
  <2>1. SavesOK'
    BY <1>1, PhaseKeepsSaves DEF EditorInv, TreesInv, Running
  <2>2. ShowsOK(Fresh) /\ ShowsOK(ed.draft) /\ ShowsOK(ed.saved) /\ ToggleOK(ed.toggle)
    BY <1>3, FreshIsSound DEF EditorInv, TreesInv
  <2> QED BY <1>1, <2>1, <2>2, OpenKeepsTrees DEF EditorInv
<1>5. /\ cache' = Fresh
      /\ Remounts(Fresh) => saved' = Fresh /\ cur' = 0
      /\ ~Remounts(Fresh) => saved' = ed.saved /\ cur' = ed.cur
  BY <1>1, OpenFacts
<1>6. \A b \in Attempts : /\ saves'[b].phase = IF b = a THEN "done" ELSE saves[b].phase
                          /\ saves'[b].asked = saves[b].asked /\ saves'[b].wanted = saves[b].wanted
  BY <1>1, PhaseStep DEF EditorInv, TreesInv
<1>7. \A b \in Attempts : Busy(b)' <=> Busy(b) /\ b # a
  BY <1>1, <1>6 DEF Busy, Running, TreeBatches
<1>8. Busy(a) /\ a # 0 /\ (~own => "orphan" \in broken)
  BY <1>1, EditorAssumption DEF Busy, Running, Attempts, EditorInv, TurnsInv
<1>9. \A r \in wire : Sent(r) /\ r.by # a
  BY <1>1 DEF EditorInv, TurnsInv, Sent, TreeBatches
<1>10. CASE own
  <2>1. saved' = Fresh /\ cur' = 0
    BY <1>3, <1>5, <1>10
  <2>2. \A r \in wire' : Sent(r)'
    <3>1. CASE quiet
      BY <1>1, <3>1
    <3>2. CASE ~quiet
      BY <1>1, <1>2, <1>6, <1>9, <1>10, <3>2 DEF Sent
    <3> QED BY <3>1, <3>2
  <2>3. \A b \in Attempts : Busy(b)' /\ b # cur' => "orphan" \in broken'
    <3>1. CASE quiet
      BY <1>7, <3>1 DEF Busy
    <3>2. CASE ~quiet
      BY <1>2, <1>7, <1>10, <3>2 DEF EditorInv, TurnsInv
    <3> QED BY <3>1, <3>2
  <2>4. broken' \subseteq {"failed", "orphan", "leaked"}
    BY <1>2, <1>10 DEF EditorInv, TurnsInv
  <2>5. saved'.tree = rows' /\ cache'.tree = rows'
    BY <1>1, <1>5, <2>1, FreshIsSound DEF EditorInv
  <2> QED BY <1>4, <2>1, <2>2, <2>3, <2>4, <2>5 DEF EditorInv, TurnsInv
<1>11. CASE ~own
  <2>1. "orphan" \in broken' /\ broken \subseteq broken' /\ broken' \subseteq {"failed", "orphan", "leaked"}
    BY <1>2, <1>8, <1>11, OrphaningFacts DEF EditorInv, TurnsInv
  <2>2. \A r \in wire' : Sent(r)'
    BY <1>1, <1>6, <1>9, <2>1 DEF Sent
  <2>3. cur' = 0 \/ (cur' \in Attempts /\ Busy(cur)')
    BY <1>3, <1>5, <1>7, <1>11 DEF EditorInv, TurnsInv, Busy
  <2> QED BY <1>4, <2>1, <2>2, <2>3 DEF EditorInv, TurnsInv
<1> QED BY <1>10, <1>11

LEMMA RefusedStep ==
  ASSUME EditorInv, SaveRefused \/ UNCHANGED editorVars PROVE EditorInv'
<1>1. /\ rows' = rows /\ minted' = minted /\ cache' = cache /\ draft' = draft /\ saved' = saved
      /\ cur' = cur /\ saves' = saves /\ wire' = wire /\ toggle' = toggle /\ broken' = broken
  BY DEF SaveRefused, editorVars, server, ghosts
<1>2. Sheet(draft') /\ Sound(draft'.tree, rows, minted) /\ DOMAIN draft'.tree \subseteq Given
  BY <1>1 DEF EditorInv, TreesInv, ShowsOK
<1> QED BY <1>1, <1>2, DraftStep

-----------------------------------------------------------------------------
LEMMA EditorInvStep ==
  ASSUME EditorInv, [EditorNext]_editorVars PROVE EditorInv'
<1>1. ASSUME NEW a \in Attempts, Advance(a) PROVE EditorInv'
  BY <1>1, NextBatchStep, ScalarsStep, LateStep, ReloadStep DEF Advance
<1> QED BY <1>1, EditingStep, RefusedStep, StartStep, AnswerStep, ToggleSteps, RefetchStep,
        SwitchStep, MarkLostStep DEF EditorNext

\* For any trees, any number of saves and edits, and whatever is lost, refused, cut
\* short or overtaken on the way: an editor that waits for nothing, and that nothing
\* has happened to since its last quiet save, holds as its baseline exactly the rows.
THEOREM BaselineHolds == EditorSpec => []BaselineIsServer
  BY EditorInvStep, InitInv, InvImpliesBaseline, PTL DEF EditorSpec

-----------------------------------------------------------------------------
(* What a save has done at each of its batches: n is the tree it is to store, the draft with *)
(* what the server adds.                                                                      *)

Kept(o, n) == DOMAIN o \cap DOMAIN n
New(o, n) == DOMAIN n \ DOMAIN o

\* The baseline o of a save and n are trees that share the places of what is kept.
Agree(o, n) ==
  IsTree(o) /\ IsTree(n) /\ \A k \in Kept(o, n) : o[k].parent = n[k].parent

\* The draft q asks for what makes n of o.
Alike(o, q, n) ==
  /\ Deletes(o, q) = Deletes(o, n) /\ Creates(o, q) = Creates(o, n)
  /\ Updates(o, n) \subseteq Updates(o, q)

LEMMA FurnishedIsAlike ==
  ASSUME NEW o, IsTree(o), DOMAIN o \subseteq Given, NEW q, IsTree(q), DOMAIN q \subseteq Given,
         \A k \in Kept(o, q) : o[k].parent = q[k].parent
  PROVE  Agree(o, Furnished(o, q)) /\ Alike(o, q, Furnished(o, q))
<1> DEFINE n == Furnished(o, q)
<1>1. /\ IsTree(n) /\ DOMAIN q \subseteq DOMAIN n /\ DOMAIN n \cap Given = DOMAIN q
      /\ \A i \in DOMAIN q : n[i].parent = q[i].parent
      /\ \A i \in DOMAIN q \cap DOMAIN o : n[i].val # q[i].val => o[i].val # q[i].val
      /\ \A i \in DOMAIN n \ DOMAIN q : n[i].parent \in Ids \ DOMAIN o
  BY FurnishedIsTree
<1> HIDE DEF n
<1>2. DOMAIN o \cap DOMAIN n = DOMAIN o \cap DOMAIN q
  BY <1>1
<1>3. Agree(o, n)
  BY <1>1, <1>2 DEF Agree, Kept
<1>4. Deletes(o, q) = Deletes(o, n)
  <2>1. \A i \in DOMAIN o : o[i].parent \in DOMAIN o \cup {Root}
    BY Levels
  <2> QED BY <1>2, <2>1 DEF Deletes
<1>5. Creates(o, q) = Creates(o, n)
  <2>1. Root \notin Ids
    BY EditorAssumption
  <2>2. \A i : i \in Creates(o, q) <=> i \in Creates(o, n)
    BY <1>1, <2>1 DEF Creates
  <2> QED BY <2>2
<1>6. Updates(o, n) \subseteq Updates(o, q)
  BY <1>1, <1>2 DEF Updates
<1> QED BY <1>3, <1>4, <1>5, <1>6 DEF Alike, n

\* Of the rows r, what the draft keeps is as the baseline has it, and what is still to be
\* deleted is among the requests w.
Deleting(o, n, r, w) ==
  /\ DOMAIN r \subseteq DOMAIN o /\ \A k \in DOMAIN r : r[k] = o[k]
  /\ Kept(o, n) \subseteq DOMAIN r
  /\ DOMAIN r \cap Deletes(o, n) \subseteq w

\* Nothing but what is kept is left, in its place, with its new value unless that is under way.
Updating(o, n, r, w) ==
  /\ DOMAIN r = Kept(o, n)
  /\ \A k \in DOMAIN r : r[k].parent = n[k].parent /\ (r[k].val = n[k].val \/ k \in w)

\* The rows are those nodes of the draft that f renames: what is kept under its own id, and of
\* what is new all below a node that was created.
Placed(f, o, n, r) ==
  /\ f = [k \in DOMAIN f |-> f[k]] /\ Kept(o, n) \subseteq DOMAIN f /\ DOMAIN f \subseteq DOMAIN n
  /\ \A k \in Kept(o, n) : f[k] = k
  /\ \A x, y \in DOMAIN f : f[x] = f[y] => x = y
  /\ \A j : j \in DOMAIN r <=> \E k \in DOMAIN f : f[k] = j
  /\ \A k \in DOMAIN f :
       /\ r[f[k]].val = n[k].val
       /\ n[k].parent \in DOMAIN f \cup {Root}
       /\ r[f[k]].parent = IF n[k].parent = Root THEN Root ELSE f[n[k].parent]
  /\ \A k \in New(o, n) : n[k].parent \in New(o, n) /\ n[k].parent \in DOMAIN f => k \in DOMAIN f

Copying(o, n, r, w) ==
  \E f : Placed(f, o, n, r) /\ \A c \in Creates(o, n) : c \in DOMAIN f <=> c \notin w

Doing(p, o, n, r, w) ==
  /\ p = "delete" => Deleting(o, n, r, w)
  /\ p = "update" => Updating(o, n, r, w)
  /\ p \in {"create", "scalars", "reload"} => Copying(o, n, r, w)

\* A set of nodes of a tree that holds the parents of its members is empty: the climb ends.
LEMMA NoLoops ==
  ASSUME NEW t, IsTree(t), NEW S, S \subseteq DOMAIN t, \A k \in S : t[k].parent \in S
  PROVE  S = {}
<1>1. Root \notin S
  BY Levels
<1>2. \A k \in S : k \notin Sections(t)
  BY <1>1, Members
<1>3. \A k \in S : k \notin Lines(t)
  BY <1>2, Members
<1> QED BY <1>1, <1>2, <1>3, Levels

\* What holds the parents of its nodes does not begin below a node it lacks.
LEMMA BelowMisses ==
  ASSUME NEW t, IsTree(t), NEW i \in DOMAIN t, NEW X, i \notin X,
         \A k \in X \cap DOMAIN t : t[k].parent \in X \cup {Root}
  PROVE  Below(t, i) \cap X = {}
<1> DEFINE S == Below(t, i) \cap X
<1>1. S \subseteq DOMAIN t /\ Root \notin DOMAIN t
  BY BelowIsClosed, Levels
<1>2. \A k \in S : t[k].parent \in S
  BY <1>1, BelowIsClosed
<1> HIDE DEF S
<1>3. S = {}
  BY <1>1, <1>2, NoLoops
<1> QED BY <1>3 DEF S

LEMMA SaveBegins ==
  ASSUME NEW o, NEW n, Agree(o, n) PROVE Deleting(o, n, o, Deletes(o, n))
  BY DEF Deleting, Kept

LEMMA DeleteServed ==
  ASSUME NEW o, NEW n, NEW r, NEW w, Agree(o, n), Deleting(o, n, r, w), IsTree(r),
         NEW i \in DOMAIN r, i \in Deletes(o, n)
  PROVE  Deleting(o, n, Without(r, Below(r, i)), w \ {i})
<1> DEFINE u == Without(r, Below(r, i))
<1>1. DOMAIN u = DOMAIN r \ Below(r, i) /\ \A k \in DOMAIN u : u[k] = r[k]
  BY DEF Without
<1> HIDE DEF u
<1>2. i \notin DOMAIN n /\ i \in Below(r, i)
  BY BelowIsClosed DEF Deletes
<1>3. \A k \in DOMAIN n \cap DOMAIN r : r[k].parent \in DOMAIN n \cup {Root}
  <2>1. ASSUME NEW k \in DOMAIN n \cap DOMAIN r PROVE r[k].parent \in DOMAIN n \cup {Root}
    <3>1. k \in Kept(o, n) /\ r[k] = o[k]
      BY DEF Deleting, Kept
    <3>2. r[k].parent = n[k].parent
      BY <3>1 DEF Agree
    <3> QED BY <3>2, Levels DEF Agree
  <2> QED BY <2>1
<1>4. Below(r, i) \cap DOMAIN n = {}
  BY <1>2, <1>3, BelowMisses
<1>5. Kept(o, n) \subseteq DOMAIN u
  BY <1>1, <1>4 DEF Deleting, Kept
<1>6. Deleting(o, n, u, w \ {i})
  BY <1>1, <1>2, <1>5 DEF Deleting
<1> QED BY <1>6 DEF u

\* All deletes are served: what the draft does not have is gone, whatever it hung on.
LEMMA Deleted ==
  ASSUME NEW o, NEW n, NEW r, NEW w, Agree(o, n), Deleting(o, n, r, {}), IsTree(r),
         Updates(o, n) \subseteq w
  PROVE  Updating(o, n, r, w)
<1> DEFINE S == DOMAIN r \ DOMAIN n
<1>1. \A k \in DOMAIN r : k \in DOMAIN o /\ r[k] = o[k]
  BY DEF Deleting
<1>2. \A k \in S : r[k].parent \in S
  <2>1. ASSUME NEW k \in S PROVE r[k].parent \in S
    <3>1. k \notin Deletes(o, n)
      BY DEF Deleting
    <3>2. r[k].parent \notin DOMAIN n \cup {Root}
      BY <1>1, <3>1 DEF Deletes
    <3> QED BY <3>2, Levels
  <2> QED BY <2>1
<1>3. S = {}
  BY <1>2, NoLoops
<1>4. DOMAIN r = Kept(o, n)
  BY <1>1, <1>3 DEF Deleting, Kept
<1>5. \A k \in DOMAIN r : r[k].parent = n[k].parent
  BY <1>1, <1>4 DEF Agree
<1>6. \A k \in DOMAIN r : r[k].val = n[k].val \/ k \in w
  BY <1>1, <1>4 DEF Updates, Kept
<1> QED BY <1>4, <1>5, <1>6 DEF Updating

LEMMA UpdateServed ==
  ASSUME NEW o, NEW n, NEW r, NEW w, Updating(o, n, r, w), IsTree(r), IsTree(n),
         NEW i \in DOMAIN r
  PROVE  Updating(o, n, [r EXCEPT ![i].val = n[i].val], w \ {i})
<1> DEFINE v == n[i].val
           u == [r EXCEPT ![i].val = v]
<1>1. v \in Vals
  BY DEF Updating, Kept, IsTree, IsOutline
<1>2. \A k \in DOMAIN r : r[k] = [parent |-> r[k].parent, val |-> r[k].val]
  BY DEF IsTree, IsOutline, Node
<1> HIDE DEF v
<1>3. /\ DOMAIN u = DOMAIN r
      /\ \A k \in DOMAIN r : k # i => u[k] = r[k]
      /\ u[i] = [parent |-> r[i].parent, val |-> v]
  BY <1>2
<1> HIDE DEF u
<1>4. \A k \in DOMAIN r : u[k].parent = r[k].parent /\ u[k].val = IF k = i THEN v ELSE r[k].val
  BY <1>3
<1>5. Updating(o, n, u, w \ {i})
  BY <1>3, <1>4 DEF Updating, v
<1> QED BY <1>5 DEF u, v

LEMMA Updated ==
  ASSUME NEW o, NEW n, NEW r, Agree(o, n), Updating(o, n, r, {})
  PROVE  Copying(o, n, r, Creates(o, n))
<1> DEFINE f == [k \in Kept(o, n) |-> k]
<1>1. DOMAIN f = Kept(o, n) /\ \A k \in Kept(o, n) : f[k] = k
  OBVIOUS
<1>2. f = [k \in DOMAIN f |-> f[k]]
  OBVIOUS
<1> HIDE DEF f
<1>3. \A k \in Kept(o, n) : n[k].parent \in Kept(o, n) \cup {Root}
  BY Levels DEF Agree, Kept
<1>4. \A k \in Kept(o, n) : r[k].parent = n[k].parent /\ r[k].val = n[k].val
  BY DEF Updating
<1>5. \A k \in New(o, n) : n[k].parent \notin Kept(o, n) \/ n[k].parent \notin New(o, n)
  BY DEF Kept, New
<1>6. Kept(o, n) \subseteq DOMAIN n
  BY DEF Kept
<1>7. Placed(f, o, n, r)
  BY <1>1, <1>2, <1>3, <1>4, <1>5, <1>6, Levels DEF Placed, Updating
<1>8. \A c \in Creates(o, n) : c \notin DOMAIN f
  BY <1>1 DEF Creates, Kept
<1> QED BY <1>7, <1>8 DEF Copying

\* A create renames the new node and all below it, and nothing else.
LEMMA CreateServed ==
  ASSUME NEW o, NEW n, NEW r, NEW w, Agree(o, n), Copying(o, n, r, w), IsTree(r),
         NEW c \in Creates(o, n), c \in w, NEW g \in [Below(n, c) -> Ids \ DOMAIN r],
         \A x, y \in Below(n, c) : g[x] = g[y] => x = y
  PROVE  Copying(o, n, With(r, Copy(n, c, n[c].parent, g)), w \ {c})
<1> DEFINE B == Below(n, c)
           p == n[c].parent
           copy == Copy(n, c, p, g)
           u == With(r, copy)
<1>1. PICK f : Placed(f, o, n, r) /\ \A d \in Creates(o, n) : d \in DOMAIN f <=> d \notin w
  BY DEF Copying
<1>2. /\ c \in DOMAIN n \ DOMAIN o /\ p \in DOMAIN o \cup {Root} /\ c \notin DOMAIN f
      /\ IsTree(n) /\ IsTree(o)
  BY <1>1 DEF Creates, Agree
<1>3. /\ c \in B /\ B \subseteq DOMAIN n
      /\ \A k \in B \ {c} : n[k].parent \in B
      /\ \A k \in DOMAIN n : n[k].parent \in B => k \in B
  BY <1>2, BelowIsClosed
<1>4. B \cap DOMAIN f = {}
  <2>1. \A k \in DOMAIN f \cap DOMAIN n : n[k].parent \in DOMAIN f \cup {Root}
    BY <1>1 DEF Placed
  <2> QED BY <1>2, <2>1, BelowMisses
<1>5. B \cap DOMAIN o = {}
  <2>1. \A k \in DOMAIN o \cap DOMAIN n : n[k].parent \in DOMAIN o \cup {Root}
    BY <1>2, Levels DEF Agree, Kept
  <2> QED BY <1>2, <2>1, BelowMisses
<1>6. p \in Kept(o, n) \cup {Root} /\ Root \notin DOMAIN n
  BY <1>2, Levels DEF Kept
<1>7. /\ \A j : j \in DOMAIN copy <=> \E k \in B : g[k] = j
      /\ \A k \in B : copy[g[k]] = Node(IF k = c THEN p ELSE g[n[k].parent], n[k].val)
  BY CopyFacts
<1>8. \A k \in B : g[k] \notin DOMAIN r
  OBVIOUS
<1> HIDE DEF copy
<1>9. /\ \A j : j \in DOMAIN u <=> j \in DOMAIN r \/ \E k \in B : g[k] = j
      /\ \A k \in DOMAIN r : u[k] = r[k]
      /\ \A k \in B : /\ u[g[k]].val = n[k].val
                      /\ u[g[k]].parent = IF k = c THEN p ELSE g[n[k].parent]
  <2>1. /\ DOMAIN u = DOMAIN r \cup DOMAIN copy
        /\ \A k \in DOMAIN u : u[k] = IF k \in DOMAIN copy THEN copy[k] ELSE r[k]
    BY DEF With
  <2> HIDE DEF u
  <2>2. \A k \in DOMAIN r : k \notin DOMAIN copy
    BY <1>7, <1>8
  <2>3. \A k \in B : u[g[k]] = Node(IF k = c THEN p ELSE g[n[k].parent], n[k].val)
    BY <1>7, <2>1
  <2>4. \A k \in B : /\ u[g[k]].val = n[k].val
                     /\ u[g[k]].parent = IF k = c THEN p ELSE g[n[k].parent]
    BY <2>3, Fields
  <2> QED BY <1>7, <2>1, <2>2, <2>4
<1> HIDE DEF u, B
<1> DEFINE h == [k \in DOMAIN f \cup B |-> IF k \in B THEN g[k] ELSE f[k]]
<1>10. /\ DOMAIN h = DOMAIN f \cup B /\ h = [k \in DOMAIN h |-> h[k]]
       /\ \A k \in B : h[k] = g[k]
       /\ \A k \in DOMAIN f : h[k] = f[k]
  BY <1>4
<1> HIDE DEF h
<1>11. \A k \in Kept(o, n) : k \in DOMAIN f /\ h[k] = k
  BY <1>1, <1>10 DEF Placed
<1>12. \A x, y \in DOMAIN h : h[x] = h[y] => x = y
  <2>1. \A x \in DOMAIN f : h[x] \in DOMAIN r
    BY <1>1, <1>10 DEF Placed
  <2>2. \A x \in B : h[x] \notin DOMAIN r
    BY <1>8, <1>10
  <2>3. \A x, y \in DOMAIN f : h[x] = h[y] => x = y
    BY <1>1, <1>10 DEF Placed
  <2>4. \A x, y \in B : h[x] = h[y] => x = y
    BY <1>10 DEF B
  <2> QED BY <1>10, <2>1, <2>2, <2>3, <2>4
<1>13. \A j : j \in DOMAIN u <=> \E k \in DOMAIN h : h[k] = j
  BY <1>1, <1>9, <1>10 DEF Placed
<1>14. ASSUME NEW k \in DOMAIN h
       PROVE  /\ u[h[k]].val = n[k].val
              /\ n[k].parent \in DOMAIN h \cup {Root}
              /\ u[h[k]].parent = IF n[k].parent = Root THEN Root ELSE h[n[k].parent]
  <2>1. CASE k \in B /\ k = c
    <3>1. n[k].parent = p /\ u[h[k]].parent = p /\ u[h[k]].val = n[k].val
      BY <1>3, <1>9, <1>10, <2>1
    <3> QED BY <3>1, <1>6, <1>10, <1>11
  <2>2. CASE k \in B /\ k # c
    <3>1. /\ n[k].parent \in B /\ n[k].parent # Root
          /\ u[h[k]].parent = g[n[k].parent] /\ u[h[k]].val = n[k].val
      BY <1>3, <1>6, <1>9, <1>10, <2>2
    <3> QED BY <3>1, <1>10
  <2>3. CASE k \in DOMAIN f
    <3>1. /\ r[f[k]].val = n[k].val /\ f[k] \in DOMAIN r
          /\ n[k].parent \in DOMAIN f \cup {Root}
          /\ r[f[k]].parent = IF n[k].parent = Root THEN Root ELSE f[n[k].parent]
      BY <1>1, <2>3 DEF Placed
    <3>2. h[k] = f[k] /\ u[f[k]] = r[f[k]]
      BY <1>9, <1>10, <2>3, <3>1
    <3> QED BY <3>1, <3>2, <1>10
  <2> QED BY <1>10, <2>1, <2>2, <2>3
<1>15. \A k \in New(o, n) : n[k].parent \in New(o, n) /\ n[k].parent \in DOMAIN h => k \in DOMAIN h
  <2>1. ASSUME NEW k \in New(o, n), n[k].parent \in New(o, n), n[k].parent \in DOMAIN h
        PROVE  k \in DOMAIN h
    <3>1. CASE n[k].parent \in DOMAIN f
      BY <1>1, <1>10, <2>1, <3>1 DEF Placed
    <3>2. CASE n[k].parent \in B
      BY <1>3, <1>10, <3>2 DEF New
    <3> QED BY <1>10, <2>1, <3>1, <3>2
  <2> QED BY <2>1
<1>16. Placed(h, o, n, u)
  <2>1. Kept(o, n) \subseteq DOMAIN h /\ DOMAIN h \subseteq DOMAIN n
    BY <1>1, <1>3, <1>10 DEF Placed
  <2> QED BY <2>1, <1>10, <1>11, <1>12, <1>13, <1>14, <1>15 DEF Placed
<1>17. \A d \in Creates(o, n) : d \in DOMAIN h <=> d \notin w \ {c}
  <2>1. ASSUME NEW d \in Creates(o, n), d \in B, d # c PROVE FALSE
    <3>1. n[d].parent \in B /\ n[d].parent \in DOMAIN o \cup {Root}
      BY <1>3, <2>1 DEF Creates
    <3> QED BY <3>1, <1>3, <1>5, <1>6
  <2> QED BY <1>1, <1>3, <1>10, <2>1
<1>18. Copying(o, n, u, w \ {c})
  BY <1>16, <1>17 DEF Copying
<1> QED BY <1>18 DEF u, copy, B

\* The rows are the draft, but for the names of the new nodes.
Same(f, n, r) ==
  /\ DOMAIN f = DOMAIN n
  /\ \A x, y \in DOMAIN n : f[x] = f[y] => x = y
  /\ \A j : j \in DOMAIN r <=> \E k \in DOMAIN n : f[k] = j
  /\ \A k \in DOMAIN n :
       /\ r[f[k]].val = n[k].val
       /\ r[f[k]].parent = IF n[k].parent = Root THEN Root ELSE f[n[k].parent]

\* All creates are served: each node of the draft has its row.
LEMMA Created ==
  ASSUME NEW o, NEW n, NEW r, Agree(o, n), Copying(o, n, r, {})
  PROVE  \E f : Same(f, n, r)
<1>1. PICK f : Placed(f, o, n, r) /\ \A d \in Creates(o, n) : d \in DOMAIN f
  BY DEF Copying
<1> DEFINE S == DOMAIN n \ DOMAIN f
<1>2. \A k \in S : n[k].parent \in S
  <2>1. ASSUME NEW k \in S PROVE n[k].parent \in S
    <3>1. k \in New(o, n) /\ k \notin Creates(o, n)
      BY <1>1 DEF Placed, Kept, New
    <3>2. n[k].parent \notin DOMAIN o \cup {Root} /\ n[k].parent \in DOMAIN n \cup {Root}
      BY <3>1, Levels DEF Creates, New, Agree
    <3>3. n[k].parent \in New(o, n)
      BY <3>2 DEF New
    <3>4. n[k].parent \notin DOMAIN f
      BY <1>1, <3>1, <3>3 DEF Placed
    <3> QED BY <3>2, <3>4
  <2> QED BY <2>1
<1>3. S = {}
  BY <1>2, NoLoops DEF Agree
<1>4. DOMAIN f = DOMAIN n
  BY <1>1, <1>3 DEF Placed
<1>5. Same(f, n, r)
  BY <1>1, <1>4 DEF Placed, Same
<1> QED BY <1>5

\* Renaming counts nothing twice and loses nothing.
LEMMA AsMany ==
  ASSUME NEW f, NEW S, IsFiniteSet(S), NEW T, \A x, y \in S : f[x] = f[y] => x = y,
         \A j : j \in T <=> \E k \in S : f[k] = j
  PROVE  Cardinality(T) = Cardinality(S)
<1> DEFINE F == [k \in S |-> f[k]]
<1>1. F \in [S -> T]
  OBVIOUS
<1>2. \A x, y \in S : F[x] = F[y] => x = y
  OBVIOUS
<1>3. \A j \in T : \E k \in S : F[k] = j
  OBVIOUS
<1> HIDE DEF F
<1>4. F \in Bijection(S, T)
  BY <1>1, <1>2, <1>3, Fun_IsBij
<1>5. ExistsBijection(S, T)
  BY <1>4 DEF ExistsBijection
<1> QED BY <1>5, FS_Bijection

LEMMA SameUnder ==
  ASSUME NEW f, NEW n, NEW r, Same(f, n, r), IsTree(n), IsTree(r)
  PROVE  /\ \A k \in DOMAIN n : \A j : j \in Under(r, f[k]) <=> \E x \in Under(n, k) : f[x] = j
         /\ \A j : j \in Sections(r) <=> \E x \in Sections(n) : f[x] = j
         /\ \A k \in DOMAIN n : f[k] \in DOMAIN r /\ Under(n, k) \subseteq DOMAIN n
         /\ Sections(n) \subseteq DOMAIN n
<1>1. Root \notin DOMAIN n /\ Root \notin DOMAIN r
  BY Levels
<1>2. \A k \in DOMAIN n : f[k] \in DOMAIN r /\ f[k] # Root
  BY <1>1 DEF Same
<1>3. \A x \in DOMAIN n : n[x].parent \in DOMAIN n \cup {Root}
  BY Levels
<1>4. \A k, x \in DOMAIN n : r[f[x]].parent = f[k] <=> n[x].parent = k
  BY <1>1, <1>2, <1>3 DEF Same
<1>5. \A x \in DOMAIN n : r[f[x]].parent = Root <=> n[x].parent = Root
  BY <1>1, <1>2, <1>3 DEF Same
<1>6. \A j : j \in DOMAIN r <=> \E x \in DOMAIN n : f[x] = j
  BY DEF Same
<1> QED BY <1>2, <1>4, <1>5, <1>6 DEF Under, Sections

LEMMA NodesAreFinite ==
  ASSUME NEW t, IsTree(t), NEW S, S \subseteq DOMAIN t PROVE IsFiniteSet(S)
<1>1. S \in SUBSET Ids
  BY DEF IsTree, IsOutline
<1> QED BY <1>1, EditorAssumption, FS_Subset

LEMMA SameLineSign ==
  ASSUME NEW f, NEW n, NEW r, Same(f, n, r), IsTree(n), IsTree(r), NEW l \in DOMAIN n
  PROVE  LineSign(r, f[l]) = LineSign(n, l)
<1>1. ASSUME NEW v
      PROVE  Cardinality({c \in Under(r, f[l]) : r[c].val = v}) = Cardinality({c \in Under(n, l) : n[c].val = v})
  <2> DEFINE S == {c \in Under(n, l) : n[c].val = v}
             T == {c \in Under(r, f[l]) : r[c].val = v}
  <2>1. S \subseteq DOMAIN n
    BY SameUnder
  <2>2. \A x, y \in S : f[x] = f[y] => x = y
    BY <2>1 DEF Same
  <2>3. \A x \in DOMAIN n : r[f[x]].val = n[x].val
    BY DEF Same
  <2>4. \A j : j \in T <=> \E k \in S : f[k] = j
    BY <2>1, <2>3, SameUnder
  <2>5. IsFiniteSet(S)
    BY <2>1, NodesAreFinite
  <2> HIDE DEF S, T
  <2>6. Cardinality(T) = Cardinality(S)
    BY <2>2, <2>4, <2>5, AsMany
  <2> QED BY <2>6 DEF S, T
<1>2. [v \in Vals |-> Cardinality({c \in Under(r, f[l]) : r[c].val = v})] =
      [v \in Vals |-> Cardinality({c \in Under(n, l) : n[c].val = v})]
  BY <1>1
<1>3. r[f[l]].val = n[l].val
  BY DEF Same
<1> QED BY <1>2, <1>3 DEF LineSign

LEMMA SameSign ==
  ASSUME NEW f, NEW n, NEW r, Same(f, n, r), IsTree(n), IsTree(r), NEW s \in DOMAIN n
  PROVE  Sign(r, f[s]) = Sign(n, s)
<1> DEFINE U == Under(n, s)
           V == Under(r, f[s])
<1>1. /\ U \subseteq DOMAIN n /\ \A j : j \in V <=> \E x \in U : f[x] = j
      /\ r[f[s]].val = n[s].val
  <2>1. U \subseteq DOMAIN n /\ \A j : j \in V <=> \E x \in U : f[x] = j
    BY SameUnder
  <2>2. r[f[s]].val = n[s].val
    BY DEF Same
  <2> QED BY <2>1, <2>2
<1>2. \A l \in U : LineSign(r, f[l]) = LineSign(n, l)
  BY <1>1, SameLineSign
<1>3. {LineSign(r, l) : l \in V} = {LineSign(n, l) : l \in U}
  <2> HIDE DEF U, V
  <2> QED BY <1>1, <1>2
<1>4. ASSUME NEW g
      PROVE  Cardinality({l \in V : LineSign(r, l) = g}) = Cardinality({l \in U : LineSign(n, l) = g})
  <2> DEFINE S == {l \in U : LineSign(n, l) = g}
             T == {l \in V : LineSign(r, l) = g}
  <2>1. S \subseteq DOMAIN n
    BY <1>1
  <2>2. \A x, y \in S : f[x] = f[y] => x = y
    BY <2>1 DEF Same
  <2>3. \A j : j \in T <=> \E k \in S : f[k] = j
    <3> HIDE DEF U, V
    <3> QED BY <1>1, <1>2
  <2>4. IsFiniteSet(S)
    BY <2>1, NodesAreFinite
  <2> HIDE DEF S, T
  <2>5. Cardinality(T) = Cardinality(S)
    BY <2>2, <2>3, <2>4, AsMany
  <2> QED BY <2>5 DEF S, T
<1> DEFINE G == {LineSign(n, l) : l \in U}
<1>5. Sign(n, s) = <<n[s].val, {<<g, Cardinality({l \in U : LineSign(n, l) = g})>> : g \in G}>>
  BY DEF Sign
<1>6. Sign(r, f[s]) = <<n[s].val, {<<g, Cardinality({l \in V : LineSign(r, l) = g})>> : g \in G}>>
  BY <1>1, <1>3 DEF Sign
<1> HIDE DEF U, V, G
<1> QED BY <1>4, <1>5, <1>6

LEMMA SameShape ==
  ASSUME NEW f, NEW n, NEW r, Same(f, n, r), IsTree(n), IsTree(r)
  PROVE  Shape(r) = Shape(n)
<1> DEFINE U == Sections(n)
           V == Sections(r)
<1>1. U \subseteq DOMAIN n /\ \A j : j \in V <=> \E x \in U : f[x] = j
  BY SameUnder
<1>2. \A s \in U : Sign(r, f[s]) = Sign(n, s)
  BY <1>1, SameSign
<1>3. {Sign(r, s) : s \in V} = {Sign(n, s) : s \in U}
  <2> HIDE DEF U, V
  <2> QED BY <1>1, <1>2
<1>4. ASSUME NEW g
      PROVE  Cardinality({s \in V : Sign(r, s) = g}) = Cardinality({s \in U : Sign(n, s) = g})
  <2> DEFINE S == {s \in U : Sign(n, s) = g}
             T == {s \in V : Sign(r, s) = g}
  <2>1. S \subseteq DOMAIN n
    BY <1>1
  <2>2. \A x, y \in S : f[x] = f[y] => x = y
    BY <2>1 DEF Same
  <2>3. \A j : j \in T <=> \E k \in S : f[k] = j
    <3> HIDE DEF U, V
    <3> QED BY <1>1, <1>2
  <2>4. IsFiniteSet(S)
    BY <2>1, NodesAreFinite
  <2> HIDE DEF S, T
  <2>5. Cardinality(T) = Cardinality(S)
    BY <2>2, <2>3, <2>4, AsMany
  <2> QED BY <2>5 DEF S, T
<1> DEFINE G == {Sign(n, s) : s \in U}
           cu(g) == <<g, Cardinality({s \in U : Sign(n, s) = g})>>
           cv(g) == <<g, Cardinality({s \in V : Sign(r, s) = g})>>
<1>5. Shape(n) = {cu(g) : g \in G}
  BY DEF Shape
<1>6. Shape(r) = {cv(g) : g \in G}
  BY <1>3 DEF Shape
<1>7. \A g : cu(g) = cv(g)
  BY <1>4
<1> HIDE DEF U, V, G, cu, cv
<1> QED BY <1>5, <1>6, <1>7

-----------------------------------------------------------------------------
(* A save that nothing disturbs.                                            *)

\* Save a at phase p, of baseline o and draft q, to store n, with the rows r and the requests w.
SaveOK(a, p, o, q, n, r, w) ==
  /\ Agree(o, n) /\ Alike(o, q, n)
  /\ p \in TreeBatches => w \subseteq Requests(a, p, o, q)
  /\ p \notin TreeBatches => w = {}
  /\ Doing(p, o, n, r, {x.id : x \in w})

SaveInv ==
  broken = {} /\ cur # 0 =>
    SaveOK(cur, saves[cur].phase, saves[cur].old, saves[cur].asked, saves[cur].wanted, rows, wire)

\* Nothing is under way when nothing has gone wrong and the editor waits for nothing.
LEMMA QuietWire ==
  ASSUME EditorInv, broken = {}
  PROVE  /\ \A r \in wire : r.by = cur /\ Busy(cur)
         /\ \A a \in Attempts : Busy(a) => a = cur
<1>1. \A a \in Attempts : Busy(a) => a = cur
  BY DEF EditorInv, TurnsInv
<1>2. \A r \in wire : r.by \in Attempts /\ Busy(r.by)
  BY DEF EditorInv, TurnsInv, Sent, Busy, Running
<1> QED BY <1>1, <1>2

LEMMA RequestIds ==
  ASSUME NEW a, NEW p, NEW o, NEW n
  PROVE  /\ {q.id : q \in Requests(a, p, o, n)} = TreeOps(o, n, p)
         /\ \A w : w \subseteq Requests(a, p, o, n) =>
              \A r \in w : /\ r.id \in TreeOps(o, n, p) /\ r.do = p /\ r.by = a
                           /\ {q.id : q \in w \ {r}} = {q.id : q \in w} \ {r.id}
<1> DEFINE T == TreeOps(o, n, p)
<1>1. Requests(a, p, o, n) = {[by |-> a, do |-> p, id |-> i] : i \in T}
  BY DEF Requests
<1> HIDE DEF T
<1>2. {q.id : q \in Requests(a, p, o, n)} = T
  <2> DEFINE R == Requests(a, p, o, n)
             J == {q.id : q \in R}
  <2>1. \A i \in T : [by |-> a, do |-> p, id |-> i] \in R
    BY <1>1
  <2>2. \A i : [by |-> a, do |-> p, id |-> i].id = i
    OBVIOUS
  <2>3. \A q \in R : q.id \in T
    BY <1>1
  <2>4. \A i : i \in J <=> \E q \in R : q.id = i
    OBVIOUS
  <2> HIDE DEF R, J
  <2>5. T \subseteq J
    BY <2>1, <2>2, <2>4
  <2>6. J \subseteq T
    BY <2>3, <2>4
  <2>7. J = T
    BY <2>5, <2>6
  <2> QED BY <2>7 DEF J, R
<1>3. ASSUME NEW w, w \subseteq Requests(a, p, o, n), NEW r \in w
      PROVE  /\ r.id \in T /\ r.do = p /\ r.by = a
             /\ {q.id : q \in w \ {r}} = {q.id : q \in w} \ {r.id}
  <2>1. \A q \in w : q = [by |-> a, do |-> p, id |-> q.id] /\ q.id \in T /\ q.do = p /\ q.by = a
    BY <1>1, <1>3
  <2>2. \A q \in w : q.id = r.id => q = r
    BY <2>1
  <2> QED BY <2>1, <2>2
<1> QED BY <1>2, <1>3 DEF T

LEMMA SaveStays ==
  ASSUME SaveInv, rows' = rows, wire' = wire, saves' = saves,
         broken' = {} /\ cur' # 0 => broken = {} /\ cur' = cur
  PROVE  SaveInv'
  BY DEF SaveInv

LEMMA SaveStarts ==
  ASSUME EditorInv, StartSave PROVE SaveInv'
<1> SUFFICES ASSUME broken = {}
             PROVE  SaveOK(cur', saves'[cur'].phase, saves'[cur'].old, saves'[cur'].asked,
                           saves'[cur'].wanted, rows', wire')
  BY DEF StartSave, ghosts, SaveInv
<1> DEFINE a == NextSave
           q == draft.tree
           n == Furnished(rows, q)
           w == Requests(a, "delete", rows, q)
<1>1. a \in Attempts /\ cur = 0 /\ saved.tree = rows
  BY NextSaveIsUnused DEF StartSave, CanSave, EditorInv, TurnsInv
<1>2. wire = {}
  <2>1. 0 \notin Attempts
    BY EditorAssumption DEF Attempts
  <2> QED BY <1>1, <2>1, QuietWire DEF EditorInv, TurnsInv, Sent
<1>3. /\ cur' = a /\ rows' = rows /\ wire' = w
      /\ saves' = [saves EXCEPT ![a] = [phase |-> "delete", old |-> rows, asked |-> q, wanted |-> n,
                                        life |-> draft.life]]
  BY <1>1, <1>2 DEF StartSave, server
<1>4. DOMAIN saves = Attempts
  BY DEF EditorInv, TreesInv, SavesOK
<1> HIDE DEF a
<1>5. saves'[a].phase = "delete" /\ saves'[a].old = rows /\ saves'[a].asked = q /\ saves'[a].wanted = n
  BY <1>1, <1>3, <1>4
<1>6. Agree(rows, n) /\ Alike(rows, q, n)
  <2>1. /\ IsTree(rows) /\ DOMAIN rows \subseteq Given /\ IsTree(q) /\ DOMAIN q \subseteq Given
        /\ \A k \in Kept(rows, q) : rows[k].parent = q[k].parent
    BY DEF EditorInv, TreesInv, ShowsOK, Stores, Sound, Kept, Given
  <2> HIDE DEF q
  <2> QED BY <2>1, FurnishedIsAlike
<1>7. {x.id : x \in w} = Deletes(rows, n)
  BY <1>6, RequestIds DEF TreeOps, Alike
<1> HIDE DEF w, n, q
<1>8. Doing("delete", rows, n, rows, {x.id : x \in w})
  BY <1>6, <1>7, SaveBegins DEF Doing
<1>9. SaveOK(a, "delete", rows, q, n, rows, w)
  BY <1>6, <1>8 DEF SaveOK, TreeBatches, w
<1> QED BY <1>3, <1>5, <1>9

\* The save under way is at one of its phases.
LEMMA TheSave ==
  ASSUME EditorInv, SaveInv, broken = {}, cur # 0
  PROVE  /\ cur \in Attempts /\ Busy(cur)
         /\ SaveOK(cur, saves[cur].phase, saves[cur].old, saves[cur].asked, saves[cur].wanted, rows, wire)
         /\ IsTree(rows)
  BY DEF EditorInv, TurnsInv, TreesInv, Stores, SaveInv

LEMMA SaveGoesOn ==
  ASSUME EditorInv, SaveInv, NEW a \in Attempts, NextBatch(a) \/ PatchScalars(a) PROVE SaveInv'
<1> SUFFICES ASSUME broken = {}, cur # 0
             PROVE  SaveOK(cur, saves'[cur].phase, saves'[cur].old, saves'[cur].asked,
                           saves'[cur].wanted, rows, wire')
  BY DEF NextBatch, PatchScalars, server, ghosts, SaveInv
<1> DEFINE ph == saves[cur].phase
           p == IF ph \in TreeBatches THEN After(ph) ELSE "reload"
           o == saves[cur].old
           q == saves[cur].asked
           n == saves[cur].wanted
<1>1. /\ SaveOK(cur, ph, o, q, n, rows, wire) /\ IsTree(rows)
  BY TheSave
<1>2. Busy(a) /\ a = cur
  BY QuietWire DEF NextBatch, PatchScalars, Busy, Running, TreeBatches
<1>3. wire = {}
  BY <1>1, <1>2, QuietWire DEF NextBatch, PatchScalars, SaveOK, TreeBatches
<1>4. /\ ph \in TreeBatches \/ ph = "scalars"
      /\ saves' = [saves EXCEPT ![cur].phase = p]
      /\ wire' = IF p \in TreeBatches THEN Requests(cur, p, o, q) ELSE {}
  BY <1>2, <1>3 DEF NextBatch, PatchScalars, TreeBatches
<1>5. \/ ph = "delete" /\ p = "update"
      \/ ph = "update" /\ p = "create"
      \/ ph = "create" /\ p = "scalars"
      \/ ph = "scalars" /\ p = "reload"
  BY <1>4, AfterValues DEF TreeBatches
<1> HIDE DEF p, ph
<1>6. saves'[cur].phase = p /\ saves'[cur].old = o /\ saves'[cur].asked = q
      /\ saves'[cur].wanted = n
  <2>1. SavesOK /\ cur \in Attempts
    BY <1>2 DEF EditorInv, TreesInv
  <2>2. /\ \A b \in Attempts : /\ saves'[b].phase = IF b = cur THEN p ELSE saves[b].phase
                               /\ saves'[b].asked = saves[b].asked /\ saves'[b].wanted = saves[b].wanted
        /\ \A b \in Attempts : saves'[b].old = saves[b].old
    BY <1>4, <2>1, PhaseStep
  <2> QED BY <2>1, <2>2
<1> HIDE DEF o, q, n
<1>7. Agree(o, n) /\ Alike(o, q, n) /\ Doing(ph, o, n, rows, {})
  BY <1>1, <1>3 DEF SaveOK
<1>8. Doing(p, o, n, rows, {x.id : x \in wire'})
  <2>1. CASE ph = "delete" /\ p = "update"
    <3>1. {x.id : x \in wire'} = Updates(o, q)
      BY <1>4, <2>1, RequestIds DEF TreeOps, TreeBatches
    <3> QED BY <1>1, <1>7, <2>1, <3>1, Deleted DEF Doing, Alike
  <2>2. CASE ph = "update" /\ p = "create"
    <3>1. {x.id : x \in wire'} = Creates(o, n)
      BY <1>4, <1>7, <2>2, RequestIds DEF TreeOps, TreeBatches, Alike
    <3> QED BY <1>7, <2>2, <3>1, Updated DEF Doing
  <2>3. CASE p \in {"scalars", "reload"} /\ ph \in {"create", "scalars"}
    <3>1. {x.id : x \in wire'} = {}
      BY <1>4, <2>3 DEF TreeBatches
    <3> QED BY <1>7, <2>3, <3>1 DEF Doing
  <2> QED BY <1>5, <2>1, <2>2, <2>3
<1>9. SaveOK(cur, p, o, q, n, rows, wire')
  BY <1>4, <1>7, <1>8 DEF SaveOK
<1> QED BY <1>6, <1>9

LEMMA SaveIsServed ==
  ASSUME EditorInv, SaveInv, NEW r \in wire, Serve(r) PROVE SaveInv'
<1> SUFFICES ASSUME broken = {}, cur # 0
             PROVE  SaveOK(cur, saves[cur].phase, saves[cur].old, saves[cur].asked,
                           saves[cur].wanted, rows', wire')
  BY DEF Serve, ghosts, SaveInv
<1> DEFINE p == saves[cur].phase
           o == saves[cur].old
           q == saves[cur].asked
           n == saves[cur].wanted
           i == r.id
           w == {x.id : x \in wire}
<1>1. /\ SaveOK(cur, p, o, q, n, rows, wire) /\ IsTree(rows)
  BY TheSave
<1>2. p \in TreeBatches /\ wire \subseteq Requests(cur, p, o, q)
  BY <1>1 DEF SaveOK
<1>3. /\ i \in TreeOps(o, q, p) /\ r.do = p /\ r.by = cur
      /\ {x.id : x \in wire \ {r}} = w \ {i}
  <2> HIDE DEF o, q, p
  <2> QED BY <1>2, RequestIds
<1>4. Serves(r) /\ Apply(r) /\ wire' = wire \ {r}
  BY DEF Serve
<1>5. Agree(o, n) /\ Alike(o, q, n) /\ Doing(p, o, n, rows, w)
  BY <1>1 DEF SaveOK
<1>6. i \in w
  OBVIOUS
<1>7. Doing(p, o, n, rows', w \ {i})
  <2>1. CASE p = "delete"
    <3>1. i \in DOMAIN rows /\ rows' = Without(rows, Below(rows, i)) /\ i \in Deletes(o, n)
      BY <1>3, <1>4, <1>5, <2>1 DEF Serves, Apply, TreeOps, Alike
    <3>2. Deleting(o, n, rows', w \ {i})
      <4> HIDE DEF o, q, n, p, w, i
      <4> QED BY <1>1, <1>5, <2>1, <3>1, DeleteServed DEF Doing
    <3> QED BY <2>1, <3>2 DEF Doing
  <2>2. CASE p = "update"
    <3>1. i \in DOMAIN rows /\ rows' = [rows EXCEPT ![i].val = n[i].val]
      BY <1>3, <1>4, <2>2 DEF Serves, Apply
    <3>2. Updating(o, n, rows', w \ {i})
      <4> HIDE DEF o, q, n, p, w, i
      <4> QED BY <1>1, <1>5, <2>2, <3>1, UpdateServed DEF Doing, Agree
    <3> QED BY <2>2, <3>2 DEF Doing
  <2>3. CASE p = "create"
    <3> DEFINE f == Naming(Below(n, i), FreeServer)
    <3>1. /\ Cardinality(FreeServer) >= Cardinality(Below(n, i))
          /\ rows' = With(rows, Copy(n, i, n[i].parent, f))
          /\ i \in Creates(o, n)
      BY <1>3, <1>4, <1>5, <2>3 DEF Serves, Apply, Inserted, Payload, TreeOps, Alike
    <3>2. i \in DOMAIN n
      BY <3>1 DEF Creates
    <3>3. /\ f \in [Below(n, i) -> Ids \ DOMAIN rows]
          /\ \A x, y \in Below(n, i) : f[x] = f[y] => x = y
      <4> HIDE DEF o, q, n, p, w, i
      <4> QED BY <1>5, <3>1, <3>2, NewNames DEF Agree, EditorInv
    <3>4. Copying(o, n, rows', w \ {i})
      <4> HIDE DEF o, q, n, p, w, i, f
      <4> QED BY <1>1, <1>5, <1>6, <2>3, <3>1, <3>3, CreateServed DEF Doing
    <3> QED BY <2>3, <3>4 DEF Doing
  <2> QED BY <1>2, <2>1, <2>2, <2>3 DEF TreeBatches
<1>8. SaveOK(cur, p, o, q, n, rows', wire \ {r})
  <2> HIDE DEF o, q, n, p, w, i
  <2> QED BY <1>2, <1>3, <1>5, <1>7 DEF SaveOK
<1> QED BY <1>4, <1>8

\* At the end the rows are what was asked for, furnished.
LEMMA SaveIsStored ==
  ASSUME EditorInv, SaveInv, broken = {}, cur # 0, saves[cur].phase = "reload"
  PROVE  Shape(rows) = Shape(saves[cur].wanted)
<1> DEFINE o == saves[cur].old
           q == saves[cur].asked
           n == saves[cur].wanted
<1>1. SaveOK(cur, "reload", o, q, n, rows, wire) /\ IsTree(rows)
  BY TheSave
<1> HIDE DEF o, q, n
<1>2. Agree(o, n) /\ Copying(o, n, rows, {})
  BY <1>1 DEF SaveOK, TreeBatches, Doing
<1>3. PICK f : Same(f, n, rows)
  BY <1>2, Created
<1>4. Shape(rows) = Shape(n)
  BY <1>1, <1>2, <1>3, SameShape DEF Agree
<1> QED BY <1>4 DEF n

-----------------------------------------------------------------------------
(* What a save may delete.                                                  *)

\* While no unsaved edits reached the cache: baseline and cache hold minted ids; what a save
\* would delete of them, be it because the draft lacks it or because the rows do and become
\* the draft, was removed by the estimator; and so was what a request on its way deletes.
LossInv ==
  "leaked" \notin broken =>
    /\ DOMAIN saved.tree \subseteq minted /\ DOMAIN cache.tree \subseteq minted
    /\ Deletes(saved.tree, draft.tree) \subseteq removed
    /\ Deletes(saved.tree, rows) \subseteq removed
    /\ Deletes(cache.tree, rows) \subseteq removed
    /\ \A r \in wire : r.do = "delete" => r.id \in removed

\* The rows lose a subtree to a delete, or keep what they have and get nothing but new ids.
RowsMove ==
  \/ DOMAIN rows \subseteq DOMAIN rows' /\ DOMAIN rows' \cap minted \subseteq DOMAIN rows
  \/ \E r \in wire : /\ r.do = "delete" /\ r.id \in DOMAIN rows
                     /\ DOMAIN rows' = DOMAIN rows \ Below(rows, r.id)

LEMMA NoDeletes == \A t : Deletes(t, t) = {}
  BY DEF Deletes

LEMMA LossInit == EditorInit => LossInv
<1> SUFFICES ASSUME EditorInit PROVE LossInv
  OBVIOUS
<1>1. saved.tree = rows /\ draft.tree = rows /\ cache.tree = rows /\ minted = DOMAIN rows /\ wire = {}
  BY DEF EditorInit, Fresh
<1> QED BY <1>1, NoDeletes DEF LossInv

LEMMA ApplyMoves ==
  ASSUME EditorInv, NEW r \in wire, Serves(r), Apply(r)
  PROVE  minted \subseteq minted' /\ RowsMove
<1> DEFINE t == saves[r.by].wanted
<1>1. /\ r.do \in {"delete", "update", "create"} /\ TreesInv /\ Sound(t, rows, minted)
      /\ r.do # "delete" => r.id \in DOMAIN t
  BY SenderIsKnown DEF EditorInv
<1>2. CASE r.do = "delete"
  <2>1. r.id \in DOMAIN rows /\ rows' = Without(rows, Below(rows, r.id)) /\ minted' = minted
    BY <1>2 DEF Serves, Apply
  <2>2. DOMAIN rows' = DOMAIN rows \ Below(rows, r.id)
    BY <2>1 DEF Without
  <2> QED BY <1>2, <2>1, <2>2 DEF RowsMove
<1>3. CASE r.do = "update"
  <2>1. rows' = [rows EXCEPT ![r.id].val = t[r.id].val] /\ minted' = minted
    BY <1>3 DEF Apply
  <2>2. DOMAIN rows' = DOMAIN rows
    BY <2>1
  <2> QED BY <2>1, <2>2 DEF RowsMove
<1>4. CASE r.do = "create"
  <2>1. /\ r.id \in DOMAIN t /\ t[r.id].parent \in DOMAIN rows \cup {Root}
        /\ Cardinality(FreeServer) >= Cardinality(Below(t, r.id)) /\ Inserted(t, r.id)
    BY <1>1, <1>4 DEF Serves, Apply, Payload
  <2> HIDE DEF t
  <2> QED BY <1>1, <2>1, InsertedStep DEF RowsMove
<1> QED BY <1>1, <1>2, <1>3, <1>4

LEMMA AnswerMoves ==
  ASSUME EditorInv, NEW r \in wire, Answer(r)
  PROVE  /\ minted \subseteq minted' /\ RowsMove
         /\ wire' \subseteq wire /\ broken \subseteq broken'
         /\ cache' = cache /\ draft' = draft /\ saved' = saved /\ removed' = removed
<1>1. CASE Serve(r)
  BY <1>1, ApplyMoves DEF Serve, ghosts
<1>2. CASE ServeUnheard(r)
  BY <1>2, ApplyMoves DEF ServeUnheard, Reject
<1>3. CASE RequestFails(r)
  BY <1>3 DEF RequestFails, Reject, server, RowsMove
<1>4. CASE CreateCut(r)
  <2>1. /\ wire' = wire \ {r} /\ Reject(r.by)
        /\ cache' = cache /\ draft' = draft /\ saved' = saved /\ removed' = removed
    BY <1>4 DEF CreateCut
  <2> QED BY <1>4, <2>1, CutStep DEF RowsMove, Reject
<1> QED BY <1>1, <1>2, <1>3, <1>4 DEF Answer

\* Of a tree whose ids the server minted, a move of the rows makes nothing deletable but what
\* the delete was sent for.
LEMMA MoveDeletes ==
  ASSUME TreesInv, RowsMove, NEW t, Sound(t, rows, minted), DOMAIN t \subseteq minted
  PROVE  \A i \in Deletes(t, rows') :
           i \in Deletes(t, rows) \/ \E r \in wire : r.do = "delete" /\ i = r.id
<1> SUFFICES ASSUME NEW i \in DOMAIN t, i \notin DOMAIN rows',
                    t[i].parent \in DOMAIN rows' \cup {Root}
             PROVE  i \in Deletes(t, rows) \/ \E r \in wire : r.do = "delete" /\ i = r.id
  BY DEF Deletes
<1>1. /\ IsTree(t) /\ IsTree(rows) /\ Root \notin DOMAIN rows
      /\ \A k \in DOMAIN rows \cap DOMAIN t : rows[k].parent = t[k].parent
  BY Levels DEF TreesInv, Stores, Sound
<1>2. t[i].parent \in DOMAIN t \cup {Root}
  BY <1>1, Levels
<1>3. CASE DOMAIN rows \subseteq DOMAIN rows' /\ DOMAIN rows' \cap minted \subseteq DOMAIN rows
  BY <1>2, <1>3 DEF Deletes
<1>4. ASSUME NEW r \in wire, r.do = "delete", r.id \in DOMAIN rows,
             DOMAIN rows' = DOMAIN rows \ Below(rows, r.id), i # r.id
      PROVE  i \in Deletes(t, rows)
  <2>1. i \notin DOMAIN rows
    <3> SUFFICES ASSUME i \in DOMAIN rows PROVE FALSE
      OBVIOUS
    <3>1. i \in Below(rows, r.id)
      BY <1>4
    <3>2. rows[i].parent \in Below(rows, r.id) /\ rows[i].parent \in DOMAIN rows
      BY <1>1, <1>4, <3>1, BelowIsClosed
    <3> QED BY <1>1, <1>4, <3>2
  <2> QED BY <1>4, <2>1 DEF Deletes
<1> QED BY <1>3, <1>4 DEF RowsMove

LEMMA LossMoves ==
  ASSUME EditorInv, LossInv, NEW r \in wire, Answer(r)
  PROVE  LossInv' /\ RowsLostOnlyOnRequest
<1>1. /\ minted \subseteq minted' /\ RowsMove
      /\ wire' \subseteq wire /\ broken \subseteq broken'
      /\ cache' = cache /\ draft' = draft /\ saved' = saved /\ removed' = removed
  BY AnswerMoves
<1>2. Sound(saved.tree, rows, minted) /\ Sound(cache.tree, rows, minted) /\ TreesInv
  BY DEF EditorInv, TreesInv, ShowsOK
<1>3. ASSUME "leaked" \notin broken, NEW t, Sound(t, rows, minted), DOMAIN t \subseteq minted,
             Deletes(t, rows) \subseteq removed
      PROVE  Deletes(t, rows') \subseteq removed
  BY <1>1, <1>2, <1>3, MoveDeletes DEF LossInv
<1>4. LossInv'
  BY <1>1, <1>2, <1>3 DEF LossInv
<1>5. RowsLostOnlyOnRequest
  BY <1>1 DEF RowsMove, LossInv, RowsLostOnlyOnRequest
<1> QED BY <1>4, <1>5

\* An edit lets go of nothing but what it counts as removed.
LEMMA LossEdited ==
  ASSUME EditorInv, LossInv, Edited PROVE LossInv'
<1> SUFFICES ASSUME "leaked" \notin broken
             PROVE  Deletes(saved.tree, draft'.tree) \subseteq removed'
  BY DEF Edited, LossInv
<1> SUFFICES ASSUME NEW i \in Deletes(saved.tree, draft'.tree), draft' # saved PROVE i \in removed'
  BY NoDeletes
<1>1. /\ i \in DOMAIN saved.tree /\ i \notin DOMAIN draft'.tree
      /\ saved.tree[i].parent \in DOMAIN draft'.tree \cup {Root}
  BY DEF Deletes
<1>2. saved.tree[i].parent \notin LocalIds
  <2>1. IsTree(saved.tree) /\ DOMAIN saved.tree \subseteq ServerIds
    BY DEF EditorInv, TreesInv, ShowsOK, Sound, Stores, LossInv
  <2>2. saved.tree[i].parent \in ServerIds \cup {Root}
    BY <1>1, <2>1, Levels
  <2> QED BY <2>2, EditorAssumption DEF Ids, Given
<1>3. i \in Deletes(saved.tree, draft.tree) \/ i \in DOMAIN draft.tree
  BY <1>1, <1>2 DEF Deletes, Edited
<1> QED BY <1>1, <1>3 DEF LossInv, Edited

LEMMA LossStarts ==
  ASSUME EditorInv, LossInv, StartSave PROVE LossInv'
<1>1. /\ wire' = wire \cup Requests(NextSave, "delete", saved.tree, draft.tree)
      /\ rows' = rows /\ minted' = minted /\ cache' = cache /\ draft' = draft /\ saved' = saved
      /\ broken' = broken /\ removed' = removed
  BY DEF StartSave, server, ghosts
<1>2. \A r \in Requests(NextSave, "delete", saved.tree, draft.tree) :
        r.id \in Deletes(saved.tree, draft.tree)
  BY RequestIds DEF TreeOps
<1> QED BY <1>1, <1>2 DEF LossInv

\* The trees stay, and no delete is sent.
LEMMA LossStays ==
  ASSUME LossInv, broken \subseteq broken', \A r \in wire' : r \in wire \/ r.do # "delete",
         UNCHANGED <<rows, minted, cache, draft, saved, removed>>
  PROVE  LossInv'
  BY DEF LossInv

LEMMA LossGoesOn ==
  ASSUME EditorInv, LossInv, NEW a \in Attempts, NextBatch(a) \/ PatchScalars(a) \/ LateStepFails(a)
  PROVE  LossInv' /\ rows' = rows
<1>1. CASE NextBatch(a)
  <2> DEFINE p == After(saves[a].phase)
             R == Requests(a, p, saves[a].old, saves[a].asked)
  <2>1. /\ saves[a].phase \in TreeBatches /\ wire' = IF p \in TreeBatches THEN wire \cup R ELSE wire
        /\ rows' = rows /\ minted' = minted /\ cache' = cache /\ draft' = draft /\ saved' = saved
        /\ broken' = broken /\ removed' = removed
    BY <1>1 DEF NextBatch, server, ghosts
  <2>2. p # "delete"
    BY <2>1, AfterValues DEF TreeBatches
  <2>3. \A r \in R : r.do = p
    BY RequestIds
  <2> HIDE DEF p, R
  <2> QED BY <2>1, <2>2, <2>3, LossStays
<1>2. CASE PatchScalars(a)
  BY <1>2, LossStays DEF PatchScalars, ghosts
<1>3. CASE LateStepFails(a)
  BY <1>3, LossStays DEF LateStepFails, Reject, server
<1> QED BY <1>1, <1>2, <1>3

-----------------------------------------------------------------------------
(* The open estimate is replaced, and a save goes on.                       *)

\* What replaces the cached estimate or the editor: the trees shown are among those there were,
\* and the editor is the same or waits for nothing.
Opened ==
  /\ rows' = rows /\ minted' = minted /\ wire' = wire /\ removed' = removed
  /\ "leaked" \notin broken' =>
       /\ "leaked" \notin broken
       /\ cache'.tree \in {rows, cache.tree}
       /\ \/ draft'.tree = draft.tree /\ saved'.tree = saved.tree
          \/ /\ saved'.tree \in {rows, saved.tree, cache.tree}
             /\ draft'.tree \in {rows, saved'.tree}
  /\ broken' = {} /\ cur' # 0 => broken = {} /\ cur' = cur /\ saves' = saves

LEMMA OpenedStep ==
  ASSUME EditorInv, SaveInv, LossInv, Opened PROVE SaveInv' /\ LossInv'
<1>1. SaveInv'
  BY DEF Opened, SaveInv
<1>2. ASSUME "leaked" \notin broken'
      PROVE  /\ DOMAIN saved'.tree \subseteq minted /\ DOMAIN cache'.tree \subseteq minted
             /\ Deletes(saved'.tree, draft'.tree) \subseteq removed
             /\ Deletes(saved'.tree, rows) \subseteq removed
             /\ Deletes(cache'.tree, rows) \subseteq removed
  <2>1. DOMAIN rows \subseteq minted
    BY DEF EditorInv, TreesInv, Stores
  <2> QED BY <1>2, <2>1, NoDeletes DEF Opened, LossInv
<1>3. LossInv'
  BY <1>2 DEF Opened, LossInv
<1> QED BY <1>1, <1>3

LEMMA OpenSteps ==
  ASSUME EditorInv, Refetch \/ MarkLost \/ SwitchTab \/ ToggleAnswered PROVE Opened
<1>1. CASE Refetch
  <2>1. /\ SetOpenEstimate(Fresh, Editor) /\ broken \subseteq broken'
        /\ rows' = rows /\ minted' = minted /\ saves' = saves /\ wire' = wire /\ removed' = removed
    BY <1>1 DEF Refetch, server
  <2>2. /\ cache' = Fresh
        /\ \/ draft' = Fresh /\ saved' = Fresh /\ cur' = 0
           \/ draft' = draft /\ saved' = saved /\ cur' = cur
    BY <2>1, OpenFacts, EditorFacts
  <2> QED BY <2>1, <2>2, FreshIsSound DEF Opened, EditorInv
<1>2. CASE MarkLost
  <2> DEFINE ed == [Editor EXCEPT !.draft = Fresh, !.saved = Fresh]
  <2>1. /\ SetOpenEstimate(Fresh, ed) /\ broken \subseteq broken'
        /\ rows' = rows /\ minted' = minted /\ saves' = saves /\ wire' = wire /\ removed' = removed
    BY <1>2 DEF MarkLost, server
  <2>2. ed.draft = Fresh /\ ed.saved = Fresh /\ ed.cur = cur
    BY DEF Editor
  <2> HIDE DEF ed
  <2>3. cache' = Fresh /\ draft' = Fresh /\ saved' = Fresh /\ (cur' = 0 \/ cur' = cur)
    BY <2>1, <2>2, OpenFacts
  <2> QED BY <2>1, <2>3, FreshIsSound DEF Opened, EditorInv
<1>3. CASE SwitchTab
  <2>1. /\ draft' = cache /\ saved' = cache /\ cur' = 0 /\ broken \subseteq broken' /\ cache' = cache
        /\ rows' = rows /\ minted' = minted /\ wire' = wire /\ removed' = removed
    BY <1>3 DEF SwitchTab, Shows, Mounted, server
  <2> QED BY <2>1 DEF Opened
<1>4. CASE ToggleAnswered
  <2> DEFINE next == [tree |-> toggle.seen, life |-> toggle.to]
             ed == IF toggle.own
                     THEN [Editor EXCEPT !.draft = next, !.saved.life = toggle.to,
                                         !.toggle = NoToggle]
                     ELSE [Editor EXCEPT !.toggle = NoToggle]
  <2>1. /\ SetOpenEstimate(next, ed)
        /\ broken' = broken \cup (IF next.tree # rows THEN {"leaked"} ELSE {})
                            \cup (IF Remounts(next) THEN Orphaning ELSE {})
        /\ rows' = rows /\ minted' = minted /\ saves' = saves /\ wire' = wire /\ removed' = removed
    BY <1>4 DEF ToggleAnswered
  <2>2. /\ ed.draft = next \/ (ed.draft = draft /\ ed.saved = saved)
        /\ ed.saved = [saved EXCEPT !.life = toggle.to] \/ ed.saved = saved
        /\ ed.cur = cur
    <3> HIDE DEF next
    <3>1. CASE toggle.own
      BY <3>1 DEF Editor
    <3>2. CASE ~toggle.own
      BY <3>2 DEF Editor
    <3> QED BY <3>1, <3>2
  <2> HIDE DEF next, ed
  <2>3. ed.saved.tree = saved.tree
    <3>1. PICK x, y : saved = [tree |-> x, life |-> y] /\ x = saved.tree
      BY DEF EditorInv, TreesInv, ShowsOK, Sheet
    <3>2. [saved EXCEPT !.life = toggle.to] = [tree |-> x, life |-> toggle.to]
      BY <3>1
    <3> QED BY <2>2, <3>1, <3>2
  <2>4. /\ cache' = next
        /\ \/ draft' = next /\ saved' = next /\ cur' = 0
           \/ draft' = next /\ saved'.tree = saved.tree /\ cur' = cur
           \/ draft' = draft /\ saved' = saved /\ cur' = cur
    BY <2>1, <2>2, <2>3, OpenFacts
  <2>5. broken \subseteq broken' /\ ("leaked" \notin broken' => next.tree = rows)
    BY <2>1
  <2> QED BY <2>1, <2>4, <2>5 DEF Opened
<1> QED BY <1>1, <1>2, <1>3, <1>4

LEMMA ReloadSaves ==
  ASSUME EditorInv, SaveInv, LossInv, NEW a \in Attempts, Reload(a)
  PROVE  SaveInv' /\ LossInv' /\ rows' = rows
<1> DEFINE own == cur = a
           quiet == wire = {} /\ \A b \in Attempts \ {a} : saves[b].phase \notin Running
           ed == IF own THEN [Editor EXCEPT !.draft = Fresh, !.saved = Fresh, !.cur = 0] ELSE Editor
<1>1. /\ saves[a].phase = "reload" /\ SetOpenEstimate(Fresh, ed)
      /\ rows' = rows /\ minted' = minted /\ wire' = wire /\ removed' = removed
      /\ own /\ quiet => broken' = {}
      /\ own /\ ~quiet => broken' = broken
      /\ ~own => broken \subseteq broken'
  BY DEF Reload, server
<1>2. /\ own => ed.draft = Fresh /\ ed.saved = Fresh /\ ed.cur = 0
      /\ ~own => ed.draft = draft /\ ed.saved = saved /\ ed.cur = cur
  BY DEF Editor
<1> HIDE DEF ed
<1>3. /\ cache' = Fresh
      /\ own => draft' = Fresh /\ saved' = Fresh /\ cur' = 0
      /\ \/ draft' = Fresh /\ saved' = Fresh
         \/ draft' = draft /\ saved' = saved
  BY <1>1, <1>2, OpenFacts
<1>4. Fresh.tree = rows /\ DOMAIN rows \subseteq minted
  BY FreshIsSound DEF EditorInv, TreesInv, Stores
<1>5. ~own => broken # {}
  BY <1>1 DEF EditorInv, TurnsInv, Busy, Running
<1>6. CASE own /\ quiet
  <2>1. SaveInv'
    BY <1>3, <1>6 DEF SaveInv
  <2>2. LossInv'
    BY <1>1, <1>3, <1>4, <1>6, NoDeletes DEF LossInv
  <2> QED BY <1>1, <2>1, <2>2
<1>7. CASE ~(own /\ quiet)
  <2>1. broken \subseteq broken' /\ (broken' = {} => cur' = 0)
    BY <1>1, <1>3, <1>5, <1>7
  <2>2. Opened
    BY <1>1, <1>3, <1>4, <2>1 DEF Opened
  <2> QED BY <1>1, <2>2, OpenedStep
<1> QED BY <1>6, <1>7

-----------------------------------------------------------------------------
(* Every step.                                                              *)

LEMMA SaveStep ==
  ASSUME EditorInv, SaveInv, LossInv, [EditorNext]_editorVars
  PROVE  SaveInv' /\ LossInv' /\ RowsLostOnlyOnRequest
<1>1. rows' = rows => RowsLostOnlyOnRequest
  BY DEF RowsLostOnlyOnRequest
<1>2. CASE Editing
  <2>1. Edited
    BY <1>2, EditingStep
  <2>2. rows' = rows /\ wire' = wire /\ saves' = saves /\ broken' = broken /\ cur' = cur
    BY <2>1 DEF Edited
  <2> QED BY <1>1, <2>1, <2>2, LossEdited, SaveStays
<1>3. CASE SaveRefused \/ ToggleFails \/ (\E to \in {"bidding", "won"} : ClickToggle(to))
           \/ UNCHANGED editorVars
  <2>1. /\ rows' = rows /\ minted' = minted /\ cache' = cache /\ draft' = draft /\ saved' = saved
        /\ cur' = cur /\ saves' = saves /\ wire' = wire /\ broken' = broken /\ removed' = removed
    BY <1>3 DEF SaveRefused, ToggleFails, ClickToggle, editorVars, server, ghosts
  <2> QED BY <1>1, <2>1, LossStays, SaveStays
<1>4. CASE StartSave
  <2>1. rows' = rows
    BY <1>4 DEF StartSave, server
  <2> QED BY <1>1, <1>4, <2>1, LossStarts, SaveStarts
<1>5. ASSUME NEW r \in wire, Answer(r) PROVE SaveInv' /\ LossInv' /\ RowsLostOnlyOnRequest
  <2>1. CASE Serve(r)
    BY <1>5, <2>1, SaveIsServed, LossMoves
  <2>2. CASE ServeUnheard(r) \/ RequestFails(r) \/ CreateCut(r)
    <3>1. "failed" \in broken'
      BY <2>2 DEF ServeUnheard, RequestFails, CreateCut, Reject
    <3> QED BY <1>5, <3>1, LossMoves DEF SaveInv
  <2> QED BY <1>5, <2>1, <2>2 DEF Answer
<1>6. ASSUME NEW a \in Attempts, Advance(a) PROVE SaveInv' /\ LossInv' /\ RowsLostOnlyOnRequest
  <2>1. CASE NextBatch(a) \/ PatchScalars(a)
    BY <1>1, <2>1, SaveGoesOn, LossGoesOn
  <2>2. CASE LateStepFails(a)
    <3>1. "failed" \in broken'
      BY <2>2 DEF LateStepFails, Reject
    <3> QED BY <1>1, <2>2, <3>1, LossGoesOn DEF SaveInv
  <2>3. CASE Reload(a)
    BY <1>1, <2>3, ReloadSaves
  <2> QED BY <1>6, <2>1, <2>2, <2>3 DEF Advance
<1>7. CASE Refetch \/ MarkLost \/ SwitchTab \/ ToggleAnswered
  <2>1. Opened
    BY <1>7, OpenSteps
  <2>2. rows' = rows
    BY <2>1 DEF Opened
  <2> QED BY <1>1, <2>1, <2>2, OpenedStep
<1> QED BY <1>2, <1>3, <1>4, <1>5, <1>6, <1>7 DEF EditorNext

LEMMA SaveEndsStored ==
  ASSUME EditorInv, SaveInv PROVE SaveIsExact
<1>1. 0 \notin Attempts
  BY EditorAssumption DEF Attempts
<1> QED BY <1>1, SaveIsStored DEF SaveIsExact, SavedMeansStored

\* For any trees, standard lines and crew prices, and any number of saves: a save that nothing
\* disturbed stored the draft exactly, its new and changed lines at the crew price and its empty
\* new maintenance sections with the standard lines, in whatever order the server took the
\* requests of its batches; and no row ever goes, whatever
\* was lost, refused or cut short, unless the estimator removed it or a node above it, or unsaved
\* edits had reached the cache.
THEOREM SavesDoAsAsked == EditorSpec => SaveDoesAsAsked
<1> DEFINE I == EditorInv /\ SaveInv /\ LossInv
<1>1. EditorInit => I
  <2>1. EditorInit => SaveInv
    BY DEF EditorInit, SaveInv
  <2> QED BY <2>1, InitInv, LossInit
<1>2. I /\ [EditorNext]_editorVars => I' /\ (SaveIsExact /\ RowsLostOnlyOnRequest)
  BY EditorInvStep, SaveStep, SaveEndsStored
<1>3. I /\ [EditorNext]_editorVars => I'
  BY <1>2
<1>4. I /\ [EditorNext]_editorVars => [SaveIsExact /\ RowsLostOnlyOnRequest]_editorVars
  BY <1>2
<1> QED BY <1>1, <1>3, <1>4, PTL DEF EditorSpec, SaveDoesAsAsked

=============================================================================
