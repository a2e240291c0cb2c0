--------------------------- MODULE RecordsProofs ----------------------------
(***************************************************************************)
(* Proofs about records that several calls change, for any number of calls *)
(* and faults: requests of data subjects, forecasts, the audit trail,      *)
(* replenishment, the three-way match, payroll runs and notifications.  In *)
(* each, what a call has read is still true of what it writes as long as   *)
(* the calls it must not meet stay away.                                   *)
(***************************************************************************)
EXTENDS Audit, Forecasts, Replenishment, Matching, PayrollRuns, Notifications,
        FunctionTheorems, SequenceTheorems, Sums

-----------------------------------------------------------------------------
(* Requests of data subjects                                               *)

\* What is left of the data that was there before the first erasure.
Left == (named \cup held) \ since

UnderWay(c) == fulfil[c].at \notin {"none", "over"}

ErasureSteps == {"user", "notifications", "anonymize", "employee", "transaction", "consents"}

GdprType ==
  /\ named \in SUBSET Rows /\ held \in SUBSET Data
  /\ dsr \in [Dsrs -> [type : {"none", "ACCESS", "ERASURE"}, status : {"none", "OPEN", "FULFILLED"}]]
  /\ fulfil \in [Fulfilments ->
       {NotCalled, CallOver} \cup [at : ErasureSteps \cup {"export", "status"}, dsr : Dsrs]]

\* How far the call c, and so any erasure before it, has got.
ErasedSoFar(c) ==
  /\ fulfil[c].at = "anonymize" => Left \cap UserData = {}
  /\ fulfil[c].at \in {"employee", "transaction", "consents"} => "user" \notin Left
  /\ fulfil[c].at = "consents" => "employee" \notin Left

\* A row that has lost the address has lost its data before or with it; a call
\* works on what the type of its request asks for; a request that is about to be
\* fulfilled is done.
GdprInv ==
  /\ GdprType
  /\ "user" \notin Left => Left \cap UserData = {}
  /\ "employee" \notin Left => Left \cap EmployeeData = {}
  /\ \A d \in Dsrs : dsr[d] # NoDsr => dsr[d].type \in {"ACCESS", "ERASURE"}
  /\ \A c \in Fulfilments : UnderWay(c) =>
       /\ dsr[fulfil[c].dsr] # NoDsr
       /\ fulfil[c].at \in ErasureSteps => dsr[fulfil[c].dsr].type = "ERASURE"
       /\ fulfil[c].at = "export" => dsr[fulfil[c].dsr].type # "ERASURE"
       /\ fulfil[c].at = "status" =>
            IF dsr[fulfil[c].dsr].type = "ERASURE" THEN Left = {} ELSE fulfil[c].dsr \in exported
       /\ ErasedSoFar(c)
  /\ FulfilledIsDone

LEMMA GdprInitHolds == GdprInit => GdprInv
BY DEF GdprInit, GdprInv, GdprType, FulfilledIsDone, UnderWay, ErasedSoFar, Left, Rows, Data, UserData,
       EmployeeData, NoDsr, NotCalled

\* What is left can only become less, which keeps what every call has erased.
LEMMA LeftShrinks ==
  ASSUME GdprType, GdprNext
  PROVE  /\ Left' \subseteq Left
         /\ exported \subseteq exported'
         /\ GdprType'
<1> USE DEF GdprType, GdprNext, Left
<1>1. ASSUME NEW d \in Dsrs, NEW type \in {"ACCESS", "ERASURE"}, CreateDsr(d, type)
      PROVE  Left' \subseteq Left /\ exported \subseteq exported' /\ GdprType'
  BY <1>1 DEF CreateDsr, rowVars
<1>2. ASSUME NEW x \in Rows \cup Data, Adds(x)
      PROVE  Left' \subseteq Left /\ exported \subseteq exported' /\ GdprType'
  BY <1>2 DEF Adds
<1>3. ASSUME NEW c \in Fulfilments, NEW d \in Dsrs, FulfillRequest(c, d)
      PROVE  Left' \subseteq Left /\ exported \subseteq exported' /\ GdprType'
  BY <1>3 DEF FulfillRequest, rowVars, ErasureSteps
<1>4. ASSUME NEW c \in Fulfilments,
             \/ ExportZip(c) \/ FindUser(c) \/ DeleteNotifications(c) \/ AnonymizeUser(c)
             \/ FindEmployee(c) \/ EraseEmployee(c) \/ DeleteConsents(c)
      PROVE  Left' \subseteq Left /\ exported \subseteq exported' /\ GdprType'
  <2>1. /\ Left' \subseteq Left /\ exported \subseteq exported'
        /\ named' \in SUBSET Rows /\ held' \in SUBSET Data /\ dsr' = dsr
    BY <1>4 DEF ExportZip, FindUser, DeleteNotifications, AnonymizeUser, FindEmployee,
                EraseEmployee, DeleteConsents, rowVars
  <2>2. fulfil[c] \in [at : ErasureSteps \cup {"export", "status"}, dsr : Dsrs]
    BY <1>4 DEF ExportZip, FindUser, DeleteNotifications, AnonymizeUser, FindEmployee,
                EraseEmployee, DeleteConsents, NotCalled, CallOver
  <2>3. \E s \in ErasureSteps \cup {"status"} : fulfil' = [fulfil EXCEPT ![c].at = s]
    BY <1>4 DEF ExportZip, FindUser, DeleteNotifications, AnonymizeUser, FindEmployee,
                EraseEmployee, DeleteConsents, Goes, ErasureSteps
  <2> QED
    BY <2>1, <2>2, <2>3
<1>5. ASSUME NEW c \in Fulfilments, MarkFulfilled(c) \/ FulfilmentFails(c)
      PROVE  Left' \subseteq Left /\ exported \subseteq exported' /\ GdprType'
  BY <1>5 DEF MarkFulfilled, FulfilmentFails, rowVars, NotCalled, CallOver
<1> QED
  BY <1>1, <1>2, <1>3, <1>4, <1>5 DEF Fulfils

LEMMA GdprInvNext ==
  ASSUME GdprInv, GdprNext
  PROVE  GdprInv'
<1> USE DEF GdprInv
<1>0. Left' \subseteq Left /\ exported \subseteq exported' /\ GdprType'
  BY LeftShrinks
<1>1. ASSUME NEW d \in Dsrs, NEW type \in {"ACCESS", "ERASURE"}, CreateDsr(d, type)
      PROVE  GdprInv'
  <2>1. Left' = Left /\ UNCHANGED <<fulfil, exported, named, held, since>>
    BY <1>1 DEF CreateDsr, rowVars, Left
  <2>2. /\ dsr'[d] = [type |-> type, status |-> "OPEN"] /\ dsr[d] = NoDsr
        /\ \A e \in Dsrs \ {d} : dsr'[e] = dsr[e]
    BY <1>1 DEF CreateDsr, GdprType
  <2>3. \A c \in Fulfilments : UnderWay(c) => fulfil[c].dsr \in Dsrs \ {d}
    BY <2>2 DEF UnderWay, GdprType, NotCalled, CallOver
  <2> QED
    BY <1>0, <2>1, <2>2, <2>3 DEF FulfilledIsDone, UnderWay, ErasedSoFar, NoDsr, Left
<1>2. ASSUME NEW x \in Rows \cup Data, Adds(x)
      PROVE  GdprInv'
  <2>1. Left' = Left /\ UNCHANGED <<fulfil, exported, dsr>>
    BY <1>2 DEF Adds, Left
  <2> QED
    BY <1>0, <2>1 DEF FulfilledIsDone, UnderWay, ErasedSoFar, Left
<1>3. ASSUME NEW c \in Fulfilments, NEW d \in Dsrs, FulfillRequest(c, d)
      PROVE  GdprInv'
  <2>1. Left' = Left /\ UNCHANGED <<named, held, since, exported, dsr>>
    BY <1>3 DEF FulfillRequest, rowVars, Left
  <2>2. /\ fulfil'[c] = [at |-> IF dsr[d].type = "ERASURE" THEN "user" ELSE "export", dsr |-> d]
        /\ \A e \in Fulfilments \ {c} : fulfil'[e] = fulfil[e]
        /\ dsr[d] # NoDsr
    BY <1>3 DEF FulfillRequest, GdprType, NoDsr
  <2> QED
    BY <1>0, <2>1, <2>2 DEF FulfilledIsDone, UnderWay, ErasedSoFar, Left, ErasureSteps
<1>4. ASSUME NEW c \in Fulfilments,
             \/ ExportZip(c) \/ FindUser(c) \/ DeleteNotifications(c) \/ AnonymizeUser(c)
             \/ FindEmployee(c) \/ EraseEmployee(c) \/ DeleteConsents(c)
      PROVE  GdprInv'
  <2> DEFINE from == fulfil[c].at  to == fulfil'[c].at
  <2>1. fulfil[c] \in [at : ErasureSteps \cup {"export", "status"}, dsr : Dsrs] /\ UnderWay(c)
    BY <1>4 DEF ExportZip, FindUser, DeleteNotifications, AnonymizeUser, FindEmployee,
                EraseEmployee, DeleteConsents, NotCalled, CallOver, GdprType, UnderWay
  <2>2. /\ \A e \in Fulfilments \ {c} : fulfil'[e] = fulfil[e]
        /\ fulfil'[c].dsr = fulfil[c].dsr /\ dsr' = dsr
    BY <1>4, <2>1 DEF ExportZip, FindUser, DeleteNotifications, AnonymizeUser, FindEmployee,
                EraseEmployee, DeleteConsents, Goes, GdprType
  <2>3. \/ ExportZip(c) /\ from = "export" /\ to = "status" /\ fulfil[c].dsr \in exported'
        \/ from \in ErasureSteps /\ to \in ErasureSteps \cup {"status"}
    BY <1>4, <2>1 DEF ExportZip, FindUser, DeleteNotifications, AnonymizeUser, FindEmployee,
                EraseEmployee, DeleteConsents, Goes, GdprType, ErasureSteps
  <2>4. /\ "user" \notin Left' => Left' \cap UserData = {}
        /\ "employee" \notin Left' => Left' \cap EmployeeData = {}
    <3>1. CASE AnonymizeUser(c)
      BY <1>0, <2>1, <3>1 DEF AnonymizeUser, ErasedSoFar, Left, UserData, EmployeeData
    <3>2. CASE EraseEmployee(c)
      BY <1>0, <2>1, <3>2 DEF EraseEmployee, Left, UserData, EmployeeData, GdprType, Rows, Data
    <3>3. CASE \/ ExportZip(c) \/ FindUser(c) \/ DeleteNotifications(c) \/ FindEmployee(c)
               \/ DeleteConsents(c)
      <4>1. named' = named /\ since' = since
        BY <3>3 DEF ExportZip, FindUser, DeleteNotifications, FindEmployee, DeleteConsents, rowVars
      <4>2. /\ "user" \in Left => "user" \in Left'
            /\ "employee" \in Left => "employee" \in Left'
        BY <3>3, <4>1 DEF ExportZip, FindUser, DeleteNotifications, FindEmployee, DeleteConsents,
                          rowVars, Left, UserData, GdprType, Rows, Data, EmployeeData
      <4> QED
        BY <1>0, <4>2
    <3> QED
      BY <1>4, <3>1, <3>2, <3>3
  <2>5. ErasedSoFar(c)'
    <3>1. CASE ExportZip(c) \/ DeleteConsents(c)
      BY <2>1, <3>1 DEF ExportZip, DeleteConsents, Goes, GdprType, ErasedSoFar
    <3>2. CASE FindUser(c) \/ FindEmployee(c)
      BY <1>0, <2>1, <3>2 DEF FindUser, FindEmployee, Goes, GdprType, ErasedSoFar, rowVars, Left,
                              Rows, Data, UserData, EmployeeData
    <3>3. CASE DeleteNotifications(c)
      BY <2>1, <3>3 DEF DeleteNotifications, Goes, GdprType, ErasedSoFar, Left, Rows, UserData
    <3>4. CASE AnonymizeUser(c)
      BY <2>1, <3>4 DEF AnonymizeUser, Goes, GdprType, ErasedSoFar, Left, Data, UserData, EmployeeData
    <3>5. CASE EraseEmployee(c)
      <4>1. fulfil'[c].at = "consents" /\ "user" \notin Left
        BY <2>1, <3>5 DEF EraseEmployee, Goes, GdprType, ErasedSoFar
      <4>2. "employee" \notin Left'
        BY <3>5 DEF EraseEmployee, GdprType, Left, Data, UserData, EmployeeData
      <4> QED
        BY <1>0, <4>1, <4>2 DEF ErasedSoFar
    <3> QED
      BY <1>4, <3>1, <3>2, <3>3, <3>4, <3>5
  <2>6. to = "status" /\ from # "export" => Left' = {}
    <3> SUFFICES ASSUME to = "status", from # "export" PROVE Left' = {}
      OBVIOUS
    <3>1. DeleteConsents(c)
      BY <1>4, <2>1 DEF ExportZip, FindUser, DeleteNotifications, AnonymizeUser, FindEmployee,
                EraseEmployee, Goes, GdprType
    <3>2. "user" \notin Left /\ "employee" \notin Left
      BY <2>1, <3>1 DEF DeleteConsents, ErasedSoFar
    <3> QED
      BY <3>1, <3>2 DEF DeleteConsents, Left, GdprType, Rows, Data, UserData, EmployeeData
  <2>7. \A e \in Fulfilments \ {c} : ErasedSoFar(e)'
    BY <1>0, <2>2 DEF ErasedSoFar, UnderWay
  <2>8. FulfilledIsDone'
    BY <1>0, <2>2 DEF FulfilledIsDone, Left
  <2>9. ASSUME NEW e \in Fulfilments, UnderWay(e)'
        PROVE  /\ dsr'[fulfil'[e].dsr] # NoDsr
               /\ fulfil'[e].at \in ErasureSteps => dsr'[fulfil'[e].dsr].type = "ERASURE"
               /\ fulfil'[e].at = "export" => dsr'[fulfil'[e].dsr].type # "ERASURE"
               /\ fulfil'[e].at = "status" =>
                    IF dsr'[fulfil'[e].dsr].type = "ERASURE" THEN Left' = {}
                    ELSE fulfil'[e].dsr \in exported'
    <3>1. CASE e = c
      BY <2>1, <2>2, <2>3, <2>6, <3>1 DEF ErasureSteps
    <3>2. CASE e # c
      <4>1. fulfil'[e] = fulfil[e] /\ UnderWay(e)
        BY <2>2, <2>9, <3>2 DEF UnderWay
      <4> QED
        BY <1>0, <2>2, <4>1
    <3> QED
      BY <3>1, <3>2
  <2> QED
    BY <1>0, <2>2, <2>4, <2>5, <2>7, <2>8, <2>9
<1>5. ASSUME NEW c \in Fulfilments, MarkFulfilled(c) \/ FulfilmentFails(c)
      PROVE  GdprInv'
  <2>1. /\ Left' = Left /\ UNCHANGED <<named, held, since, exported>>
        /\ \A e \in Fulfilments \ {c} : fulfil'[e] = fulfil[e]
        /\ fulfil'[c] = CallOver
    BY <1>5 DEF MarkFulfilled, FulfilmentFails, rowVars, Left, GdprType
  <2>2. UnderWay(c)
    BY <1>5 DEF MarkFulfilled, FulfilmentFails, UnderWay, GdprType, NotCalled, CallOver, ErasureSteps
  <2>3. fulfil[c].dsr \in Dsrs
    BY <2>2 DEF UnderWay, GdprType, NotCalled, CallOver
  <2>4. \A d \in Dsrs : dsr'[d].type = dsr[d].type /\ (dsr[d] # NoDsr => dsr'[d] # NoDsr)
    BY <1>5, <2>2, <2>3 DEF MarkFulfilled, FulfilmentFails, GdprType, NoDsr
  <2>5. FulfilledIsDone'
    <3>1. \A d \in Dsrs : dsr'[d].status = "FULFILLED" =>
             dsr[d].status = "FULFILLED" \/ (d = fulfil[c].dsr /\ fulfil[c].at = "status")
      BY <1>5, <2>3 DEF MarkFulfilled, FulfilmentFails, GdprType
    <3> QED
      BY <2>1, <2>2, <2>4, <3>1 DEF FulfilledIsDone, Left
  <2>6. \A d \in Dsrs : dsr'[d] # NoDsr => dsr'[d].type \in {"ACCESS", "ERASURE"}
    <3>1. \A d \in Dsrs : dsr'[d] # NoDsr => dsr[d] # NoDsr
      BY <1>5, <2>2, <2>3 DEF MarkFulfilled, FulfilmentFails, GdprType
    <3> QED
      BY <2>4, <3>1
  <2>7. \A e \in Fulfilments : UnderWay(e)' => UnderWay(e) /\ fulfil'[e] = fulfil[e] /\ fulfil[e].dsr \in Dsrs
    BY <2>1 DEF UnderWay, CallOver, NotCalled, GdprType
  <2> QED
    BY <1>0, <2>1, <2>4, <2>5, <2>6, <2>7 DEF ErasedSoFar
<1> QED
  BY <1>1, <1>2, <1>3, <1>4, <1>5 DEF GdprNext, Fulfils

\* GdprService.fulfillRequest, for any number of requests, calls and faults: a
\* request is FULFILLED only when its archive is stored or when nothing is left
\* that was there before the first erasure, however the steps of several calls
\* mix, die half way, and meet new rows of the subject.
THEOREM FulfilledIsAlwaysDone == GdprSpec => []FulfilledIsDone
<1>1. GdprInv /\ [GdprNext]_gdprVars => GdprInv'
  <2> SUFFICES ASSUME GdprInv, [GdprNext]_gdprVars PROVE GdprInv'
    OBVIOUS
  <2>1. CASE UNCHANGED gdprVars
    BY <2>1 DEF gdprVars, GdprInv, GdprType, FulfilledIsDone, UnderWay, ErasedSoFar, Left
  <2> QED
    BY <2>1, GdprInvNext
<1>2. GdprInv => FulfilledIsDone
  BY DEF GdprInv
<1> QED
  BY GdprInitHolds, <1>1, <1>2, PTL DEF GdprSpec

-----------------------------------------------------------------------------
(* Forecasts                                                               *)

ForecastType ==
  /\ newestModel \in Trainings \cup {"none"}
  /\ predictions \in SUBSET [model : Trainings, by : Trainings]
  /\ training \in [Trainings ->
       {NotTrained, Trained} \cup [at : {"write", "delete", "create", "drop"}, model : Trainings]]
  /\ reading \in [Reads ->
       {NotRead, ReadOver} \cup
         [at : {"fetched"}, rows : SUBSET [model : Trainings, by : Trainings]]]
  /\ forecastFaults \in Nat

\* While trainings come one after another: every prediction belongs to the
\* newest model and to one training, a training works on the newest model, or
\* on the first one, and adds to none.
TrainingAlone ==
  "trainings" \notin races =>
    /\ \A s, t \in InTraining : s = t
    /\ \A p, q \in predictions : p.by = q.by
    /\ \A p \in predictions : p.model = newestModel
    /\ \A t \in InTraining :
         /\ newestModel # "none" => training[t].model = newestModel
         /\ training[t].at # "write" => newestModel # "none"
         /\ training[t].at = "create" => predictions = {}

\* While no training is under way, a read has fetched what the database holds.
ReadIsCurrent ==
  "read" \notin races /\ forecastFaults = 0 /\ InTraining = {} =>
    /\ cached \subseteq {predictions}
    /\ \A r \in Fetched : reading[r].rows = predictions

ForecastInv == ForecastType /\ TrainingAlone /\ ReadIsCurrent

\* A training that is under way.
LEMMA TrainingKinds ==
  ASSUME ForecastType, NEW t \in Trainings, training[t].at \notin {"none", "over"}
  PROVE  /\ training[t] \in [at : {"write", "delete", "create", "drop"}, model : Trainings]
         /\ t \in InTraining
BY DEF ForecastType, NotTrained, Trained, InTraining

LEMMA ForecastTypeNext ==
  ASSUME ForecastType, ForecastNext
  PROVE  ForecastType'
<1> USE DEF ForecastType
<1>1. ASSUME NEW t \in Trainings, FindModel(t)
      PROVE  ForecastType'
  BY <1>1 DEF FindModel
<1>2. ASSUME NEW t \in Trainings,
             WriteModel(t) \/ DeletePredictions(t) \/ CreatePredictions(t) \/ DropCache(t)
      PROVE  ForecastType'
  <2>1. training[t] \in [at : {"write", "delete", "create", "drop"}, model : Trainings]
    BY <1>2, TrainingKinds DEF WriteModel, DeletePredictions, CreatePredictions, DropCache
  <2>2. \A s \in {"write", "delete", "create", "drop"} :
          [training[t] EXCEPT !.at = s] \in [at : {"write", "delete", "create", "drop"}, model : Trainings]
    BY <2>1
  <2> QED
    BY <1>2, <2>1, <2>2 DEF WriteModel, DeletePredictions, CreatePredictions, DropCache
<1>3. ASSUME NEW t \in Trainings, TrainingFails(t)
      PROVE  ForecastType'
  BY <1>3 DEF TrainingFails
<1>4. ASSUME NEW r \in Reads, GetPredictions(r)
      PROVE  ForecastType'
  BY <1>4 DEF GetPredictions
<1>5. ASSUME NEW r \in Reads, CachePredictions(r)
      PROVE  ForecastType'
  BY <1>5 DEF CachePredictions
<1>6. CASE Expires
  BY <1>6 DEF Expires
<1> QED
  BY <1>1, <1>2, <1>3, <1>4, <1>5, <1>6 DEF ForecastNext, Trains

LEMMA TrainingAloneNext ==
  ASSUME ForecastType, TrainingAlone, ForecastNext
  PROVE  TrainingAlone'
<1> USE DEF TrainingAlone
<1>1. ASSUME NEW t \in Trainings, FindModel(t)
      PROVE  TrainingAlone'
  BY <1>1 DEF FindModel, InTraining, ForecastType, NotTrained, Trained
<1>2. ASSUME NEW t \in Trainings,
             WriteModel(t) \/ DeletePredictions(t) \/ CreatePredictions(t) \/ DropCache(t)
      PROVE  TrainingAlone'
  <2>1. /\ training[t] \in [at : {"write", "delete", "create", "drop"}, model : Trainings]
        /\ t \in InTraining
    BY <1>2, TrainingKinds DEF WriteModel, DeletePredictions, CreatePredictions, DropCache
  <2>2. /\ \A s \in Trainings \ {t} : training'[s] = training[s]
        /\ InTraining' \subseteq InTraining
        /\ t \in InTraining' => training'[t].model = training[t].model
    BY <1>2, <2>1 DEF WriteModel, DeletePredictions, CreatePredictions, DropCache, ForecastType,
                      InTraining, NotTrained, Trained
  <2>3. "trainings" \notin races' => "trainings" \notin races
    BY <1>2 DEF WriteModel, DeletePredictions, CreatePredictions, DropCache
  <2>4. SUFFICES ASSUME "trainings" \notin races
                 PROVE  /\ \A s, u \in InTraining' : s = u
                        /\ \A p, q \in predictions' : p.by = q.by
                        /\ \A p \in predictions' : p.model = newestModel'
                        /\ \A s \in InTraining' :
                             /\ newestModel' # "none" => training'[s].model = newestModel'
                             /\ training'[s].at # "write" => newestModel' # "none"
                             /\ training'[s].at = "create" => predictions' = {}
    BY <2>3
  <2>5. InTraining' \subseteq {t} /\ \A s, u \in InTraining' : s = u
    BY <2>1, <2>2, <2>4
  <2>6. CASE WriteModel(t)
    <3>1. /\ newestModel' = training[t].model /\ predictions' = predictions
          /\ training'[t].at = "delete"
      BY <2>1, <2>6 DEF WriteModel, ForecastType
    <3>2. \A p \in predictions : p.model = newestModel'
      BY <2>1, <2>4, <3>1, ForecastAssumption DEF ForecastType
    <3> QED
      BY <2>1, <2>2, <2>4, <2>5, <3>1, <3>2, ForecastAssumption
  <2>7. CASE DeletePredictions(t)
    <3>1. /\ predictions' = {p \in predictions : p.model # newestModel}
          /\ newestModel' = newestModel /\ training'[t].at = "create" /\ newestModel # "none"
      BY <2>1, <2>4, <2>7 DEF DeletePredictions, ForecastType
    <3> QED
      BY <2>1, <2>2, <2>4, <2>5, <3>1
  <2>8. CASE CreatePredictions(t)
    <3>1. /\ predictions' = {[model |-> newestModel, by |-> t]}
          /\ newestModel' = newestModel /\ training'[t].at = "drop" /\ newestModel # "none"
      BY <2>1, <2>4, <2>8 DEF CreatePredictions, ForecastType
    <3> QED
      BY <2>1, <2>2, <2>4, <2>5, <3>1
  <2>9. CASE DropCache(t)
    <3>1. UNCHANGED <<predictions, newestModel>> /\ training'[t] = Trained
      BY <2>9 DEF DropCache, ForecastType
    <3> QED
      BY <2>1, <2>2, <2>4, <2>5, <3>1 DEF InTraining
  <2> QED
    BY <1>2, <2>6, <2>7, <2>8, <2>9
<1>3. ASSUME NEW t \in Trainings, TrainingFails(t)
      PROVE  TrainingAlone'
  BY <1>3 DEF TrainingFails, InTraining, ForecastType
<1>4. ASSUME NEW r \in Reads, GetPredictions(r) \/ CachePredictions(r)
      PROVE  TrainingAlone'
  BY <1>4 DEF GetPredictions, CachePredictions, InTraining
<1>5. CASE Expires
  BY <1>5 DEF Expires, InTraining
<1> QED
  BY <1>1, <1>2, <1>3, <1>4, <1>5 DEF ForecastNext, Trains

LEMMA ReadIsCurrentNext ==
  ASSUME ForecastType, ReadIsCurrent, ForecastNext
  PROVE  ReadIsCurrent'
<1> USE DEF ReadIsCurrent
<1>1. ASSUME NEW t \in Trainings,
             FindModel(t) \/ WriteModel(t) \/ DeletePredictions(t) \/ CreatePredictions(t)
      PROVE  ReadIsCurrent'
  <2>1. training'[t] \notin {NotTrained, Trained}
    <3>1. CASE FindModel(t)
      BY <3>1 DEF FindModel, ForecastType, NotTrained, Trained
    <3>2. CASE WriteModel(t) \/ DeletePredictions(t) \/ CreatePredictions(t)
      <4>1. training'[t].at \in {"delete", "create", "drop"}
        BY <3>2, TrainingKinds DEF WriteModel, DeletePredictions, CreatePredictions, ForecastType
      <4> QED
        BY <4>1 DEF NotTrained, Trained
    <3> QED
      BY <1>1, <3>1, <3>2
  <2> QED
    BY <2>1 DEF InTraining
<1>2. ASSUME NEW t \in Trainings, DropCache(t)
      PROVE  ReadIsCurrent'
  BY <1>2 DEF DropCache, Uncached, Fetched
<1>3. ASSUME NEW t \in Trainings, TrainingFails(t)
      PROVE  ReadIsCurrent'
  BY <1>3 DEF TrainingFails, ForecastType
<1>4. ASSUME NEW r \in Reads, GetPredictions(r)
      PROVE  ReadIsCurrent'
  BY <1>4 DEF GetPredictions, Fetched, InTraining, ForecastType, ReadOver
<1>5. ASSUME NEW r \in Reads, CachePredictions(r)
      PROVE  ReadIsCurrent'
  BY <1>5 DEF CachePredictions, Fetched, InTraining, ForecastType, ReadOver
<1>6. CASE Expires
  BY <1>6 DEF Expires, Uncached, Fetched, InTraining
<1> QED
  BY <1>1, <1>2, <1>3, <1>4, <1>5, <1>6 DEF ForecastNext, Trains

\* ForecastService, for any number of trainings, reads and faults: without
\* trainings that meet, what is stored is the work of one training; and what is
\* cached is what is stored, unless a read was under way when a training ended.
THEOREM ForecastIsAlwaysLatest == ForecastSpec => []ForecastIsLatest
<1>1. ForecastInit => ForecastInv
  BY DEF ForecastInit, ForecastInv, ForecastType, TrainingAlone, ReadIsCurrent, InTraining, Fetched,
         NotTrained, NotRead, Uncached
<1>2. ForecastInv /\ [ForecastNext]_forecastVars => ForecastInv'
  <2> SUFFICES ASSUME ForecastInv, [ForecastNext]_forecastVars PROVE ForecastInv'
    OBVIOUS
  <2>1. CASE ForecastNext
    BY <2>1, ForecastTypeNext, TrainingAloneNext, ReadIsCurrentNext DEF ForecastInv
  <2>2. CASE UNCHANGED forecastVars
    BY <2>2 DEF forecastVars, ForecastInv, ForecastType, TrainingAlone, ReadIsCurrent, InTraining, Fetched
  <2> QED
    BY <2>1, <2>2
<1>3. ForecastInv => ForecastIsLatest
  <2> SUFFICES ASSUME ForecastInv PROVE ForecastIsLatest
    OBVIOUS
  <2>1. ASSUME "trainings" \notin races
        PROVE  Cardinality({p.by : p \in predictions}) <= 1
    <3>1. CASE predictions = {}
      BY <3>1, FS_EmptySet
    <3>2. CASE predictions # {}
      <4>1. PICK p \in predictions : TRUE
        BY <3>2
      <4>2. {q.by : q \in predictions} = {p.by}
        BY <2>1, <4>1 DEF ForecastInv, TrainingAlone
      <4>3. Cardinality({p.by}) = 1
        BY FS_Singleton
      <4> QED
        BY <4>2, <4>3
    <3> QED
      BY <3>1, <3>2
  <2> QED
    BY <2>1 DEF ForecastInv, ReadIsCurrent, ForecastIsLatest, PredictionsAreOneTraining, CachedIsCurrent
<1> QED
  BY <1>1, <1>2, <1>3, PTL DEF ForecastSpec

-----------------------------------------------------------------------------
(* The audit trail                                                         *)

TrailType ==
  /\ auditNow \in Nat
  /\ entry \in [Entries -> {Unmade, Made} \cup [at : {"insert"}, previous : Entries \cup {Genesis}]]
  /\ IsFiniteSet(DOMAIN log) /\ DOMAIN log \subseteq {e \in Entries : entry[e] = Made}
  /\ log \in [DOMAIN log -> [previous : Entries \cup {Genesis}, createdAt : 0 .. auditNow]]
  /\ erased \subseteq Entries \ DOMAIN log
  /\ \A e \in erased : entry[e] = Made

\* h is the hash of the newest of rows, if there is one.
Follows(h, rows) ==
  IF rows = {} THEN h = Genesis
  ELSE h \in rows /\ \A q \in rows : log[q].createdAt <= log[h].createdAt

Older(r) == {q \in DOMAIN log : log[q].createdAt < log[r].createdAt}

\* While calls come one after another and nobody deletes a row, the rows form
\* one chain by time and the call under way has read its end.
ChainInOrder ==
  ~forked /\ erased = {} =>
    /\ \A d, e \in InFlight : d = e
    /\ \A q, r \in DOMAIN log : log[q].createdAt = log[r].createdAt => q = r
    /\ \A r \in DOMAIN log : Follows(log[r].previous, Older(r))
    /\ \A e \in InFlight : Follows(entry[e].previous, DOMAIN log)

TrailInv == TrailType /\ ChainInOrder /\ TrailTellsTruth

\* An order by time lists every row.
LEMMA OrderListsAll ==
  ASSUME IsFiniteSet(DOMAIN log), NEW f \in Orders
  PROVE  /\ DOMAIN f = 1 .. Cardinality(DOMAIN log) /\ Cardinality(DOMAIN log) \in Nat
         /\ \A i \in DOMAIN f : f[i] \in DOMAIN log
         /\ \A r \in DOMAIN log : \E i \in DOMAIN f : f[i] = r
<1> DEFINE n == Cardinality(DOMAIN log)
<1>1. n \in Nat
  BY FS_CardinalityType
<1>2. f \in [1 .. n -> DOMAIN log] /\ DOMAIN f = 1 .. n
  BY DEF Orders
<1>3. \A i, j \in 1 .. n : f[i] = f[j] => i = j
  BY <1>2 DEF Orders
<1>4. f \in Injection(1 .. n, DOMAIN log)
  BY <1>2, <1>3, Fun_IsInj
<1>5. Cardinality(1 .. n) = n
  <2>1. Cardinality(1 .. n) = IF 1 > n THEN 0 ELSE n - 1 + 1
    BY <1>1, FS_Interval
  <2> QED
    BY <1>1, <2>1
<1>6. f \in Surjection(1 .. n, DOMAIN log)
  BY <1>4, <1>5, FS_Injection
<1> QED
  BY <1>1, <1>2, <1>6, Fun_SurjectionProperties

LEMMA ChainVerifies ==
  ASSUME TrailType, ChainInOrder, ~forked, erased = {}, NEW f \in Orders
  PROVE  Links(f)
<1>1. /\ DOMAIN f = 1 .. Cardinality(DOMAIN log) /\ Cardinality(DOMAIN log) \in Nat
      /\ \A i \in DOMAIN f : f[i] \in DOMAIN log
      /\ \A r \in DOMAIN log : \E i \in DOMAIN f : f[i] = r
  BY OrderListsAll DEF TrailType
<1>2. \A r \in DOMAIN log : log[r].createdAt \in Nat
  BY DEF TrailType
<1>3. \A i, j \in DOMAIN f : i < j => log[f[i]].createdAt < log[f[j]].createdAt
  <2> SUFFICES ASSUME NEW i \in DOMAIN f, NEW j \in DOMAIN f, i < j
               PROVE  log[f[i]].createdAt < log[f[j]].createdAt
    OBVIOUS
  <2>1. i # j
    BY <1>1
  <2>2. f[i] # f[j] /\ log[f[i]].createdAt <= log[f[j]].createdAt
    BY <2>1 DEF Orders
  <2>3. log[f[i]].createdAt # log[f[j]].createdAt
    BY <1>1, <2>2 DEF ChainInOrder
  <2> QED
    BY <1>1, <1>2, <2>2, <2>3
<1> SUFFICES ASSUME NEW i \in DOMAIN f
             PROVE  log[f[i]].previous = IF i = 1 THEN Genesis ELSE f[i - 1]
  BY DEF Links
<1>4. Follows(log[f[i]].previous, Older(f[i]))
  BY <1>1 DEF ChainInOrder
<1>5. CASE i = 1
  <2>1. Older(f[i]) = {}
    <3> SUFFICES ASSUME NEW q \in Older(f[i]) PROVE FALSE
      OBVIOUS
    <3>1. PICK j \in DOMAIN f : f[j] = q
      BY <1>1 DEF Older
    <3>2. log[f[j]].createdAt < log[f[1]].createdAt
      BY <1>5, <3>1 DEF Older
    <3>3. j = 1 \/ 1 < j
      BY <1>1
    <3> QED
      BY <1>1, <1>2, <1>3, <1>5, <3>2, <3>3
  <2> QED
    BY <1>4, <1>5, <2>1 DEF Follows
<1>6. CASE i # 1
  <2>1. i - 1 \in DOMAIN f /\ i - 1 < i
    BY <1>1, <1>6
  <2>2. f[i - 1] \in Older(f[i])
    BY <1>1, <1>3, <2>1 DEF Older
  <2> DEFINE h == log[f[i]].previous
  <2>3. /\ h \in DOMAIN log /\ log[h].createdAt < log[f[i]].createdAt
        /\ log[f[i - 1]].createdAt <= log[h].createdAt
    BY <1>4, <2>2 DEF Follows, Older
  <2>4. PICK j \in DOMAIN f : f[j] = h
    BY <1>1, <2>3
  <2> HIDE DEF h
  <2>5. ~(i < j) /\ i # j
    BY <1>1, <1>2, <1>3, <2>3, <2>4
  <2>6. ~(j < i - 1)
    BY <1>1, <1>2, <1>3, <2>1, <2>3, <2>4
  <2>7. j = i - 1
    BY <1>1, <2>1, <2>5, <2>6
  <2> QED
    BY <1>6, <2>4, <2>7 DEF h
<1> QED
  BY <1>5, <1>6

LEMMA TrailTypeNext ==
  ASSUME TrailType, AuditNext
  PROVE  TrailType'
<1> USE DEF TrailType
<1>1. ASSUME NEW e \in Entries, RecordRead(e)
      PROVE  TrailType'
  <2>1. PICK h \in Entries \cup {Genesis} : entry' = [entry EXCEPT ![e] = [at |-> "insert", previous |-> h]]
    BY <1>1 DEF RecordRead
  <2>2. e \notin DOMAIN log /\ e \notin erased
    BY <1>1 DEF RecordRead, Unmade, Made
  <2> QED
    BY <1>1, <2>1, <2>2 DEF RecordRead
<1>2. ASSUME NEW e \in Entries, RecordInsert(e)
      PROVE  TrailType'
  <2>1. entry[e] \in [at : {"insert"}, previous : Entries \cup {Genesis}] /\ entry' = [entry EXCEPT ![e] = Made]
    BY <1>2 DEF RecordInsert, Unmade, Made
  <2>2. /\ DOMAIN log' = DOMAIN log \cup {e} /\ IsFiniteSet(DOMAIN log') /\ e \notin erased
        /\ log' \in [DOMAIN log' -> [previous : Entries \cup {Genesis}, createdAt : 0 .. auditNow]]
    BY <1>2, <2>1, FS_AddElement DEF RecordInsert, Made
  <2> QED
    BY <1>2, <2>1, <2>2 DEF RecordInsert
<1>3. ASSUME NEW e \in Entries, RecordFails(e)
      PROVE  TrailType'
  BY <1>3 DEF RecordFails
<1>4. ASSUME NEW e \in Entries, EraseRow(e)
      PROVE  TrailType'
  <2>1. DOMAIN log' = DOMAIN log \ {e} /\ IsFiniteSet(DOMAIN log')
    BY <1>4, FS_RemoveElement DEF EraseRow
  <2> QED
    BY <1>4, <2>1 DEF EraseRow
<1>5. CASE VerifyIntegrity
  BY <1>5 DEF VerifyIntegrity
<1>6. CASE MillisecondPasses
  BY <1>6 DEF MillisecondPasses
<1> QED
  BY <1>1, <1>2, <1>3, <1>4, <1>5, <1>6 DEF AuditNext

LEMMA ChainInOrderNext ==
  ASSUME TrailType, ChainInOrder, AuditNext
  PROVE  ChainInOrder'
<1> SUFFICES ASSUME ~forked', erased' = {}
             PROVE  /\ \A d, e \in InFlight' : d = e
                    /\ \A q, r \in DOMAIN log' : log'[q].createdAt = log'[r].createdAt => q = r
                    /\ \A r \in DOMAIN log' : Follows(log[r].previous, Older(r))'
                    /\ \A e \in InFlight' : Follows(entry[e].previous, DOMAIN log)'
  BY DEF ChainInOrder
<1>0. \A e \in InFlight : e \notin DOMAIN log
  BY DEF InFlight, TrailType, Made
<1>1. ASSUME NEW e \in Entries, RecordRead(e)
      PROVE  ChainInOrder'
  <2>1. /\ UNCHANGED <<log, erased>> /\ ~forked /\ erased = {} /\ InFlight = {}
    BY <1>1 DEF RecordRead
  <2>2. PICK h : /\ entry' = [entry EXCEPT ![e] = [at |-> "insert", previous |-> h]]
                 /\ h \in IF log = [r \in {} |-> Unmade] THEN {Genesis}
                          ELSE {r \in DOMAIN log : Newest(r)}
    BY <1>1 DEF RecordRead
  <2>3. InFlight' = {e} /\ entry'[e].previous = h
    BY <2>1, <2>2 DEF InFlight, TrailType
  <2>4. Follows(h, DOMAIN log)
    <3>1. CASE DOMAIN log = {}
      <4>1. log = [r \in {} |-> Unmade]
        BY <3>1 DEF TrailType
      <4> QED
        BY <2>2, <3>1, <4>1 DEF Follows
    <3>2. CASE DOMAIN log # {}
      <4>1. log # [r \in {} |-> Unmade]
        BY <3>2
      <4> QED
        BY <2>2, <3>2, <4>1 DEF Follows, Newest
    <3> QED
      BY <3>1, <3>2
  <2>5. \A r \in DOMAIN log : Follows(log[r].previous, Older(r))'
    BY <2>1 DEF ChainInOrder, Follows, Older
  <2>6. Follows(entry[e].previous, DOMAIN log)'
    BY <2>1, <2>3, <2>4 DEF Follows
  <2> QED
    BY <2>1, <2>3, <2>5, <2>6 DEF ChainInOrder
<1>2. ASSUME NEW e \in Entries, RecordInsert(e)
      PROVE  ChainInOrder'
  <2>1. /\ ~forked /\ erased = {} /\ \A r \in DOMAIN log : log[r].createdAt # auditNow
        /\ e \in InFlight
    BY <1>2 DEF RecordInsert, InFlight
  <2>2. InFlight' = {}
    BY <1>2, <2>1 DEF RecordInsert, InFlight, TrailType, ChainInOrder, Made
  <2>3. /\ DOMAIN log' = DOMAIN log \cup {e} /\ e \notin DOMAIN log
        /\ \A r \in DOMAIN log : log'[r] = log[r] /\ log[r].createdAt \in Nat /\ log[r].createdAt < auditNow
        /\ log'[e].previous = entry[e].previous /\ log'[e].createdAt = auditNow
    BY <1>0, <1>2, <2>1 DEF RecordInsert, TrailType
  <2>4. Older(e)' = DOMAIN log
    BY <2>3 DEF Older, TrailType
  <2>5. \A r \in DOMAIN log : Older(r)' = Older(r)
    BY <2>3 DEF Older, TrailType
  <2>6. Follows(log[e].previous, Older(e))'
    BY <2>1, <2>3, <2>4 DEF ChainInOrder, Follows
  <2>7. ASSUME NEW r \in DOMAIN log
        PROVE  Follows(log[r].previous, Older(r))'
    <3>1. Follows(log[r].previous, Older(r)) /\ Older(r) \subseteq DOMAIN log
      BY <2>1 DEF ChainInOrder, Older
    <3> QED
      BY <2>3, <2>5, <3>1 DEF Follows
  <2>8. \A q, r \in DOMAIN log' : log'[q].createdAt = log'[r].createdAt => q = r
    BY <2>1, <2>3 DEF ChainInOrder
  <2> QED
    BY <2>2, <2>3, <2>6, <2>7, <2>8 DEF ChainInOrder
<1>3. ASSUME NEW e \in Entries, RecordFails(e)
      PROVE  ChainInOrder'
  <2>1. /\ UNCHANGED <<log, forked, erased>> /\ InFlight' \subseteq InFlight
        /\ \A d \in InFlight' : entry'[d] = entry[d]
    BY <1>3 DEF RecordFails, InFlight, TrailType, Made
  <2> QED
    BY <2>1 DEF ChainInOrder, Follows, Older
<1>4. ASSUME NEW e \in Entries, EraseRow(e)
      PROVE  FALSE
  BY <1>4 DEF EraseRow
<1>5. CASE VerifyIntegrity \/ MillisecondPasses
  BY <1>5 DEF VerifyIntegrity, MillisecondPasses, ChainInOrder, InFlight, Follows, Older
<1> QED
  BY <1>1, <1>2, <1>3, <1>4, <1>5 DEF AuditNext, ChainInOrder

\* verifyIntegrity answers about an order of all the rows.
LEMMA AnswerIsTrue ==
  ASSUME TrailType, ChainInOrder, TrailTellsTruth, AuditNext
  PROVE  TrailTellsTruth'
<1> USE DEF TrailTellsTruth, SerialChainVerifies, ErasureIsSeen
<1>1. ASSUME NEW e \in Entries, RecordRead(e) \/ RecordFails(e)
      PROVE  TrailTellsTruth'
  BY <1>1 DEF RecordRead, RecordFails
<1>2. ASSUME NEW e \in Entries, RecordInsert(e) \/ EraseRow(e)
      PROVE  TrailTellsTruth'
  BY <1>2 DEF RecordInsert, EraseRow
<1>3. CASE MillisecondPasses
  BY <1>3 DEF MillisecondPasses
<1>4. CASE VerifyIntegrity
  <2>1. PICK f \in Orders : verdict' = IF Links(f) THEN "valid" ELSE "broken"
    BY <1>4 DEF VerifyIntegrity
  <2>2. UNCHANGED <<log, forked, erased>>
    BY <1>4 DEF VerifyIntegrity
  <2>3. SerialChainVerifies'
    BY <2>1, <2>2, ChainVerifies
  <2>4. ASSUME Links(f), NEW r \in DOMAIN log
        PROVE  log[r].previous \notin erased
    <3>1. /\ DOMAIN f = 1 .. Cardinality(DOMAIN log) /\ Cardinality(DOMAIN log) \in Nat
          /\ \A i \in DOMAIN f : f[i] \in DOMAIN log
          /\ \A q \in DOMAIN log : \E i \in DOMAIN f : f[i] = q
      BY OrderListsAll DEF TrailType
    <3>2. PICK i \in DOMAIN f : f[i] = r
      BY <3>1
    <3>3. log[r].previous = IF i = 1 THEN Genesis ELSE f[i - 1]
      BY <2>4, <3>2 DEF Links
    <3>4. CASE i = 1
      BY <3>3, <3>4, AuditAssumption DEF TrailType
    <3>5. CASE i # 1
      <4>1. i - 1 \in DOMAIN f
        BY <3>1, <3>5
      <4> QED
        BY <3>1, <3>3, <3>5, <4>1 DEF TrailType
    <3> QED
      BY <3>4, <3>5
  <2> QED
    BY <2>1, <2>2, <2>3, <2>4
<1> QED
  BY <1>1, <1>2, <1>3, <1>4 DEF AuditNext

\* AuditService.record and verifyIntegrity, for any number of entries and faults:
\* a log that no two calls wrote at once and nobody touched verifies, and one
\* from which an entry is missing that another is chained to does not.
THEOREM TrailAlwaysTellsTruth == AuditSpec => []TrailTellsTruth
<1>1. AuditInit => TrailInv
  <2> SUFFICES ASSUME AuditInit PROVE TrailInv
    OBVIOUS
  <2>1. DOMAIN log = {} /\ InFlight = {}
    BY DEF AuditInit, InFlight, Unmade
  <2>2. TrailType
    BY <2>1, FS_EmptySet DEF AuditInit, TrailType
  <2> QED
    BY <2>1, <2>2 DEF AuditInit, TrailInv, ChainInOrder, TrailTellsTruth, SerialChainVerifies, ErasureIsSeen
<1>2. TrailInv /\ [AuditNext]_auditVars => TrailInv'
  <2> SUFFICES ASSUME TrailInv, [AuditNext]_auditVars PROVE TrailInv'
    OBVIOUS
  <2>1. CASE AuditNext
    BY <2>1, TrailTypeNext, ChainInOrderNext, AnswerIsTrue DEF TrailInv
  <2>2. CASE UNCHANGED auditVars
    BY <2>2 DEF auditVars, TrailInv, TrailType, ChainInOrder, Follows, Older, InFlight,
                TrailTellsTruth, SerialChainVerifies, ErasureIsSeen
  <2> QED
    BY <2>1, <2>2
<1>3. TrailInv => TrailTellsTruth
  BY DEF TrailInv
<1> QED
  BY <1>1, <1>2, <1>3, PTL DEF AuditSpec

-----------------------------------------------------------------------------
(* Replenishment                                                           *)

RuleSet == {Rules[i] : i \in DOMAIN Rules}

OrderRecord ==
  [product : Goods, vendor : Vendors \cup {NoVendor}, quantity : Nat,
   status : {"DRAFT", "SUBMITTED", "APPROVED", "RECEIVED", "CANCELLED"},
   requisition : BuyRequests \cup {Manual}, complete : BOOLEAN, by : BuyRequests \cup {Manual}]

Usual == [Goods -> Vendors \cup {NoVendor}]
Run == [pc : {"rule", "draft"}, left : Seq(RuleSet) \ {<<>>}, onHand : [Goods -> Int],
        usual : Usual]
ForProduct == [pc : {"find", "require", "material"}, product : Goods]

BuyType ==
  /\ onHand \in [Goods -> Int]
  /\ orders \in Seq(OrderRecord)
  /\ buy \in [BuyRequests -> {NotAsked, Answered} \cup Run \cup ForProduct]
  /\ DOMAIN wanted \subseteq {r \in BuyRequests : buy[r] = Answered}
  /\ wanted \in [DOMAIN wanted -> [product : Goods, project : BOOLEAN]]

\* The vendor a run takes for a product, and what it has drafted with one.
VendorFor(r, g) == buy[r].usual[g]
OwnDrafts(g, v, r) == {o \in Drafts(g, v) : orders[o].by = r}
LowStock(g) == {r \in Unordered(g) : ~wanted[r].project}
Running == Active("rule") \cup Active("draft")
Asking(g) == {r \in Active("find") \cup Active("require") : buy[r].product = g}

\* A run drafts an order only where it has drafted none.
OwnDraftsAreSingle ==
  \A g \in Goods, r \in BuyRequests :
    /\ buy[r].pc = "draft" /\ Head(buy[r].left).product = g =>
         \A v : v = VendorFor(r, g) => OwnDrafts(g, v, r) = {}
    /\ \A v \in Vendors \cup {NoVendor} : \A o, p \in OwnDrafts(g, v, r) : o = p

\* One run is at a product's rules, and drafts an order only where none is.
DraftsAreSingle ==
  \A g \in Goods \ crossed :
    /\ g \in RuleProducts => \A q, r \in Running : q = r
    /\ \A r \in Active("draft") :
         Head(buy[r].left).product = g => \A v : v = VendorFor(r, g) => Drafts(g, v) = {}
    /\ \A v \in Vendors \cup {NoVendor} : \A o, p \in Drafts(g, v) : o = p

\* One request is about a product, and requires it only where no requisition is.
RequisitionsAreSingle ==
  \A g \in Goods \ crossed :
    /\ \A q, r \in Asking(g) : q = r
    /\ \A r \in Active("require") : buy[r].product = g => LowStock(g) = {}
    /\ \A q, r \in LowStock(g) : q = r

BuyInv == BuyType /\ OwnDraftsAreSingle /\ DraftsAreSingle /\ RequisitionsAreSingle

LEMMA VendorStays ==
  ASSUME NEW q, buy'[q] = buy[q]
  PROVE  \A g : VendorFor(q, g)' = VendorFor(q, g)
BY DEF VendorFor

LEMMA RunKinds ==
  ASSUME BuyType, NEW r \in BuyRequests
  PROVE  /\ buy[r].pc \in {"rule", "draft"} => buy[r] \in Run
         /\ buy[r].pc \in {"find", "require", "material"} => buy[r] \in ForProduct
BY DEF BuyType, Run, ForProduct, NotAsked, Answered

LEMMA GoOnKinds ==
  ASSUME NEW left \in Seq(RuleSet), NEW stock \in [Goods -> Int], NEW vendors \in Usual
  PROVE  GoOn(left, stock, vendors) \in {Answered} \cup {s \in Run : s.pc = "rule"}
BY DEF GoOn, Run

LEMMA RulesKinds ==
  /\ Rules \in Seq(RuleSet)
  /\ \A rule \in RuleSet : rule.product \in RuleProducts /\ rule.product \in Goods /\ rule.quantity \in Nat
<1>1. Rules \in Seq([product : Goods, threshold : Int, quantity : Nat])
  BY ReplenishmentAssumption
<1>2. Len(Rules) \in Nat /\ DOMAIN Rules = 1 .. Len(Rules) /\ \A i \in 1 .. Len(Rules) : Rules[i] \in RuleSet
  BY <1>1, LenProperties DEF RuleSet
<1>3. Rules \in Seq(RuleSet)
  <2>1. SubSeq(Rules, 1, Len(Rules)) \in Seq(RuleSet)
    BY <1>2, SubSeqProperties
  <2> QED
    BY <1>1, <2>1, SubSeqFull
<1>4. \A i \in DOMAIN Rules : Rules[i] \in [product : Goods, threshold : Int, quantity : Nat]
  BY <1>1, <1>2, ElementOfSeq
<1> QED
  BY <1>3, <1>4 DEF RuleSet, RuleProducts

\* The run that is at a rule.
LEMMA NextRule ==
  ASSUME BuyType, NEW r \in BuyRequests, buy[r].pc \in {"rule", "draft"}
  PROVE  /\ Head(buy[r].left) \in RuleSet
         /\ After(r) \in {Answered} \cup {s \in Run : s.pc = "rule"}
         /\ VendorFor(r, Head(buy[r].left).product) \in Vendors \cup {NoVendor}
<1>1. /\ buy[r].left \in Seq(RuleSet) /\ buy[r].left # <<>> /\ buy[r].onHand \in [Goods -> Int]
      /\ buy[r].usual \in Usual
  BY RunKinds DEF Run
<1>2. Head(buy[r].left) \in RuleSet /\ Tail(buy[r].left) \in Seq(RuleSet)
  BY <1>1, HeadTailProperties
<1> QED
  BY <1>1, <1>2, GoOnKinds, RulesKinds DEF After, VendorFor, Usual

LEMMA OrderAppends ==
  ASSUME orders \in Seq(OrderRecord), NEW g \in Goods, NEW n \in Nat,
         NEW v \in Vendors \cup {NoVendor},
         NEW status \in {"DRAFT", "SUBMITTED"}, NEW source \in BuyRequests \cup {Manual},
         NEW by \in BuyRequests \cup {Manual},
         Order(g, v, n, status, source, by)
  PROVE  /\ orders' \in Seq(OrderRecord)
         /\ DOMAIN orders' = DOMAIN orders \cup {Len(orders) + 1}
         /\ \A o \in DOMAIN orders : orders'[o] = orders[o]
         /\ orders'[Len(orders) + 1].product = g /\ orders'[Len(orders) + 1].status = status
         /\ orders'[Len(orders) + 1].requisition = source
         /\ orders'[Len(orders) + 1].vendor = v /\ orders'[Len(orders) + 1].by = by
<1> DEFINE new == [product |-> g, vendor |-> v, quantity |-> n, status |-> status,
                   requisition |-> source, complete |-> FALSE, by |-> by]
<1>1. new \in OrderRecord
  BY DEF OrderRecord
<1>2. orders' = Append(orders, new)
  BY DEF Order
<1>3. /\ Len(orders) \in Nat /\ DOMAIN orders = 1 .. Len(orders)
  BY LenProperties
<1> HIDE DEF new
<1>4. /\ orders' \in Seq(OrderRecord) /\ Len(orders') = Len(orders) + 1
      /\ \A i \in 1 .. Len(orders) : orders'[i] = orders[i]
      /\ orders'[Len(orders) + 1] = new
  BY <1>1, <1>2
<1>5. DOMAIN orders' = 1 .. (Len(orders) + 1)
  BY <1>4, LenProperties
<1> QED
  BY <1>3, <1>4, <1>5 DEF new

\* What is done to orders by hand.
OrdersMove ==
  \/ \E g \in Goods, v \in Vendors, s \in {Manual} \cup DOMAIN wanted : PlaceOrder(g, v, s)
  \/ \E o \in DOMAIN orders : ApproveOrder(o) \/ CancelOrder(o) \/ ReceiveOrder(o)

LEMMA BuyTypeNext ==
  ASSUME BuyType, ReplenishmentNext
  PROVE  BuyType'
<1> USE DEF BuyType, Step
<1>1. ASSUME NEW r \in BuyRequests, NEW vendors \in Usual,
             ReorderStart(r, vendors) \/ ReorderRule(r)
      PROVE  BuyType'
  <2>1. PICK s \in {Answered} \cup Run : buy' = [buy EXCEPT ![r] = s]
    <3>1. CASE ReorderStart(r, vendors)
      BY <3>1, GoOnKinds, RulesKinds DEF ReorderStart
    <3>2. CASE ReorderRule(r)
      <4>1. [buy[r] EXCEPT !.pc = "draft"] \in Run /\ After(r) \in {Answered} \cup Run
        BY <3>2, RunKinds, NextRule DEF ReorderRule, Run
      <4> QED
        BY <3>2, <4>1 DEF ReorderRule
    <3> QED
      BY <1>1, <3>1, <3>2
  <2>2. UNCHANGED <<onHand, orders, wanted>> /\ buy[r] # Answered
    BY <1>1 DEF ReorderStart, ReorderRule, NotAsked, Answered
  <2> QED
    BY <2>1, <2>2
<1>2. ASSUME NEW r \in BuyRequests, ReorderDraft(r)
      PROVE  BuyType'
  <2>1. /\ Head(buy[r].left) \in RuleSet /\ After(r) \in {Answered} \cup Run
        /\ buy[r].usual[Head(buy[r].left).product] \in Vendors \cup {NoVendor}
    BY <1>2, NextRule DEF ReorderDraft, VendorFor
  <2>2. orders' \in Seq(OrderRecord)
    BY <1>2, <2>1, RulesKinds, OrderAppends DEF ReorderDraft
  <2> QED
    BY <1>2, <2>1, <2>2 DEF ReorderDraft, Answered
<1>3. ASSUME NEW r \in BuyRequests, ReorderFails(r)
      PROVE  BuyType'
  BY <1>3 DEF ReorderFails, Answered
<1>4. ASSUME NEW r \in BuyRequests, NEW g \in Goods, LowStockRead(r, g) \/ RequestMaterial(r, g)
      PROVE  BuyType'
  <2>1. PICK s \in ForProduct : buy' = [buy EXCEPT ![r] = s]
    BY <1>4 DEF LowStockRead, RequestMaterial, ForProduct
  <2>2. UNCHANGED <<onHand, orders, wanted>> /\ buy[r] # Answered
    BY <1>4 DEF LowStockRead, RequestMaterial, NotAsked, Answered
  <2> QED
    BY <2>1, <2>2
<1>5. ASSUME NEW r \in BuyRequests, LowStockFind(r)
      PROVE  BuyType'
  <2>1. buy[r] \in ForProduct /\ [buy[r] EXCEPT !.pc = "require"] \in ForProduct
    BY <1>5, RunKinds DEF LowStockFind, ForProduct
  <2> QED
    BY <1>5, <2>1 DEF LowStockFind, ForProduct, Answered
<1>6. ASSUME NEW r \in BuyRequests, LowStockRequire(r) \/ CreateFromMaterial(r)
      PROVE  BuyType'
  <2>1. buy[r] \in ForProduct
    BY <1>6, RunKinds DEF LowStockRequire, CreateFromMaterial
  <2> QED
    <3>1. UNCHANGED <<onHand, orders>> /\ buy' = [buy EXCEPT ![r] = Answered]
      BY <1>6 DEF LowStockRequire, CreateFromMaterial
    <3>2. PICK forProject \in BOOLEAN : Require(r, buy[r].product, forProject)
      BY <1>6 DEF LowStockRequire, CreateFromMaterial
    <3>3. /\ DOMAIN wanted' = DOMAIN wanted \cup {r}
          /\ wanted' \in [DOMAIN wanted' -> [product : Goods, project : BOOLEAN]]
      BY <2>1, <3>2 DEF Require, ForProduct
    <3> QED
      BY <3>1, <3>3
<1>7. ASSUME NEW g \in Goods, NEW v \in Vendors, NEW s \in {Manual} \cup DOMAIN wanted,
             PlaceOrder(g, v, s)
      PROVE  BuyType'
  BY <1>7, OrderAppends DEF PlaceOrder
<1>8. ASSUME NEW g \in Goods, UseStock(g)
      PROVE  BuyType'
  BY <1>8 DEF UseStock
<1>9. ASSUME NEW o \in DOMAIN orders, ApproveOrder(o) \/ CancelOrder(o) \/ ReceiveOrder(o)
      PROVE  BuyType'
  <2>1. o \in 1 .. Len(orders) /\ orders[o] \in OrderRecord
    BY LenProperties, ElementOfSeq
  <2>2. /\ \A status \in {"APPROVED", "CANCELLED"} : [orders[o] EXCEPT !.status = status] \in OrderRecord
        /\ [orders[o] EXCEPT !.status = "RECEIVED", !.complete = TRUE] \in OrderRecord
    BY <2>1 DEF OrderRecord
  <2>3. orders' \in Seq(OrderRecord)
    <3>1. CASE ApproveOrder(o) \/ CancelOrder(o)
      <4>1. PICK status \in {"APPROVED", "CANCELLED"} :
              orders' = [orders EXCEPT ![o] = [orders[o] EXCEPT !.status = status]]
        BY <2>1, <3>1 DEF ApproveOrder, CancelOrder, Become
      <4> QED
        BY <2>1, <2>2, <4>1, ExceptSeq
    <3>2. CASE ReceiveOrder(o)
      <4>1. orders' = [orders EXCEPT ![o] = [orders[o] EXCEPT !.status = "RECEIVED", !.complete = TRUE]]
        BY <2>1, <3>2 DEF ReceiveOrder
      <4> QED
        BY <2>1, <2>2, <4>1, ExceptSeq
    <3> QED
      BY <1>9, <3>1, <3>2
  <2>4. onHand' \in [Goods -> Int]
    BY <1>9, <2>1 DEF ApproveOrder, CancelOrder, ReceiveOrder, OrderRecord
  <2> QED
    BY <1>9, <2>3, <2>4 DEF ApproveOrder, CancelOrder, ReceiveOrder
<1>10. CASE CloseProject
  BY <1>10 DEF CloseProject
<1> HIDE DEF BuyType, Step
<1>11. ASSUME OrdersMove PROVE BuyType'
  BY <1>7, <1>9, <1>11 DEF OrdersMove
<1>12. [g \in Goods |-> NoVendor] \in Usual
  BY DEF Usual
<1> QED
  BY <1>1, <1>2, <1>3, <1>4, <1>5, <1>6, <1>8, <1>10, <1>11, <1>12
     DEF ReplenishmentNext, OrdersMove, Usual

\* No order becomes a draft, and none changes whose it is.
FewerDrafts ==
  \A g, v : /\ Drafts(g, v)' \subseteq Drafts(g, v)
            /\ \A r : OwnDrafts(g, v, r)' \subseteq OwnDrafts(g, v, r)

LEMMA OrdersStay == ASSUME UNCHANGED orders PROVE FewerDrafts
BY DEF FewerDrafts, OwnDrafts, Drafts

\* It makes no draft.
LEMMA MovesMakeNoDraft ==
  ASSUME BuyType, OrdersMove
  PROVE  FewerDrafts /\ UNCHANGED <<buy, crossed>>
<1> USE DEF BuyType
<1>1. ASSUME NEW g \in Goods, NEW v \in Vendors, NEW s \in {Manual} \cup DOMAIN wanted,
             PlaceOrder(g, v, s)
      PROVE  FewerDrafts /\ UNCHANGED <<buy, crossed>>
  <2>1. /\ DOMAIN orders' = DOMAIN orders \cup {Len(orders) + 1}
        /\ \A o \in DOMAIN orders : orders'[o] = orders[o]
        /\ orders'[Len(orders) + 1].status = "SUBMITTED"
    BY <1>1, OrderAppends DEF PlaceOrder
  <2> QED
    BY <1>1, <2>1 DEF PlaceOrder, Drafts, OwnDrafts, FewerDrafts
<1>2. ASSUME NEW o \in DOMAIN orders, ApproveOrder(o) \/ CancelOrder(o) \/ ReceiveOrder(o)
      PROVE  FewerDrafts /\ UNCHANGED <<buy, crossed>>
  <2>1. o \in 1 .. Len(orders) /\ DOMAIN orders = 1 .. Len(orders) /\ orders[o] \in OrderRecord
    BY LenProperties, ElementOfSeq
  <2>2. /\ DOMAIN orders' = DOMAIN orders /\ \A p \in DOMAIN orders \ {o} : orders'[p] = orders[p]
        /\ orders'[o].status # "DRAFT"
    BY <1>2, <2>1 DEF ApproveOrder, CancelOrder, ReceiveOrder, Become, OrderRecord
  <2> QED
    BY <1>2, <2>2 DEF ApproveOrder, CancelOrder, ReceiveOrder, Drafts, OwnDrafts, FewerDrafts
<1> QED
  BY <1>1, <1>2 DEF OrdersMove

\* A step of one request that adds no order and starts no run: the runs keep
\* what they have, and only r can come to draft.
LEMMA DraftsStay ==
  ASSUME DraftsAreSingle, NEW r \in BuyRequests,
         \A q \in BuyRequests \ {r} : buy'[q] = buy[q],
         buy'[r].pc \notin {"rule", "draft"},
         crossed \subseteq crossed', FewerDrafts
  PROVE  DraftsAreSingle'
BY VendorStays DEF DraftsAreSingle, Running, Active, FewerDrafts

LEMMA DraftsAreSingleNext ==
  ASSUME BuyType, DraftsAreSingle, ReplenishmentNext
  PROVE  DraftsAreSingle'
<1> USE DEF BuyType, Step
<1>1. ASSUME NEW r \in BuyRequests, NEW vendors \in Usual, ReorderStart(r, vendors)
      PROVE  DraftsAreSingle'
  <2>1. buy'[r] \in {Answered} \cup {s \in Run : s.pc = "rule"}
    BY <1>1, GoOnKinds, RulesKinds DEF ReorderStart
  <2>2. /\ \A q \in BuyRequests \ {r} : buy'[q] = buy[q]
        /\ orders' = orders /\ crossed \subseteq crossed'
        /\ Running # {} => RuleProducts \subseteq crossed'
    BY <1>1 DEF ReorderStart, Running
  <2>3. buy'[r].pc # "draft" /\ r \notin Active("draft")'
    BY <2>1 DEF Run, Answered, Active
  <2>4. Running' \subseteq Running \cup {r} /\ Active("draft")' \subseteq Active("draft")
    BY <2>2, <2>3 DEF Running, Active
  <2>5. \A g, v : Drafts(g, v)' = Drafts(g, v)
    BY <2>2 DEF Drafts
  <2>6. \A q \in Active("draft")' : buy'[q] = buy[q]
    BY <2>2, <2>3 DEF Active
  <2> QED
    BY <2>2, <2>4, <2>5, <2>6, VendorStays DEF DraftsAreSingle
<1>2. ASSUME NEW r \in BuyRequests, ReorderRule(r)
      PROVE  DraftsAreSingle'
  <2> DEFINE rule == Head(buy[r].left)
  <2>1. /\ rule \in RuleSet /\ After(r) \in {Answered} \cup {s \in Run : s.pc = "rule"}
        /\ buy[r] \in Run /\ r \in Running
    BY <1>2, NextRule, RunKinds DEF ReorderRule, Running, Active
  <2>2. /\ \A q \in BuyRequests \ {r} : buy'[q] = buy[q]
        /\ UNCHANGED <<orders, crossed>>
        /\ \/ /\ OpenOrders(rule.product, VendorFor(r, rule.product)) = {}
              /\ buy'[r].pc = "draft" /\ buy'[r].left = buy[r].left
              /\ buy'[r].usual = buy[r].usual
           \/ buy'[r] = After(r)
    BY <1>2, <2>1 DEF ReorderRule, Run, VendorFor
  <2>3. Running' \subseteq Running
    BY <2>1, <2>2 DEF Running, Active
  <2>4. \A g, v : Drafts(g, v)' = Drafts(g, v)
    BY <2>2 DEF Drafts
  <2>5. ASSUME NEW q \in Active("draft")', NEW g \in Goods, Head(buy'[q].left).product = g,
               g \notin crossed
        PROVE  \A v : v = VendorFor(q, g)' => Drafts(g, v) = {}
    <3>1. CASE q = r
      <4>1. After(r).pc # "draft"
        BY <2>1 DEF Run, Answered
      <4>2. \A v : v = VendorFor(q, g)' => OpenOrders(g, v) = {}
        BY <2>2, <2>5, <3>1, <4>1 DEF Active, VendorFor
      <4> QED
        BY <4>2 DEF OpenOrders, Drafts
    <3>2. CASE q # r
      BY <2>2, <2>5, <3>2, VendorStays DEF Active, DraftsAreSingle
    <3> QED
      BY <3>1, <3>2
  <2>6. crossed' = crossed
    BY <2>2
  <2> QED
    <3> SUFFICES ASSUME NEW g \in Goods \ crossed
                 PROVE  /\ g \in RuleProducts => \A p, q \in Running' : p = q
                        /\ \A q \in Active("draft")' :
                             Head(buy'[q].left).product = g =>
                               \A v : v = VendorFor(q, g)' => Drafts(g, v)' = {}
                        /\ \A v \in Vendors \cup {NoVendor} : \A o, p \in Drafts(g, v)' : o = p
      BY <2>6 DEF DraftsAreSingle
    <3>1. /\ g \in RuleProducts => \A p, q \in Running : p = q
          /\ \A v \in Vendors \cup {NoVendor} : \A o, p \in Drafts(g, v) : o = p
      BY DEF DraftsAreSingle
    <3>2. \A q \in Active("draft")' :
            Head(buy'[q].left).product = g => \A v : v = VendorFor(q, g)' => Drafts(g, v) = {}
      BY <2>5
    <3> QED
      BY <2>3, <2>4, <3>1, <3>2
<1>3. ASSUME NEW r \in BuyRequests, ReorderDraft(r)
      PROVE  DraftsAreSingle'
  <2> DEFINE rule == Head(buy[r].left)
  <2>1. /\ rule \in RuleSet /\ After(r) \in {Answered} \cup {s \in Run : s.pc = "rule"}
        /\ r \in Running /\ r \in Active("draft")
        /\ rule.product \in Goods /\ rule.product \in RuleProducts /\ rule.quantity \in Nat
        /\ VendorFor(r, rule.product) \in Vendors \cup {NoVendor}
    BY <1>3, NextRule, RulesKinds DEF ReorderDraft, Running, Active
  <2>2. /\ \A q \in BuyRequests \ {r} : buy'[q] = buy[q]
        /\ buy'[r] = After(r) /\ UNCHANGED crossed
        /\ Order(rule.product, VendorFor(r, rule.product), rule.quantity, "DRAFT", Manual, r)
    BY <1>3 DEF ReorderDraft, VendorFor
  <2>3. /\ DOMAIN orders' = DOMAIN orders \cup {Len(orders) + 1}
        /\ \A o \in DOMAIN orders : orders'[o] = orders[o]
        /\ orders'[Len(orders) + 1].product = rule.product
        /\ orders'[Len(orders) + 1].vendor = VendorFor(r, rule.product)
    BY <2>1, <2>2, OrderAppends
  <2>4. \A g \in Goods : \A v : Drafts(g, v)' \subseteq
          Drafts(g, v) \cup (IF g = rule.product /\ v = VendorFor(r, g) THEN {Len(orders) + 1} ELSE {})
    BY <2>3 DEF Drafts
  <2>5. Running' \subseteq Running /\ Active("draft")' \subseteq Active("draft") \ {r}
    <3>1. buy'[r].pc # "draft"
      BY <2>1, <2>2 DEF Run, Answered
    <3> QED
      BY <2>1, <2>2, <3>1 DEF Running, Active
  <2>6. \A q \in Active("draft")' : buy'[q] = buy[q] /\ q # r /\ q \in Running
    BY <2>2, <2>5 DEF Active, Running
  <2> HIDE DEF rule
  <2>7. ASSUME NEW g \in Goods \ crossed, g = rule.product
        PROVE  Drafts(g, VendorFor(r, g)) = {} /\ Active("draft")' = {}
    BY <2>1, <2>5, <2>6, <2>7 DEF DraftsAreSingle, rule
  <2>8. ASSUME NEW g \in Goods \ crossed, g # rule.product
        PROVE  \A v : Drafts(g, v)' \subseteq Drafts(g, v)
    BY <2>4, <2>8
  <2> QED
    <3> SUFFICES ASSUME NEW g \in Goods \ crossed
                 PROVE  /\ g \in RuleProducts => \A p, q \in Running' : p = q
                        /\ \A q \in Active("draft")' :
                             Head(buy'[q].left).product = g =>
                               \A v : v = VendorFor(q, g)' => Drafts(g, v)' = {}
                        /\ \A v \in Vendors \cup {NoVendor} : \A o, p \in Drafts(g, v)' : o = p
      BY <2>2 DEF DraftsAreSingle
    <3>1. g \in RuleProducts => \A p, q \in Running' : p = q
      BY <2>5 DEF DraftsAreSingle
    <3>2. CASE g = rule.product
      BY <2>4, <2>7, <3>1, <3>2 DEF DraftsAreSingle
    <3>3. CASE g # rule.product
      BY <2>5, <2>6, <2>8, <3>1, <3>3, VendorStays DEF DraftsAreSingle
    <3> QED
      BY <3>2, <3>3
<1>4. ASSUME NEW r \in BuyRequests,
             \/ ReorderFails(r) \/ LowStockFind(r) \/ LowStockRequire(r) \/ CreateFromMaterial(r)
             \/ \E g \in Goods : LowStockRead(r, g) \/ RequestMaterial(r, g)
      PROVE  DraftsAreSingle'
  <2>1. /\ \A q \in BuyRequests \ {r} : buy'[q] = buy[q]
        /\ orders' = orders /\ crossed \subseteq crossed'
    BY <1>4 DEF ReorderFails, LowStockFind, LowStockRequire, CreateFromMaterial, LowStockRead,
                RequestMaterial
  <2>2. buy'[r].pc \notin {"rule", "draft"}
    <3>1. CASE LowStockFind(r)
      BY <3>1, RunKinds DEF LowStockFind, ForProduct, Answered
    <3>2. CASE ReorderFails(r) \/ LowStockRequire(r) \/ CreateFromMaterial(r)
      <4>1. buy' = [buy EXCEPT ![r] = Answered]
        BY <3>2 DEF ReorderFails, LowStockRequire, CreateFromMaterial
      <4> QED
        BY <4>1 DEF Answered
    <3>3. ASSUME NEW g \in Goods, LowStockRead(r, g) \/ RequestMaterial(r, g)
          PROVE  buy'[r].pc \notin {"rule", "draft"}
      BY <3>3 DEF LowStockRead, RequestMaterial
    <3> QED
      BY <1>4, <3>1, <3>2, <3>3
  <2> QED
    BY <2>1, <2>2, OrdersStay, DraftsStay
<1>5. ASSUME OrdersMove PROVE DraftsAreSingle'
  BY <1>5, MovesMakeNoDraft, VendorStays DEF DraftsAreSingle, Running, Active, FewerDrafts
<1>6. CASE CloseProject \/ \E g \in Goods : UseStock(g)
  <2>1. FewerDrafts /\ UNCHANGED <<buy, crossed>>
    BY <1>6, OrdersStay DEF CloseProject, UseStock
  <2> QED
    BY <2>1, VendorStays DEF DraftsAreSingle, Running, Active, FewerDrafts
<1> QED
  BY <1>1, <1>2, <1>3, <1>4, <1>5, <1>6 DEF ReplenishmentNext, OrdersMove, Usual

\* The same for what one run has drafted, whatever other runs do meanwhile.
LEMMA OwnDraftsAreSingleNext ==
  ASSUME BuyType, OwnDraftsAreSingle, ReplenishmentNext
  PROVE  OwnDraftsAreSingle'
<1> USE DEF BuyType, Step
<1>1. ASSUME FewerDrafts, \A q \in BuyRequests : buy'[q].pc = "draft" => buy'[q] = buy[q]
      PROVE  OwnDraftsAreSingle'
  <2> SUFFICES ASSUME NEW g \in Goods, NEW r \in BuyRequests
               PROVE  /\ buy'[r].pc = "draft" /\ Head(buy'[r].left).product = g =>
                           \A v : v = VendorFor(r, g)' => OwnDrafts(g, v, r)' = {}
                      /\ \A v \in Vendors \cup {NoVendor} : \A o, p \in OwnDrafts(g, v, r)' : o = p
    BY DEF OwnDraftsAreSingle
  <2>1. \A v : OwnDrafts(g, v, r)' \subseteq OwnDrafts(g, v, r)
    BY <1>1 DEF FewerDrafts
  <2>2. CASE buy'[r].pc = "draft"
    BY <1>1, <2>1, <2>2, VendorStays DEF OwnDraftsAreSingle
  <2>3. CASE buy'[r].pc # "draft"
    BY <2>1, <2>3 DEF OwnDraftsAreSingle
  <2> QED
    BY <2>2, <2>3
<1>2. ASSUME NEW r \in BuyRequests, UNCHANGED orders, buy' = [buy EXCEPT ![r] = buy'[r]],
             buy'[r].pc # "draft"
      PROVE  OwnDraftsAreSingle'
  BY <1>1, <1>2, OrdersStay
<1>3. ASSUME NEW r \in BuyRequests, NEW vendors \in Usual, ReorderStart(r, vendors)
      PROVE  OwnDraftsAreSingle'
  <2>1. GoOn(Rules, onHand, vendors).pc # "draft"
    <3>1. GoOn(Rules, onHand, vendors) \in {Answered} \cup {s \in Run : s.pc = "rule"}
      BY GoOnKinds, RulesKinds
    <3> QED
      BY <3>1 DEF Run, Answered
  <2> QED
    BY <1>2, <1>3, <2>1 DEF ReorderStart
<1>4. ASSUME NEW r \in BuyRequests, ReorderRule(r)
      PROVE  OwnDraftsAreSingle'
  <2> DEFINE g == Head(buy[r].left).product
  <2>1. After(r).pc # "draft" /\ buy[r] \in Run
    BY <1>4, NextRule, RunKinds DEF ReorderRule, Run, Answered
  <2>2. CASE buy' = [buy EXCEPT ![r] = After(r)]
    BY <1>2, <1>4, <2>1, <2>2 DEF ReorderRule
  <2>3. CASE buy' = [buy EXCEPT ![r] = [buy[r] EXCEPT !.pc = "draft"]] /\ OpenOrders(g, VendorFor(r, g)) = {}
    <3>1. /\ \A q \in BuyRequests \ {r} : buy'[q] = buy[q]
          /\ buy'[r].left = buy[r].left /\ buy'[r].usual = buy[r].usual
      BY <2>1, <2>3 DEF Run
    <3>2. \A h, v, q : OwnDrafts(h, v, q)' = OwnDrafts(h, v, q)
      BY <1>4 DEF ReorderRule, OwnDrafts, Drafts
    <3>3. OwnDrafts(g, VendorFor(r, g), r) = {}
      BY <2>3 DEF OpenOrders, OwnDrafts, Drafts
    <3> HIDE DEF g
    <3>4. ASSUME NEW h \in Goods, NEW q \in BuyRequests,
                 buy'[q].pc = "draft", Head(buy'[q].left).product = h
          PROVE  \A v : v = VendorFor(q, h)' => OwnDrafts(h, v, q) = {}
      <4>1. CASE q = r
        BY <3>1, <3>3, <3>4, <4>1 DEF VendorFor, g
      <4>2. CASE q # r
        BY <3>1, <3>4, <4>2, VendorStays DEF OwnDraftsAreSingle
      <4> QED
        BY <4>1, <4>2
    <3> QED
      BY <3>2, <3>4 DEF OwnDraftsAreSingle
  <2> QED
    BY <1>4, <2>2, <2>3 DEF ReorderRule, VendorFor
<1>5. ASSUME NEW r \in BuyRequests, ReorderDraft(r)
      PROVE  OwnDraftsAreSingle'
  <2> DEFINE g == Head(buy[r].left).product
             v == VendorFor(r, g)
  <2>1. /\ g \in Goods /\ v \in Vendors \cup {NoVendor} /\ Head(buy[r].left).quantity \in Nat
        /\ After(r).pc # "draft"
    BY <1>5, NextRule, RulesKinds DEF ReorderDraft, Run, Answered
  <2>2. /\ buy[r].pc = "draft" /\ buy' = [buy EXCEPT ![r] = After(r)]
        /\ Order(g, v, Head(buy[r].left).quantity, "DRAFT", Manual, r)
    BY <1>5 DEF ReorderDraft, VendorFor
  <2> HIDE DEF g, v
  <2>3. /\ DOMAIN orders' = DOMAIN orders \cup {Len(orders) + 1}
        /\ \A o \in DOMAIN orders : orders'[o] = orders[o]
        /\ orders'[Len(orders) + 1].product = g /\ orders'[Len(orders) + 1].vendor = v
        /\ orders'[Len(orders) + 1].by = r
    <3> DEFINE n == Head(buy[r].left).quantity
    <3>1. n \in Nat /\ Order(g, v, n, "DRAFT", Manual, r) /\ orders \in Seq(OrderRecord)
      BY <2>1, <2>2
    <3> HIDE DEF n
    <3> QED
      BY <2>1, <3>1, OrderAppends
  <2>4. \A h, w, q : OwnDrafts(h, w, q)' \subseteq
          OwnDrafts(h, w, q) \cup (IF h = g /\ w = v /\ q = r THEN {Len(orders) + 1} ELSE {})
    BY <2>3 DEF OwnDrafts, Drafts
  <2>5. OwnDrafts(g, v, r) = {}
    BY <2>1, <2>2 DEF OwnDraftsAreSingle, g, v
  <2>6. \A q \in BuyRequests : buy'[q].pc = "draft" => q # r /\ buy'[q] = buy[q]
    BY <2>1, <2>2
  <2>7. ASSUME NEW h \in Goods, NEW q \in BuyRequests
        PROVE  /\ buy'[q].pc = "draft" /\ Head(buy'[q].left).product = h
                    => \A w : w = VendorFor(q, h)' => OwnDrafts(h, w, q)' = {}
               /\ \A w \in Vendors \cup {NoVendor} : \A o, p \in OwnDrafts(h, w, q)' : o = p
    <3>1. CASE q = r
      BY <2>4, <2>5, <2>6, <3>1 DEF OwnDraftsAreSingle
    <3>2. CASE q # r
      <4>1. \A w : OwnDrafts(h, w, q)' \subseteq OwnDrafts(h, w, q)
        BY <2>4, <3>2
      <4> QED
        BY <2>6, <4>1, VendorStays DEF OwnDraftsAreSingle
    <3> QED
      BY <3>1, <3>2
  <2> QED
    BY <2>7 DEF OwnDraftsAreSingle
<1>6. ASSUME NEW r \in BuyRequests,
             \/ ReorderFails(r) \/ LowStockFind(r) \/ LowStockRequire(r) \/ CreateFromMaterial(r)
             \/ \E g \in Goods : LowStockRead(r, g) \/ RequestMaterial(r, g)
      PROVE  OwnDraftsAreSingle'
  <2>1. UNCHANGED orders /\ \A q \in BuyRequests \ {r} : buy'[q] = buy[q]
    BY <1>6 DEF ReorderFails, LowStockFind, LowStockRequire, CreateFromMaterial, LowStockRead,
                RequestMaterial
  <2>2. buy'[r].pc # "draft"
    <3>1. CASE LowStockFind(r)
      BY <3>1, RunKinds DEF LowStockFind, ForProduct, Answered
    <3>2. CASE ReorderFails(r) \/ LowStockRequire(r) \/ CreateFromMaterial(r)
      <4>1. buy' = [buy EXCEPT ![r] = Answered]
        BY <3>2 DEF ReorderFails, LowStockRequire, CreateFromMaterial
      <4> QED
        BY <4>1 DEF Answered
    <3>3. ASSUME NEW g \in Goods, LowStockRead(r, g) \/ RequestMaterial(r, g)
          PROVE  buy'[r].pc # "draft"
      BY <3>3 DEF LowStockRead, RequestMaterial
    <3> QED
      BY <1>6, <3>1, <3>2, <3>3
  <2> QED
    BY <1>1, <2>1, <2>2, OrdersStay
<1>7. CASE OrdersMove
  BY <1>1, <1>7, MovesMakeNoDraft
<1>8. CASE CloseProject \/ \E g \in Goods : UseStock(g)
  BY <1>1, <1>8, OrdersStay DEF CloseProject, UseStock
<1> QED
  BY <1>3, <1>4, <1>5, <1>6, <1>7, <1>8 DEF ReplenishmentNext, OrdersMove, Usual

\* A step that adds no low-stock requisition and brings no request to ask or to
\* require.
LEMMA RequisitionsStay ==
  ASSUME RequisitionsAreSingle, crossed \subseteq crossed',
         \A g \in Goods : LowStock(g)' \subseteq LowStock(g),
         \A q \in BuyRequests : buy'[q] # buy[q] => buy'[q].pc \notin {"find", "require"}
  PROVE  RequisitionsAreSingle'
<1>1. \A q \in BuyRequests : buy'[q].pc \in {"find", "require"} => buy'[q] = buy[q]
  OBVIOUS
<1>2. \A g \in Goods : Asking(g)' \subseteq Asking(g)
  BY <1>1 DEF Asking, Active
<1>3. \A q \in Active("require")' : q \in Active("require") /\ buy'[q].product = buy[q].product
  BY <1>1 DEF Active
<1> QED
  BY <1>2, <1>3 DEF RequisitionsAreSingle

\* New orders, and orders that keep what they were placed for, leave no
\* requisition unordered that was not.
LEMMA OrdersServe ==
  ASSUME UNCHANGED wanted, DOMAIN orders \subseteq DOMAIN orders',
         \A o \in DOMAIN orders : orders'[o].requisition = orders[o].requisition
  PROVE  \A g \in Goods : LowStock(g)' \subseteq LowStock(g)
BY DEF LowStock, Unordered

LEMMA RequisitionsAreSingleNext ==
  ASSUME BuyType, RequisitionsAreSingle, ReplenishmentNext
  PROVE  RequisitionsAreSingle'
<1> USE DEF BuyType, Step
<1>1. ASSUME NEW r \in BuyRequests, NEW vendors \in Usual,
             ReorderStart(r, vendors) \/ ReorderRule(r) \/ ReorderDraft(r) \/ ReorderFails(r)
      PROVE  RequisitionsAreSingle'
  <2>1. (\A q \in BuyRequests \ {r} : buy'[q] = buy[q]) /\ UNCHANGED wanted /\ crossed \subseteq crossed'
    BY <1>1 DEF ReorderStart, ReorderRule, ReorderDraft, ReorderFails
  <2>2. buy'[r].pc \notin {"find", "require"}
    <3>1. CASE ReorderStart(r, vendors)
      <4>1. buy'[r] \in {Answered} \cup Run
        BY <3>1, GoOnKinds, RulesKinds DEF ReorderStart
      <4> QED
        BY <4>1 DEF Run, Answered
    <3>2. CASE ReorderRule(r) \/ ReorderDraft(r)
      <4>1. After(r) \in {Answered} \cup Run /\ buy[r] \in Run
        BY <3>2, NextRule, RunKinds DEF ReorderRule, ReorderDraft
      <4>2. buy'[r].pc = "draft" \/ buy'[r] = After(r)
        BY <3>2, <4>1 DEF ReorderRule, ReorderDraft, Run
      <4> QED
        BY <4>1, <4>2 DEF Run, Answered
    <3>3. CASE ReorderFails(r)
      BY <3>3 DEF ReorderFails, Answered
    <3> QED
      BY <1>1, <3>1, <3>2, <3>3
  <2>3. \A g \in Goods : LowStock(g)' \subseteq LowStock(g)
    <3>1. CASE ReorderDraft(r)
      <4>1. /\ Head(buy[r].left).product \in Goods /\ Head(buy[r].left).quantity \in Nat
            /\ VendorFor(r, Head(buy[r].left).product) \in Vendors \cup {NoVendor}
            /\ Order(Head(buy[r].left).product, VendorFor(r, Head(buy[r].left).product),
                     Head(buy[r].left).quantity, "DRAFT", Manual, r)
        BY <3>1, NextRule, RulesKinds DEF ReorderDraft, VendorFor
      <4>2. DOMAIN orders \subseteq DOMAIN orders' /\ \A o \in DOMAIN orders : orders'[o] = orders[o]
        BY <4>1, OrderAppends
      <4> QED
        BY <2>1, <4>2, OrdersServe
    <3>2. CASE ~ReorderDraft(r)
      BY <1>1, <2>1, <3>2, OrdersServe DEF ReorderStart, ReorderRule, ReorderFails
    <3> QED
      BY <3>1, <3>2
  <2> QED
    BY <2>1, <2>2, <2>3, RequisitionsStay
<1>2. ASSUME NEW r \in BuyRequests, NEW g \in Goods, RequestMaterial(r, g)
      PROVE  RequisitionsAreSingle'
  <2>1. \A q \in BuyRequests : buy'[q] # buy[q] => buy'[q].pc \notin {"find", "require"}
    BY <1>2 DEF RequestMaterial
  <2> QED
    BY <1>2, <2>1, OrdersServe, RequisitionsStay DEF RequestMaterial
<1>3. ASSUME NEW r \in BuyRequests, NEW g \in Goods, LowStockRead(r, g)
      PROVE  RequisitionsAreSingle'
  <2>1. /\ UNCHANGED <<wanted, orders>>
        /\ \A q \in BuyRequests \ {r} : buy'[q] = buy[q]
        /\ buy'[r].pc = "find" /\ buy'[r].product = g
        /\ crossed' = IF Asking(g) # {} THEN crossed \cup {g} ELSE crossed
    BY <1>3 DEF LowStockRead, Asking
  <2>2. \A h \in Goods : LowStock(h)' = LowStock(h)
    BY <2>1 DEF LowStock, Unordered
  <2>3. /\ \A h \in Goods \ {g} : Asking(h)' \subseteq Asking(h)
        /\ Asking(g)' \subseteq Asking(g) \cup {r}
    BY <2>1 DEF Asking, Active
  <2>4. \A q \in Active("require")' : q \in Active("require") /\ buy'[q] = buy[q]
    BY <2>1 DEF Active
  <2> QED
    BY <2>1, <2>2, <2>3, <2>4 DEF RequisitionsAreSingle
<1>4. ASSUME NEW r \in BuyRequests, LowStockFind(r)
      PROVE  RequisitionsAreSingle'
  <2>1. buy[r] \in ForProduct /\ buy[r].pc = "find"
    BY <1>4, RunKinds DEF LowStockFind
  <2>2. /\ UNCHANGED <<wanted, orders, crossed>>
        /\ \A q \in BuyRequests \ {r} : buy'[q] = buy[q]
        /\ \/ /\ Unordered(buy[r].product) = {}
              /\ buy'[r].pc = "require" /\ buy'[r].product = buy[r].product
           \/ buy'[r].pc = "done"
    BY <1>4, <2>1 DEF LowStockFind, ForProduct, Answered
  <2>3. \A h \in Goods : LowStock(h)' = LowStock(h) /\ Asking(h)' \subseteq Asking(h)
    BY <2>1, <2>2 DEF LowStock, Unordered, Asking, Active
  <2>4. \A q \in Active("require")', h \in Goods :
          buy'[q].product = h /\ h \notin crossed => LowStock(h) = {}
    <3> SUFFICES ASSUME NEW q \in Active("require")', NEW h \in Goods,
                        buy'[q].product = h, h \notin crossed
                 PROVE  LowStock(h) = {}
      OBVIOUS
    <3>1. CASE q = r
      BY <2>2, <3>1 DEF Active, LowStock
    <3>2. CASE q # r
      BY <2>2, <3>2 DEF Active, RequisitionsAreSingle
    <3> QED
      BY <3>1, <3>2
  <2>5. crossed' = crossed
    BY <2>2
  <2> QED
    <3> SUFFICES ASSUME NEW h \in Goods \ crossed
                 PROVE  /\ \A p, q \in Asking(h)' : p = q
                        /\ \A q \in Active("require")' : buy'[q].product = h => LowStock(h)' = {}
                        /\ \A p, q \in LowStock(h)' : p = q
      BY <2>5 DEF RequisitionsAreSingle
    <3>1. (\A p, q \in Asking(h) : p = q) /\ (\A p, q \in LowStock(h) : p = q)
      BY DEF RequisitionsAreSingle
    <3> QED
      BY <2>3, <2>4, <3>1
<1>5. ASSUME NEW r \in BuyRequests, LowStockRequire(r)
      PROVE  RequisitionsAreSingle'
  <2>1. buy[r] \in ForProduct /\ buy[r].pc = "require" /\ r \notin DOMAIN wanted
    BY <1>5, RunKinds DEF LowStockRequire, Answered
  <2>2. /\ UNCHANGED <<orders, crossed>>
        /\ \A q \in BuyRequests \ {r} : buy'[q] = buy[q]
        /\ buy'[r].pc = "done"
        /\ DOMAIN wanted' = DOMAIN wanted \cup {r} /\ \A q \in DOMAIN wanted : wanted'[q] = wanted[q]
        /\ wanted'[r].product = buy[r].product
    BY <1>5, <2>1 DEF LowStockRequire, Require, Answered
  <2>3. ASSUME NEW h \in Goods, NEW q \in LowStock(h)'
        PROVE  q \in LowStock(h) \/ (q = r /\ h = buy[r].product)
    <3>1. CASE q = r
      BY <2>2, <2>3, <3>1 DEF LowStock, Unordered
    <3>2. CASE q # r
      BY <2>2, <2>3, <3>2 DEF LowStock, Unordered
    <3> QED
      BY <3>1, <3>2
  <2>4. /\ \A h \in Goods : Asking(h)' \subseteq Asking(h) \ {r}
        /\ r \in Asking(buy[r].product)
    BY <2>1, <2>2 DEF Asking, Active
  <2>5. \A q \in Active("require")' :
          q \in Active("require") /\ q # r /\ buy'[q] = buy[q] /\ q \in Asking(buy[q].product)
    BY <2>2 DEF Active, Asking
  <2> SUFFICES ASSUME NEW h \in Goods \ crossed
               PROVE  /\ \A p, q \in Asking(h)' : p = q
                      /\ \A q \in Active("require")' : buy'[q].product = h => LowStock(h)' = {}
                      /\ \A p, q \in LowStock(h)' : p = q
    BY <2>2 DEF RequisitionsAreSingle
  <2>6. CASE h = buy[r].product
    <3>1. LowStock(h) = {} /\ \A q \in Asking(h) : q = r
      BY <2>1, <2>4, <2>6 DEF RequisitionsAreSingle, Active
    <3>2. \A q \in LowStock(h)' : q = r
      BY <2>3, <3>1
    <3>3. Asking(h)' = {}
      BY <2>4, <3>1
    <3>4. \A q \in Active("require")' : buy'[q].product # h
      BY <2>5, <2>6, <3>1
    <3> QED
      BY <3>2, <3>3, <3>4
  <2>7. CASE h # buy[r].product
    BY <2>3, <2>4, <2>5, <2>7 DEF RequisitionsAreSingle
  <2> QED
    BY <2>6, <2>7
<1>6. ASSUME NEW r \in BuyRequests, CreateFromMaterial(r)
      PROVE  RequisitionsAreSingle'
  <2>1. buy[r].pc = "material" /\ r \notin DOMAIN wanted
    BY <1>6 DEF CreateFromMaterial, Answered
  <2>2. /\ UNCHANGED <<orders, crossed>>
        /\ \A q \in BuyRequests : buy'[q] # buy[q] => buy'[q].pc \notin {"find", "require"}
        /\ DOMAIN wanted' = DOMAIN wanted \cup {r} /\ \A q \in DOMAIN wanted : wanted'[q] = wanted[q]
        /\ wanted'[r].project = TRUE
    BY <1>6, <2>1 DEF CreateFromMaterial, Require, Answered
  <2>3. \A h \in Goods : LowStock(h)' \subseteq LowStock(h)
    BY <2>1, <2>2 DEF LowStock, Unordered
  <2> QED
    BY <2>2, <2>3, RequisitionsStay
<1>7. ASSUME NEW g \in Goods, NEW v \in Vendors, NEW s \in {Manual} \cup DOMAIN wanted,
             PlaceOrder(g, v, s)
      PROVE  RequisitionsAreSingle'
  <2>1. DOMAIN orders \subseteq DOMAIN orders' /\ \A o \in DOMAIN orders : orders'[o] = orders[o]
    BY <1>7, OrderAppends DEF PlaceOrder
  <2> QED
    BY <1>7, <2>1, OrdersServe, RequisitionsStay DEF PlaceOrder
<1>8. ASSUME NEW o \in DOMAIN orders, ApproveOrder(o) \/ CancelOrder(o) \/ ReceiveOrder(o)
      PROVE  RequisitionsAreSingle'
  <2>1. o \in 1 .. Len(orders) /\ DOMAIN orders = 1 .. Len(orders) /\ orders[o] \in OrderRecord
    BY LenProperties, ElementOfSeq
  <2>2. DOMAIN orders' = DOMAIN orders /\ \A p \in DOMAIN orders : orders'[p].requisition = orders[p].requisition
    <3>1. CASE ApproveOrder(o) \/ CancelOrder(o)
      <4>1. PICK status : orders' = [orders EXCEPT ![o].status = status]
        BY <3>1 DEF ApproveOrder, CancelOrder, Become
      <4> QED
        BY <2>1, <4>1 DEF OrderRecord
    <3>2. CASE ReceiveOrder(o)
      BY <2>1, <3>2 DEF ReceiveOrder, OrderRecord
    <3> QED
      BY <1>8, <3>1, <3>2
  <2> QED
    BY <1>8, <2>2, OrdersServe, RequisitionsStay DEF ApproveOrder, CancelOrder, ReceiveOrder
<1>9. CASE CloseProject \/ \E g \in Goods : UseStock(g)
  BY <1>9, OrdersServe, RequisitionsStay DEF CloseProject, UseStock
<1> HIDE DEF BuyType, Step
<1>10. ASSUME OrdersMove PROVE RequisitionsAreSingle'
  BY <1>7, <1>8, <1>10 DEF OrdersMove
<1>11. [g \in Goods |-> NoVendor] \in Usual
  BY DEF Usual
<1> QED
  BY <1>1, <1>2, <1>3, <1>4, <1>5, <1>6, <1>9, <1>10, <1>11 DEF ReplenishmentNext, OrdersMove, Usual

\* A set whose elements are all one has at most one.
LEMMA AtMostOne ==
  ASSUME NEW S, \A x, y \in S : x = y
  PROVE  Cardinality(S) <= 1
<1>1. CASE S = {}
  BY <1>1, FS_EmptySet
<1>2. CASE S # {}
  <2>1. PICK x \in S : S = {x}
    BY <1>2
  <2>2. Cardinality({x}) = 1
    BY FS_Singleton
  <2> QED
    BY <2>1, <2>2
<1> QED
  BY <1>1, <1>2

\* ReorderAutomationService and RequisitionService, for any goods, vendors, rules and
\* number of requests: a run leaves one draft of a product with a vendor, and unless two
\* requests looked at a product at once there is one in all, and one low-stock
\* requisition without an order.
THEOREM SerialReplenishmentIsAlwaysSingle == ReplenishmentSpec => []SerialReplenishmentIsSingle
<1>1. ReplenishmentInit => BuyInv
  <2> SUFFICES ASSUME ReplenishmentInit PROVE BuyInv
    OBVIOUS
  <2>1. DOMAIN orders = {} /\ DOMAIN wanted = {} /\ Active("draft") = {} /\ Running = {}
        /\ Active("find") = {} /\ Active("require") = {}
    BY DEF ReplenishmentInit, Active, Running, NotAsked
  <2>2. BuyType
    BY <2>1, EmptySeq DEF ReplenishmentInit, BuyType
  <2> QED
    BY <2>1, <2>2 DEF BuyInv, OwnDraftsAreSingle, OwnDrafts, DraftsAreSingle, RequisitionsAreSingle,
                      Drafts, Asking, LowStock, Unordered, Active
<1>2. BuyInv /\ [ReplenishmentNext]_buyVars => BuyInv'
  <2> SUFFICES ASSUME BuyInv, [ReplenishmentNext]_buyVars PROVE BuyInv'
    OBVIOUS
  <2>1. CASE ReplenishmentNext
    BY <2>1, BuyTypeNext, OwnDraftsAreSingleNext, DraftsAreSingleNext, RequisitionsAreSingleNext
       DEF BuyInv
  <2>2. CASE UNCHANGED buyVars
    <3>1. UNCHANGED <<onHand, orders, wanted, buy, crossed>>
      BY <2>2 DEF buyVars
    <3>2. BuyType'
      BY <3>1 DEF BuyInv, BuyType
    <3>3. OwnDraftsAreSingle'
      BY <3>1 DEF BuyInv, OwnDraftsAreSingle, OwnDrafts, Drafts, VendorFor
    <3>4. DraftsAreSingle'
      BY <3>1 DEF BuyInv, DraftsAreSingle, Drafts, VendorFor, Running, Active
    <3>5. RequisitionsAreSingle'
      BY <3>1 DEF BuyInv, RequisitionsAreSingle, Asking, Active, LowStock, Unordered
    <3> QED
      BY <3>2, <3>3, <3>4, <3>5 DEF BuyInv
  <2> QED
    BY <2>1, <2>2
<1>3. BuyInv => SerialReplenishmentIsSingle
  <2> SUFFICES ASSUME BuyInv
               PROVE  /\ \A g \in Goods, v \in Vendors, r \in BuyRequests :
                           Cardinality(OwnDrafts(g, v, r)) <= 1
                      /\ \A g \in Goods \ crossed :
                           /\ \A v \in Vendors : Cardinality(Drafts(g, v)) <= 1
                           /\ Cardinality(LowStock(g)) <= 1
    BY DEF SerialReplenishmentIsSingle, OwnDrafts, LowStock
  <2> QED
    BY AtMostOne DEF BuyInv, OwnDraftsAreSingle, DraftsAreSingle, RequisitionsAreSingle
<1> QED
  BY <1>1, <1>2, <1>3, PTL DEF ReplenishmentSpec

-----------------------------------------------------------------------------
(* The three-way match                                                     *)

\* What arrives only grows, so that a line that matched goes on matching.
MatchInv ==
  /\ received \in [DOMAIN OrderLines -> Nat]
  /\ billed \in Seq([bill : Bills, approved : BOOLEAN])
  /\ \A n \in Approved : \A l \in LinesOf(billed[n].bill) : LineMatches(l)

\* po.lines.find finds a line where there is one.
LEMMA FirstLineIs ==
  ASSUME NEW p, \E k \in DOMAIN OrderLines : OrderLines[k].product = p
  PROVE  FirstLine(p) \in OfProduct(p)
<1>1. PICK m \in Nat : DOMAIN OrderLines = 1 .. m
  BY MatchingAssumption
<1>2. PICK T : T = OfProduct(p)
  OBVIOUS
<1>3. T \in SUBSET Nat /\ T # {}
  BY <1>1, <1>2 DEF OfProduct
<1>4. PICK k \in T : \A j \in T : k <= j
  BY <1>3, LeastOf
<1>5. \A j \in 1 .. k - 1 : OrderLines[j].product # p
  BY <1>1, <1>2, <1>4 DEF OfProduct
<1> QED
  BY <1>2, <1>4, <1>5 DEF FirstLine, OfProduct

LEMMA MatchInitHolds == MatchInit => MatchInv
  BY DEF MatchInit, MatchInv, Approved

LEMMA ApprovedBill ==
  ASSUME MatchInv, NEW n \in Approved
  PROVE  billed[n].bill \in Bills
<1>1. n \in DOMAIN billed /\ billed \in Seq([bill : Bills, approved : BOOLEAN])
  BY DEF Approved, MatchInv
<1>2. billed[n] \in [bill : Bills, approved : BOOLEAN]
  BY <1>1, LenProperties
<1> QED
  BY <1>2

LEMMA MatchInvNext == MatchInv /\ [MatchNext]_matchVars => MatchInv'
<1> SUFFICES ASSUME MatchInv, [MatchNext]_matchVars PROVE MatchInv'
  OBVIOUS
<1>1. ASSUME NEW k \in DOMAIN OrderLines, NEW n \in 1 .. OrderLines[k].quantity,
             ReceiveUnits(k, n)
      PROVE  MatchInv'
  <2>1. /\ received' \in [DOMAIN OrderLines -> Nat]
        /\ \A j \in DOMAIN OrderLines : received[j] <= received'[j]
        /\ billed' = billed
    BY <1>1 DEF ReceiveUnits, MatchInv
  <2>2. ASSUME NEW m \in Approved, NEW l \in LinesOf(billed[m].bill)
        PROVE  LineMatches(l)'
    <3>1. LineMatches(l)
      BY <2>2 DEF MatchInv
    <3>2. FirstLine(l.product) \in DOMAIN OrderLines
      BY <3>1, FirstLineIs DEF LineMatches, OfProduct
    <3>3. l.quantity \in Nat
      <4>1. PICK b \in Bills : b = billed[m].bill
        BY <2>2, ApprovedBill
      <4>2. PICK i \in DOMAIN b.lines : l = b.lines[i]
        BY <2>2, <4>1 DEF LinesOf
      <4> QED
        BY <4>2, MatchingAssumption
    <3> QED
      BY <2>1, <3>1, <3>2, <3>3 DEF LineMatches, MatchInv
  <2> QED
    BY <2>1, <2>2 DEF MatchInv, Approved
<1>2. ASSUME NEW b \in Bills, MatchInvoice(b) PROVE MatchInv'
  <2>1. PICK row \in [bill : Bills, approved : BOOLEAN] :
          row = [bill |-> b, approved |-> ThreeWayMatch(b)]
    <3>1. ThreeWayMatch(b) \in BOOLEAN
      BY DEF ThreeWayMatch
    <3> QED
      BY <3>1
  <2>2. /\ billed' = Append(billed, row) /\ received' = received /\ receipts' = receipts
        /\ billed' \in Seq([bill : Bills, approved : BOOLEAN])
        /\ DOMAIN billed' = 1 .. Len(billed) + 1 /\ DOMAIN billed = 1 .. Len(billed)
        /\ Len(billed) \in Nat
        /\ billed'[Len(billed) + 1] = row
        /\ \A m \in DOMAIN billed : billed'[m] = billed[m]
    BY <1>2, <2>1 DEF MatchInvoice, MatchInv
  <2>3. ASSUME NEW m \in Approved', NEW l \in LinesOf(billed'[m].bill)
        PROVE  LineMatches(l)'
    <3>1. CASE m = Len(billed) + 1
      <4>1. row.approved /\ ByLines(b) /\ l \in LinesOf(b)
        BY <2>1, <2>2, <2>3, <3>1 DEF Approved
      <4>2. ThreeWayMatch(b)
        BY <2>1, <4>1
      <4> QED
        BY <2>2, <4>1, <4>2 DEF ThreeWayMatch, LineMatches
    <3>2. CASE m \in DOMAIN billed
      <4>1. m \in Approved /\ l \in LinesOf(billed[m].bill)
        BY <2>2, <2>3, <3>2 DEF Approved
      <4> QED
        BY <2>2, <4>1 DEF MatchInv, LineMatches
    <3> QED
      BY <2>2, <2>3, <3>1, <3>2 DEF Approved
  <2> QED
    BY <2>2, <2>3 DEF MatchInv
<1>3. CASE UNCHANGED matchVars
  BY <1>3 DEF matchVars, MatchInv, Approved, LineMatches
<1> QED
  BY <1>1, <1>2, <1>3 DEF MatchNext

LEMMA ReceivedSum ==
  ASSUME NEW f, NEW S
  PROVE  MapThenSumSet(LAMBDA k : f[k], S) = SumOf(f, S)
  BY DEF SumOf

LEMMA QuantitySum ==
  ASSUME NEW b, NEW S
  PROVE  MapThenSumSet(LAMBDA k : b.lines[k].quantity, S)
           = SumOf([k \in S |-> b.lines[k].quantity], S)
<1> DEFINE Q(g) == g = [T \in SUBSET S |->
                          IF T = {} THEN 0
                          ELSE b.lines[AnyOf(T)].quantity + g[T \ {AnyOf(T)}]]
<1>1. MapThenSumSet(LAMBDA k : b.lines[k].quantity, S) = (CHOOSE g : Q(g))[S]
  BY DEF MapThenSumSet, MapThenFoldSet, AnyOf
<1>2. \A g : Q(g) <=> SumIter([k \in S |-> b.lines[k].quantity], S, g)
  BY DEF AnyOf, SumIter
<1> HIDE DEF Q
<1>3. (CHOOSE g : Q(g)) = (CHOOSE g : SumIter([k \in S |-> b.lines[k].quantity], S, g))
  BY <1>2
<1> QED
  BY <1>1, <1>3, SumUnfold

\* What was received of a product on one line, and on all of them.
LEMMA LineIsPart ==
  ASSUME MatchInv, NEW p
  PROVE  /\ ReceivedOf(p) \in Nat
         /\ \A k \in OfProduct(p) : received[k] <= ReceivedOf(p)
<1>1. PICK f : f = received
  OBVIOUS
<1>2. PICK S : S = OfProduct(p)
  OBVIOUS
<1>3. IsFiniteSet(S) /\ \A k \in S : f[k] \in Nat
  <2>1. PICK m \in Nat : DOMAIN OrderLines = 1 .. m
    BY MatchingAssumption
  <2>2. IsFiniteSet(1 .. m) /\ S \subseteq 1 .. m
    BY <1>2, <2>1, FS_Interval DEF OfProduct
  <2> QED
    BY <1>1, <1>2, <2>2, FS_Subset DEF OfProduct, MatchInv
<1>4. ReceivedOf(p) = SumOf(f, S) /\ SumOf(f, S) \in Nat
  BY <1>1, <1>2, <1>3, ReceivedSum, SumType DEF ReceivedOf
<1>5. ASSUME NEW k \in S PROVE f[k] <= SumOf(f, S)
  <2>1. {k} \in SUBSET S /\ f[k] \in Int
    BY <1>3
  <2> QED
    BY <1>3, <2>1, SumOne, SumPart
<1> QED
  BY <1>1, <1>2, <1>4, <1>5

LEMMA MatchCovers ==
  ASSUME MatchInv, NEW n \in Approved, NamesProductsOnce(billed[n].bill), NEW p \in Products
  PROVE  /\ InvoicedBy(billed[n].bill, p) <= ReceivedOf(p)
         /\ \A l \in LinesOf(billed[n].bill) :
              l.product = p => \E k \in OfProduct(p) :
                50 * l.unitPrice <= 51 * OrderLines[k].unitPrice
<1>1. PICK b \in Bills : b = billed[n].bill
  BY ApprovedBill
<1>2. ASSUME NEW i \in DOMAIN b.lines, b.lines[i].product = p
      PROVE  /\ b.lines[i].quantity \in Nat
             /\ FirstLine(p) \in OfProduct(p)
             /\ b.lines[i].quantity <= received[FirstLine(p)]
             /\ 50 * b.lines[i].unitPrice <= 51 * OrderLines[FirstLine(p)].unitPrice
  <2>1. PICK l : l = b.lines[i]
    OBVIOUS
  <2>2. l \in LinesOf(b) /\ l.quantity \in Nat /\ l.unitPrice \in Nat
    BY <2>1, MatchingAssumption DEF LinesOf
  <2>3. LineMatches(l)
    BY <1>1, <2>2 DEF MatchInv
  <2>4. FirstLine(p) \in OfProduct(p)
    BY <1>2, <2>1, <2>3, FirstLineIs DEF LineMatches
  <2>5. PICK price \in Nat : price = OrderLines[FirstLine(p)].unitPrice
    BY <2>4, MatchingAssumption DEF OfProduct
  <2>6. 50 * l.unitPrice <= 51 * price
    BY <1>2, <2>1, <2>2, <2>3, <2>5 DEF LineMatches, WithinTolerance, Distance
  <2> QED
    BY <1>2, <2>1, <2>2, <2>3, <2>4, <2>5, <2>6 DEF LineMatches
<1>3. PICK S : S = {i \in DOMAIN b.lines : b.lines[i].product = p}
  OBVIOUS
<1>4. PICK g : g = [i \in S |-> b.lines[i].quantity]
  OBVIOUS
<1>5. InvoicedBy(b, p) = SumOf(g, S)
  BY <1>3, <1>4, QuantitySum DEF InvoicedBy
<1>6. SumOf(g, S) <= ReceivedOf(p)
  <2>1. CASE S = {}
    BY <2>1, SumEmpty, LineIsPart
  <2>2. CASE S # {}
    <3>1. PICK i : i \in S
      BY <2>2
    <3>2. S = {i}
      BY <1>1, <1>3, <3>1 DEF NamesProductsOnce
    <3>3. g[i] \in Nat /\ FirstLine(p) \in OfProduct(p) /\ g[i] <= received[FirstLine(p)]
      BY <1>2, <1>3, <1>4, <3>1
    <3>4. SumOf(g, {i}) = g[i]
      BY <3>3, SumOne
    <3>5. received[FirstLine(p)] <= ReceivedOf(p) /\ ReceivedOf(p) \in Nat
      BY <3>3, LineIsPart
    <3>6. received[FirstLine(p)] \in Nat
      BY <3>3 DEF MatchInv, OfProduct
    <3> QED
      BY <3>2, <3>3, <3>4, <3>5, <3>6
  <2> QED
    BY <2>1, <2>2
<1>7. ASSUME NEW l \in LinesOf(b), l.product = p
      PROVE  \E k \in OfProduct(p) : 50 * l.unitPrice <= 51 * OrderLines[k].unitPrice
  BY <1>2, <1>7 DEF LinesOf
<1> QED
  BY <1>1, <1>5, <1>6, <1>7

\* An invoice that names each product once and was approved line by line asks
\* for no more than was received, at no more than 2% above the ordered price,
\* for any order, any invoices of it and any sequence of receipts.
THEOREM OneInvoiceIsAlwaysCovered == MatchSpec => []OneInvoiceIsCovered
<1>1. MatchInv => OneInvoiceIsCovered
  BY MatchCovers DEF OneInvoiceIsCovered
<1> QED
  BY <1>1, MatchInitHolds, MatchInvNext, PTL DEF MatchSpec

-----------------------------------------------------------------------------
(***************************************************************************)
(* Payroll runs, for any staff, chunks, runs and faults.  While the roster *)
(* keeps still under a run, a run at work has paid the rows it has read,   *)
(* each once, and its sum is their pay; a crash puts the job back with     *)
(* what it was to pay still on the roster, so that what an earlier attempt *)
(* posted is what the next one arrives at.                                 *)
(***************************************************************************)

RunRow == [status : {"NONE", "PROCESSING", "COMPLETED", "FAILED"}, total : Nat]
AttemptType == [pc : {"idle", "chunk", "emit", "ack"}, skip : Nat, sum : Nat]

PayrollType ==
  /\ payrun \in [PayrollRuns -> RunRow]
  /\ payjob \in [PayrollRuns -> {"none", "asked", "waiting", "active", "done"}]
  /\ attempt \in [PayrollRuns -> AttemptType]
  /\ payslips \in [PayrollRuns -> [Staff -> Nat]]
  /\ roster \in Seq(Staff) /\ \A j, k \in DOMAIN roster : roster[j] = roster[k] => j = k
  /\ expense \in [PayrollRuns -> Seq(Nat)]
  /\ due \in [PayrollRuns -> SUBSET Staff]
  /\ payTally \in [faults : Nat, changes : Nat]

\* A run no attempt was made for.
Untried(r) ==
  payjob[r] \in {"none", "asked"} \/ (payjob[r] = "waiting" /\ r \notin stalled)

\* A run under way, also between two attempts.
RunUnderWay(r) == payjob[r] = "active" \/ (payjob[r] = "waiting" /\ r \in stalled)

JobInv(r) ==
  /\ payjob[r] = "active" <=> attempt[r].pc # "idle"
  /\ attempt[r].pc = "idle" => attempt[r] = Idle
  /\ payjob[r] = "asked" => payrun[r].status = "PROCESSING"
  /\ payjob[r] \in {"none", "asked"} => r \notin stalled
  /\ r \in stalled => payTally.faults >= 1
  /\ Untried(r) => r \notin completed /\ payrun[r].total = 0 /\ expense[r] = <<>> /\ due[r] = {}
  /\ Len(expense[r]) <= 1

\* The employees in the first rows.
FirstRows(k) == {roster[j] : j \in 1 .. k}
WithPay(S) == {e \in S : NetPay[e] > 0}
PaidOnce(r, S) == \A e \in Staff : payslips[r][e] = IF e \in S /\ NetPay[e] > 0 THEN 1 ELSE 0
RowsRead(r) == IF attempt[r].skip < Len(roster) THEN attempt[r].skip ELSE Len(roster)

PaidUp(r) == PaidOnce(r, due[r]) /\ payrun[r].total = PayOf(due[r])

PayInv(r) ==
  r \notin disturbed =>
    /\ RunUnderWay(r) => due[r] = OnRoster
    /\ payrun[r].total \in {0, PayOf(due[r])}
    /\ expense[r] \in {<<>>, <<PayOf(due[r])>>}
    /\ attempt[r].pc = "chunk" =>
         PaidOnce(r, FirstRows(RowsRead(r))) /\ attempt[r].sum = PayOf(WithPay(FirstRows(RowsRead(r))))
    /\ attempt[r].pc \in {"emit", "ack"} => PaidUp(r)
    /\ payTally.faults <= 1 /\ payjob[r] = "done" /\ payrun[r].status = "COMPLETED" => PaidUp(r)

PayrollInv == PayrollType /\ \A r \in PayrollRuns : JobInv(r) /\ PayInv(r)

-----------------------------------------------------------------------------
LEMMA PayIsSum == ASSUME NEW S PROVE PayOf(S) = SumOf(NetPay, S)
  BY DEF PayOf, SumOf

LEMMA RowsAreFinite ==
  ASSUME NEW k \in Nat PROVE IsFiniteSet(FirstRows(k))
<1>1. PICK f : f = [j \in 1 .. k |-> roster[j]]
  OBVIOUS
<1>2. f \in Surjection(1 .. k, FirstRows(k))
  BY <1>1 DEF FirstRows, Surjection
<1>3. IsFiniteSet(1 .. k)
  BY FS_Interval
<1> QED BY <1>2, <1>3, FS_Surjection

LEMMA PayType ==
  ASSUME NEW S \in SUBSET Staff, IsFiniteSet(S) PROVE PayOf(S) \in Nat
<1>1. \A e \in S : NetPay[e] \in Nat
  BY PayrollRunsAssumption
<1> QED BY <1>1, PayIsSum, SumType

\* Employees without a contract add nothing to the pay.
LEMMA PayOfPaid ==
  ASSUME NEW S \in SUBSET Staff, IsFiniteSet(S) PROVE PayOf(WithPay(S)) = PayOf(S)
<1>1. PICK rest : rest = S \ WithPay(S)
  OBVIOUS
<1>2. /\ WithPay(S) \subseteq S /\ IsFiniteSet(WithPay(S)) /\ IsFiniteSet(rest)
      /\ WithPay(S) \cap rest = {} /\ WithPay(S) \cup rest = S
  <2>1. WithPay(S) \subseteq S
    BY DEF WithPay
  <2> QED BY <1>1, <2>1, FS_Subset
<1>3. \A e \in S : NetPay[e] \in Nat
  BY PayrollRunsAssumption
<1>4. SumOf(NetPay, WithPay(S) \cup rest) = SumOf(NetPay, WithPay(S)) + SumOf(NetPay, rest)
  BY <1>2, <1>3, SumUnion
<1>5. \A e \in rest : NetPay[e] = 0
  BY <1>1, <1>3 DEF WithPay
<1>6. PICK z : z = [e \in rest |-> 0]
  OBVIOUS
<1>7. SumOf(NetPay, rest) = SumOf(z, rest)
  BY <1>2, <1>5, <1>6, SumSame
<1>8. SumOf(z, rest) = 0
  <2>1. SumOf(z, rest) \in Nat
    BY <1>2, <1>6, SumType
  <2>2. SumOf(z, rest) = SumOf(z, rest) + SumOf(z, rest)
    <3>1. \A e \in rest : z[e] \in Int /\ z[e] = z[e] + z[e]
      BY <1>6
    <3> QED BY <1>2, <3>1, SumPlus
  <2>3. PICK n : n = SumOf(z, rest)
    OBVIOUS
  <2>4. n \in Nat /\ n = n + n
    BY <2>1, <2>2, <2>3
  <2>5. n = 0
    BY <2>4
  <2> QED BY <2>3, <2>5
<1>9. SumOf(NetPay, WithPay(S)) \in Nat
  BY <1>2, <1>3, SumType
<1>10. SumOf(NetPay, S) = SumOf(NetPay, WithPay(S)) + 0
  BY <1>2, <1>4, <1>7, <1>8
<1>11. SumOf(NetPay, S) = SumOf(NetPay, WithPay(S))
  BY <1>9, <1>10
<1> QED BY <1>11, PayIsSum

\* A run whose pieces no step touched.
LEMMA RunRests ==
  ASSUME NEW q \in PayrollRuns, JobInv(q), PayInv(q), PayrollType,
         payrun'[q] = payrun[q], payjob'[q] = payjob[q], attempt'[q] = attempt[q],
         payslips'[q] = payslips[q], expense'[q] = expense[q], due'[q] = due[q],
         roster' = roster, q \in completed' => q \in completed,
         q \in stalled' <=> q \in stalled, q \in disturbed' <=> q \in disturbed,
         payTally'.faults \in Nat, payTally.faults <= payTally'.faults
  PROVE  JobInv(q)' /\ PayInv(q)'
<1>1. payTally.faults \in Nat
  BY DEF PayrollType
<1>2. JobInv(q)'
  BY <1>1 DEF JobInv, Untried
<1>3. (RunUnderWay(q)' <=> RunUnderWay(q)) /\ OnRoster' = OnRoster /\ RowsRead(q)' = RowsRead(q)
  BY DEF RunUnderWay, OnRoster, RowsRead
<1>4. (\A S : PaidOnce(q, S)' <=> PaidOnce(q, S)) /\ \A k : FirstRows(k)' = FirstRows(k)
  BY DEF PaidOnce, FirstRows
<1>5. PaidUp(q)' <=> PaidUp(q)
  BY DEF PaidUp, PaidOnce
<1>6. PayInv(q)'
  BY <1>1, <1>3, <1>4, <1>5 DEF PayInv
<1> QED BY <1>2, <1>6

\* The run is created and its job queued.
LEMMA RunIsQueued ==
  ASSUME PayrollInv, NEW r \in PayrollRuns, CreateRun(r) \/ QueueRun(r) PROVE PayrollInv'
<1>1. PayrollType /\ JobInv(r) /\ PayInv(r) /\ payTally.faults \in Nat
  BY DEF PayrollInv, PayrollType
<1>2. PICK row \in RunRow : payrun' = [payrun EXCEPT ![r] = row] /\ row.total = payrun[r].total
                            /\ (payjob[r] = "none" => row.status = "PROCESSING")
                            /\ (payjob[r] # "none" => row = payrun[r])
  <2>1. CASE CreateRun(r)
    <3>1. PICK row : row = [payrun[r] EXCEPT !.status = "PROCESSING"]
      OBVIOUS
    <3>2. payrun[r] \in RunRow
      BY <1>1 DEF PayrollType
    <3>3. row \in RunRow /\ row.total = payrun[r].total /\ row.status = "PROCESSING"
      BY <3>1, <3>2 DEF RunRow
    <3>4. payrun' = [payrun EXCEPT ![r] = row] /\ payjob[r] = "none"
      BY <2>1, <3>1 DEF CreateRun
    <3> QED BY <3>3, <3>4
  <2>2. CASE QueueRun(r)
    <3>1. payrun[r] \in RunRow /\ payrun' = [payrun EXCEPT ![r] = payrun[r]] /\ payjob[r] = "asked"
      BY <1>1, <2>2 DEF QueueRun, PayrollType
    <3> QED BY <3>1
  <2> QED BY <2>1, <2>2
<1>3. PICK j \in {"asked", "waiting"} :
        /\ payjob' = [payjob EXCEPT ![r] = j] /\ payjob[r] \in {"none", "asked"}
        /\ (j = "asked" => payjob[r] = "none")
        /\ UNCHANGED <<attempt, payslips, roster, completed, expense, stalled, due, disturbed, payTally>>
  BY DEF CreateRun, QueueRun
<1>4. payrun'[r] = row /\ payjob'[r] = j
      /\ \A q \in PayrollRuns : q # r => payrun'[q] = payrun[q] /\ payjob'[q] = payjob[q]
  BY <1>1, <1>2, <1>3 DEF PayrollType
<1>5. PayrollType'
  BY <1>1, <1>2, <1>3 DEF PayrollType
<1>6. \A q \in PayrollRuns : q # r => JobInv(q)' /\ PayInv(q)'
  BY <1>1, <1>3, <1>4, RunRests DEF PayrollInv
<1>7. JobInv(r)'
  BY <1>1, <1>2, <1>3, <1>4 DEF JobInv, Untried
<1>8. PayInv(r)'
  <2>1. ~RunUnderWay(r)' /\ attempt'[r].pc = "idle"
    BY <1>1, <1>3, <1>4 DEF JobInv, RunUnderWay
  <2>2. payrun'[r].total = payrun[r].total
    BY <1>2, <1>4
  <2> QED BY <1>1, <1>3, <1>4, <2>1, <2>2 DEF PayInv
<1> QED BY <1>5, <1>6, <1>7, <1>8 DEF PayrollInv

\* Nothing is paid yet of what is on the roster; what an earlier attempt posted was
\* the pay of the same employees.
LEMMA AttemptStarts ==
  ASSUME PayrollInv, NEW r \in PayrollRuns, StartAttempt(r) PROVE PayrollInv'
<1>1. PayrollType /\ JobInv(r) /\ PayInv(r) /\ payTally.faults \in Nat /\ payjob[r] = "waiting"
  BY DEF PayrollInv, PayrollType, StartAttempt, Takes
<1>2. attempt[r].pc = "idle" /\ attempt[r] = Idle
  BY <1>1 DEF JobInv
<1>3. PICK a : a = [attempt[r] EXCEPT !.pc = "chunk"]
  OBVIOUS
<1>4. a \in AttemptType /\ a.pc = "chunk" /\ a.skip = 0 /\ a.sum = 0
  BY <1>2, <1>3 DEF Idle, AttemptType
<1>5. /\ payjob' = [payjob EXCEPT ![r] = "active"] /\ attempt' = [attempt EXCEPT ![r] = a]
      /\ payslips' = [payslips EXCEPT ![r] = NoPayslips] /\ due' = [due EXCEPT ![r] = OnRoster]
      /\ UNCHANGED <<payrun, roster, completed, expense, stalled, disturbed, payTally>>
  BY <1>3 DEF StartAttempt
<1>6. OnRoster \in SUBSET Staff /\ NoPayslips \in [Staff -> Nat]
  BY <1>1 DEF PayrollType, OnRoster, NoPayslips
<1>7. /\ payjob'[r] = "active" /\ attempt'[r] = a /\ payslips'[r] = NoPayslips /\ due'[r] = OnRoster
      /\ \A q \in PayrollRuns : q # r => /\ payjob'[q] = payjob[q] /\ attempt'[q] = attempt[q]
                                         /\ payslips'[q] = payslips[q] /\ due'[q] = due[q]
  BY <1>1, <1>5 DEF PayrollType
<1>8. PayrollType'
  BY <1>1, <1>4, <1>5, <1>6 DEF PayrollType
<1>9. \A q \in PayrollRuns : q # r => JobInv(q)' /\ PayInv(q)'
  BY <1>1, <1>5, <1>7, RunRests DEF PayrollInv
<1>10. JobInv(r)'
  BY <1>1, <1>4, <1>5, <1>7 DEF JobInv, Untried
<1>11. ASSUME r \notin disturbed' PROVE PayInv(r)'
  <2>1. RowsRead(r)' = 0 /\ FirstRows(0)' = {}
    <3>1. Len(roster) \in Nat
      BY <1>1 DEF PayrollType
    <3> QED BY <1>4, <1>5, <1>7, <3>1 DEF RowsRead, FirstRows
  <2>2. PaidOnce(r, {})' /\ WithPay({}) = {} /\ PayOf({}) = 0
    BY <1>7, PayIsSum, SumEmpty DEF PaidOnce, NoPayslips, WithPay
  <2>3. OnRoster' = OnRoster /\ payrun'[r] = payrun[r] /\ expense'[r] = expense[r]
    BY <1>5 DEF OnRoster
  <2>4. payrun[r].total \in {0, PayOf(OnRoster)} /\ expense[r] \in {<<>>, <<PayOf(OnRoster)>>}
    <3>1. CASE r \in stalled
      BY <1>1, <1>5, <1>11, <3>1 DEF PayInv, RunUnderWay
    <3>2. CASE r \notin stalled
      BY <1>1, <3>2 DEF JobInv, Untried
    <3> QED BY <3>1, <3>2
  <2>5. attempt'[r].pc = "chunk" /\ attempt'[r].sum = 0 /\ payjob'[r] = "active"
    BY <1>4, <1>7
  <2> QED BY <1>7, <2>1, <2>2, <2>3, <2>4, <2>5 DEF PayInv
<1>12. PayInv(r)'
  BY <1>11 DEF PayInv
<1> QED BY <1>8, <1>9, <1>10, <1>12 DEF PayrollInv

Page(a, b) == WithPay({roster[k] : k \in a + 1 .. b})

\* The rows of a page follow those of the pages before it, and no row comes twice.
LEMMA PageAdds ==
  ASSUME PayrollType, NEW a \in Nat, NEW b \in Nat, a <= b, b <= Len(roster)
  PROVE  /\ \A e \in Staff : (e \in FirstRows(b) /\ NetPay[e] > 0)
                               <=> ((e \in FirstRows(a) /\ NetPay[e] > 0) \/ e \in Page(a, b))
         /\ \A e \in Page(a, b) : e \in Staff /\ e \notin FirstRows(a)
         /\ PayOf(Page(a, b)) \in Nat /\ PayOf(WithPay(FirstRows(a))) \in Nat
         /\ PayOf(WithPay(FirstRows(b))) = PayOf(WithPay(FirstRows(a))) + PayOf(Page(a, b))
<1>1. /\ \A k \in 1 .. Len(roster) : roster[k] \in Staff
      /\ \A j, k \in 1 .. Len(roster) : roster[j] = roster[k] => j = k
      /\ Len(roster) \in Nat
  BY DEF PayrollType
<1>2. PICK old : old = FirstRows(a)
  OBVIOUS
<1>3. PICK new : new = {roster[k] : k \in a + 1 .. b}
  OBVIOUS
<1>15. PICK page : page = Page(a, b)
  OBVIOUS
<1>4. FirstRows(b) = old \cup new
  <2>1. \A k \in 1 .. b : k \in 1 .. a \/ k \in a + 1 .. b
    OBVIOUS
  <2>2. \A k \in 1 .. a : k \in 1 .. b
    OBVIOUS
  <2>3. \A k \in a + 1 .. b : k \in 1 .. b
    OBVIOUS
  <2> QED BY <1>2, <1>3, <2>1, <2>2, <2>3 DEF FirstRows
<1>5. old \cap new = {}
  <2> SUFFICES ASSUME NEW j \in 1 .. a, NEW k \in a + 1 .. b, roster[j] = roster[k] PROVE FALSE
    BY <1>2, <1>3 DEF FirstRows
  <2>1. j \in 1 .. Len(roster) /\ k \in 1 .. Len(roster) /\ j # k
    BY <1>1
  <2> QED BY <1>1, <2>1
<1>6. old \subseteq Staff /\ new \subseteq Staff
  <2>1. \A k \in 1 .. b : roster[k] \in Staff
    BY <1>1
  <2> QED BY <1>2, <1>3, <2>1 DEF FirstRows
<1>7. IsFiniteSet(old) /\ IsFiniteSet(old \cup new)
  BY <1>2, <1>4, RowsAreFinite
<1>8. page = WithPay(new) /\ WithPay(old \cup new) = WithPay(old) \cup page
  BY <1>3, <1>15 DEF WithPay, Page
<1>9. /\ WithPay(old) \subseteq old /\ page \subseteq new
      /\ IsFiniteSet(WithPay(old)) /\ IsFiniteSet(page)
  <2>1. WithPay(old) \subseteq old /\ page \subseteq new
    BY <1>8 DEF WithPay
  <2> QED BY <1>7, <2>1, FS_Subset
<1>10. PayOf(WithPay(old)) \in Nat /\ PayOf(page) \in Nat
  BY <1>6, <1>9, PayType
<1>11. SumOf(NetPay, WithPay(old) \cup page) = SumOf(NetPay, WithPay(old)) + SumOf(NetPay, page)
  <2>1. WithPay(old) \cap page = {}
    BY <1>5, <1>9
  <2>2. \A e \in WithPay(old) \cup page : NetPay[e] \in Int
    BY <1>6, <1>9, PayrollRunsAssumption
  <2> QED BY <1>9, <2>1, <2>2, SumUnion
<1>12. PayOf(WithPay(FirstRows(b))) = PayOf(WithPay(old)) + PayOf(page)
  BY <1>4, <1>8, <1>11, PayIsSum
<1>13. \A e \in page : e \in Staff /\ e \notin old
  BY <1>5, <1>6, <1>9
<1>14. \A e : (e \in FirstRows(b) /\ NetPay[e] > 0) <=> ((e \in old /\ NetPay[e] > 0) \/ e \in page)
  BY <1>4, <1>8 DEF WithPay
<1> QED BY <1>2, <1>10, <1>12, <1>13, <1>14, <1>15

LEMMA ChunkIsPaid ==
  ASSUME PayrollInv, NEW r \in PayrollRuns, PayChunk(r) PROVE PayrollInv'
<1>1. PayrollType /\ JobInv(r) /\ PayInv(r) /\ payTally.faults \in Nat
  BY DEF PayrollInv, PayrollType
<1>2. PICK skip : skip = attempt[r].skip
  OBVIOUS
<1>3. PICK last : last = IF skip + ChunkSize < Len(roster) THEN skip + ChunkSize ELSE Len(roster)
  OBVIOUS
<1>4. PICK page : page = Page(skip, last)
  OBVIOUS
<1>5. PICK a : a = [attempt[r] EXCEPT !.skip = @ + ChunkSize, !.sum = @ + PayOf(page)]
  OBVIOUS
<1>6. PICK slips : slips = [e \in Staff |-> payslips[r][e] + IF e \in page THEN 1 ELSE 0]
  OBVIOUS
<1>7. /\ attempt[r].pc = "chunk" /\ skip < Len(roster)
      /\ payslips' = [payslips EXCEPT ![r] = slips] /\ attempt' = [attempt EXCEPT ![r] = a]
      /\ UNCHANGED <<payrun, payjob, roster, completed, expense, stalled, due, disturbed, payTally>>
  <2>1. page = {e \in {roster[k] : k \in attempt[r].skip + 1 .. last} : NetPay[e] > 0}
    BY <1>2, <1>4 DEF Page, WithPay
  <2>4. attempt' = [attempt EXCEPT ![r] =
                      [attempt[r] EXCEPT !.skip = @ + ChunkSize,
                                !.sum = @ + PayOf({e \in {roster[k] : k \in attempt[r].skip + 1 .. last} :
                                                     NetPay[e] > 0})]]
    BY <1>2, <1>3 DEF PayChunk
  <2>5. attempt' = [attempt EXCEPT ![r] = [attempt[r] EXCEPT !.skip = @ + ChunkSize, !.sum = @ + PayOf(page)]]
    BY <2>1, <2>4
  <2>2. attempt' = [attempt EXCEPT ![r] = a]
    BY <1>5, <2>5
  <2>3. payslips' = [payslips EXCEPT ![r] = slips]
    BY <1>2, <1>3, <1>6, <2>1 DEF PayChunk
  <2> QED BY <1>2, <2>2, <2>3 DEF PayChunk
<1>8. /\ skip \in Nat /\ Len(roster) \in Nat /\ ChunkSize \in Nat /\ ChunkSize > 0
      /\ last \in Nat /\ skip <= last /\ last <= Len(roster)
  <2>1. attempt[r] \in AttemptType /\ Len(roster) \in Nat /\ ChunkSize \in Nat \ {0}
    BY <1>1, PayrollRunsAssumption DEF PayrollType
  <2>2. skip \in Nat
    BY <1>2, <2>1 DEF AttemptType
  <2> QED BY <1>3, <1>7, <2>1, <2>2
<1>9. /\ \A e \in Staff : (e \in FirstRows(last) /\ NetPay[e] > 0)
                            <=> ((e \in FirstRows(skip) /\ NetPay[e] > 0) \/ e \in page)
      /\ \A e \in page : e \in Staff /\ e \notin FirstRows(skip)
      /\ PayOf(page) \in Nat /\ PayOf(WithPay(FirstRows(skip))) \in Nat
      /\ PayOf(WithPay(FirstRows(last))) = PayOf(WithPay(FirstRows(skip))) + PayOf(page)
  BY <1>1, <1>4, <1>8, PageAdds, ZenonT(30)
<1>10. a \in AttemptType /\ a.pc = "chunk" /\ a.skip = skip + ChunkSize /\ a.sum = attempt[r].sum + PayOf(page)
  <2>1. attempt[r] \in AttemptType /\ attempt[r].pc = "chunk" /\ attempt[r].skip = skip
    BY <1>1, <1>2, <1>7 DEF PayrollType
  <2>2. PICK p \in Nat : p = PayOf(page)
    BY <1>9
  <2>3. a = [attempt[r] EXCEPT !.skip = @ + ChunkSize, !.sum = @ + p]
    BY <1>5, <2>2
  <2>4. attempt[r].sum \in Nat /\ attempt[r] \in [pc : {"idle", "chunk", "emit", "ack"}, skip : Nat, sum : Nat]
    BY <2>1 DEF AttemptType
  <2>5. PICK s \in Nat : s = attempt[r].skip + ChunkSize
    BY <1>8, <2>1
  <2>8. PICK u \in Nat : u = attempt[r].sum + p
    BY <2>2, <2>4
  <2>6. a = [attempt[r] EXCEPT !.skip = s, !.sum = u]
    BY <2>3, <2>5, <2>8
  <2>7. a \in AttemptType /\ a.pc = "chunk" /\ a.skip = s /\ a.sum = u
    BY <2>1, <2>4, <2>6 DEF AttemptType
  <2> QED BY <2>1, <2>2, <2>5, <2>7, <2>8
<1>11. slips \in [Staff -> Nat]
  <2>1. payslips[r] \in [Staff -> Nat]
    BY <1>1 DEF PayrollType
  <2> QED BY <1>6, <2>1
<1>12. /\ attempt'[r] = a /\ payslips'[r] = slips
       /\ \A q \in PayrollRuns : q # r => attempt'[q] = attempt[q] /\ payslips'[q] = payslips[q]
  BY <1>1, <1>7 DEF PayrollType
<1>13. PayrollType'
  BY <1>1, <1>7, <1>10, <1>11 DEF PayrollType
<1>14. \A q \in PayrollRuns : q # r => JobInv(q)' /\ PayInv(q)'
  BY <1>1, <1>7, <1>12, RunRests DEF PayrollInv
<1>15. payjob[r] = "active" /\ payjob'[r] = "active"
  BY <1>1, <1>7 DEF JobInv
<1>16. JobInv(r)'
  BY <1>1, <1>7, <1>10, <1>12, <1>15 DEF JobInv, Untried
<1>17. ASSUME r \notin disturbed' PROVE PayInv(r)'
  <2>1. RowsRead(r) = skip /\ RowsRead(r)' = last /\ FirstRows(last)' = FirstRows(last)
    BY <1>2, <1>3, <1>7, <1>8, <1>10, <1>12 DEF RowsRead, FirstRows
  <2>2. PaidOnce(r, FirstRows(skip)) /\ attempt[r].sum = PayOf(WithPay(FirstRows(skip)))
    BY <1>1, <1>7, <1>17, <2>1 DEF PayInv
  <2>3. PaidOnce(r, FirstRows(last))'
    <3> SUFFICES ASSUME NEW e \in Staff
                 PROVE  slips[e] = IF e \in FirstRows(last) /\ NetPay[e] > 0 THEN 1 ELSE 0
      BY <1>12, <2>1 DEF PaidOnce
    <3>1. payslips[r][e] = IF e \in FirstRows(skip) /\ NetPay[e] > 0 THEN 1 ELSE 0
      BY <2>2 DEF PaidOnce
    <3>2. slips[e] = payslips[r][e] + IF e \in page THEN 1 ELSE 0
      BY <1>6
    <3> QED BY <1>9, <3>1, <3>2
  <2>4. attempt'[r].sum = PayOf(WithPay(FirstRows(last)))
    BY <1>9, <1>10, <1>12, <2>2
  <2>5. /\ due'[r] = due[r] /\ OnRoster' = OnRoster /\ payrun'[r] = payrun[r] /\ expense'[r] = expense[r]
        /\ (RunUnderWay(r)' <=> RunUnderWay(r)) /\ attempt'[r].pc = "chunk"
    BY <1>7, <1>10, <1>12 DEF OnRoster, RunUnderWay
  <2> QED BY <1>1, <1>7, <1>15, <1>17, <2>1, <2>3, <2>4, <2>5 DEF PayInv
<1>18. PayInv(r)'
  BY <1>17 DEF PayInv
<1> QED BY <1>13, <1>14, <1>16, <1>18 DEF PayrollInv

\* All rows are read: the run has paid everybody who was due.
LEMMA RunIsComplete ==
  ASSUME PayrollInv, NEW r \in PayrollRuns, CompleteRun(r) PROVE PayrollInv'
<1>1. PayrollType /\ JobInv(r) /\ PayInv(r) /\ payTally.faults \in Nat
  BY DEF PayrollInv, PayrollType
<1>2. attempt[r] \in AttemptType /\ Len(roster) \in Nat
  BY <1>1 DEF PayrollType
<1>3. attempt[r].sum \in Nat
  BY <1>2 DEF AttemptType
<1>4. PICK row : row = [status |-> "COMPLETED", total |-> attempt[r].sum]
  OBVIOUS
<1>5. row \in RunRow /\ row.total = attempt[r].sum
  BY <1>3, <1>4 DEF RunRow
<1>6. PICK a : a = [attempt[r] EXCEPT !.pc = "emit"]
  OBVIOUS
<1>7. a \in AttemptType /\ a.pc = "emit"
  BY <1>2, <1>6 DEF AttemptType
<1>8. /\ attempt[r].pc = "chunk" /\ attempt[r].skip >= Len(roster)
      /\ payrun' = [payrun EXCEPT ![r] = row] /\ attempt' = [attempt EXCEPT ![r] = a]
      /\ UNCHANGED <<payjob, payslips, roster, completed, expense, stalled, due, disturbed, payTally>>
  BY <1>4, <1>6 DEF CompleteRun
<1>9. /\ payrun'[r] = row /\ attempt'[r] = a
      /\ \A q \in PayrollRuns : q # r => payrun'[q] = payrun[q] /\ attempt'[q] = attempt[q]
  BY <1>1, <1>8 DEF PayrollType
<1>10. PayrollType'
  BY <1>1, <1>5, <1>7, <1>8 DEF PayrollType
<1>11. \A q \in PayrollRuns : q # r => JobInv(q)' /\ PayInv(q)'
  BY <1>1, <1>8, <1>9, RunRests DEF PayrollInv
<1>12. payjob[r] = "active" /\ payjob'[r] = "active"
  BY <1>1, <1>8 DEF JobInv
<1>13. JobInv(r)'
  BY <1>1, <1>7, <1>8, <1>9, <1>12 DEF JobInv, Untried
<1>14. ASSUME r \notin disturbed' PROVE PayInv(r)'
  <2>1. due[r] = OnRoster /\ due'[r] = due[r] /\ OnRoster' = OnRoster
    BY <1>1, <1>8, <1>12, <1>14 DEF PayInv, RunUnderWay, OnRoster
  <2>2. FirstRows(RowsRead(r)) = OnRoster
    <3>1. RowsRead(r) = Len(roster)
      <4>1. attempt[r].skip \in Nat
        BY <1>2 DEF AttemptType
      <4> QED BY <1>2, <1>8, <4>1 DEF RowsRead
    <3> QED BY <3>1 DEF FirstRows, OnRoster
  <2>3. PaidOnce(r, due[r]) /\ attempt[r].sum = PayOf(WithPay(due[r]))
    BY <1>1, <1>8, <1>14, <2>1, <2>2 DEF PayInv
  <2>4. due[r] \in SUBSET Staff /\ IsFiniteSet(due[r])
    <3>1. OnRoster = FirstRows(Len(roster))
      BY DEF FirstRows, OnRoster
    <3> QED BY <1>1, <1>2, <2>1, <3>1, RowsAreFinite DEF PayrollType
  <2>5. payrun'[r].total = PayOf(due'[r])
    BY <1>5, <1>9, <2>1, <2>3, <2>4, PayOfPaid
  <2>6. PaidUp(r)'
    BY <1>8, <2>1, <2>3, <2>5 DEF PaidUp, PaidOnce
  <2> QED BY <1>1, <1>7, <1>8, <1>9, <1>14, <2>1, <2>5, <2>6 DEF PayInv
<1>15. PayInv(r)'
  BY <1>14 DEF PayInv
<1> QED BY <1>10, <1>11, <1>13, <1>15 DEF PayrollInv

LEMMA RunIsAnnounced ==
  ASSUME PayrollInv, NEW r \in PayrollRuns, EmitCompleted(r) PROVE PayrollInv'
<1>1. PayrollType /\ JobInv(r) /\ PayInv(r) /\ payTally.faults \in Nat
  BY DEF PayrollInv, PayrollType
<1>2. PICK a : a = [attempt[r] EXCEPT !.pc = "ack"]
  OBVIOUS
<1>3. a \in AttemptType /\ a.pc = "ack"
  BY <1>1, <1>2 DEF AttemptType, PayrollType
<1>4. /\ attempt[r].pc = "emit" /\ completed' = completed \cup {r} /\ attempt' = [attempt EXCEPT ![r] = a]
      /\ UNCHANGED <<payrun, payjob, payslips, roster, expense, stalled, due, disturbed, payTally>>
  BY <1>2 DEF EmitCompleted
<1>5. attempt'[r] = a /\ \A q \in PayrollRuns : q # r => attempt'[q] = attempt[q]
  BY <1>1, <1>4 DEF PayrollType
<1>6. PayrollType'
  BY <1>1, <1>3, <1>4 DEF PayrollType
<1>7. \A q \in PayrollRuns : q # r => JobInv(q)' /\ PayInv(q)'
  BY <1>1, <1>4, <1>5, RunRests DEF PayrollInv
<1>8. payjob[r] = "active" /\ payjob'[r] = "active"
  BY <1>1, <1>4 DEF JobInv
<1>9. JobInv(r)'
  BY <1>1, <1>3, <1>4, <1>5, <1>8 DEF JobInv, Untried
<1>10. PayInv(r)'
  <2>1. OnRoster' = OnRoster /\ (RunUnderWay(r)' <=> RunUnderWay(r)) /\ (PaidUp(r)' <=> PaidUp(r))
    BY <1>4 DEF OnRoster, RunUnderWay, PaidUp, PaidOnce
  <2> QED BY <1>1, <1>3, <1>4, <1>5, <1>8, <2>1 DEF PayInv
<1> QED BY <1>6, <1>7, <1>9, <1>10 DEF PayrollInv

\* The job ends: acknowledged, or failed for good with a run that is then FAILED.
LEMMA JobEnds ==
  ASSUME PayrollInv, NEW r \in PayrollRuns, AckRun(r) \/ AttemptFails(r) PROVE PayrollInv'
<1>1. PayrollType /\ JobInv(r) /\ PayInv(r) /\ payTally.faults \in Nat
  BY DEF PayrollInv, PayrollType
<1>2. /\ payjob' = [payjob EXCEPT ![r] = "done"] /\ attempt' = [attempt EXCEPT ![r] = Idle]
      /\ UNCHANGED <<payslips, roster, completed, expense, stalled, due, disturbed>>
      /\ attempt[r].pc # "idle"
  BY DEF AckRun, AttemptFails
<1>3. PICK row \in RunRow : payrun' = [payrun EXCEPT ![r] = row] /\ row.total = payrun[r].total
                            /\ (row.status = "FAILED" \/ (attempt[r].pc = "ack" /\ row = payrun[r]))
  <2>1. payrun[r] \in RunRow
    BY <1>1 DEF PayrollType
  <2>2. CASE AckRun(r)
    <3>1. payrun' = [payrun EXCEPT ![r] = payrun[r]]
      BY <1>1, <2>2 DEF AckRun, PayrollType
    <3> QED BY <2>1, <2>2, <3>1 DEF AckRun
  <2>3. CASE AttemptFails(r)
    <3>1. PICK row : row = [payrun[r] EXCEPT !.status = "FAILED"]
      OBVIOUS
    <3>2. row \in RunRow /\ row.total = payrun[r].total /\ row.status = "FAILED"
      BY <2>1, <3>1 DEF RunRow
    <3>3. payrun' = [payrun EXCEPT ![r] = row]
      BY <2>3, <3>1 DEF AttemptFails
    <3> QED BY <3>2, <3>3
  <2> QED BY <2>2, <2>3
<1>4. payTally' \in [faults : Nat, changes : Nat] /\ payTally.faults <= payTally'.faults
  <2>1. payTally' = payTally \/ payTally' = [payTally EXCEPT !.faults = @ + 1]
    BY DEF AckRun, AttemptFails, OneFault
  <2> QED BY <1>1, <2>1 DEF PayrollType
<1>5. payTally'.faults \in Nat
  BY <1>4
<1>6. /\ payrun'[r] = row /\ payjob'[r] = "done" /\ attempt'[r] = Idle
      /\ \A q \in PayrollRuns : q # r => /\ payrun'[q] = payrun[q] /\ payjob'[q] = payjob[q]
                                         /\ attempt'[q] = attempt[q]
  BY <1>1, <1>2, <1>3 DEF PayrollType
<1>7. Idle \in AttemptType /\ Idle.pc = "idle"
  BY DEF Idle, AttemptType
<1>8. PayrollType'
  BY <1>1, <1>2, <1>3, <1>4, <1>7 DEF PayrollType
<1>9. \A q \in PayrollRuns : q # r => JobInv(q)' /\ PayInv(q)'
  BY <1>1, <1>2, <1>4, <1>5, <1>6, RunRests DEF PayrollInv
<1>10. JobInv(r)'
  BY <1>1, <1>2, <1>4, <1>5, <1>6, <1>7 DEF JobInv, Untried
<1>11. PayInv(r)'
  <2>1. ~RunUnderWay(r)' /\ due'[r] = due[r] /\ expense'[r] = expense[r] /\ payrun'[r].total = payrun[r].total
    BY <1>2, <1>3, <1>6 DEF RunUnderWay
  <2>2. r \notin disturbed' /\ payrun'[r].status = "COMPLETED" => PaidUp(r)'
    <3>1. SUFFICES ASSUME r \notin disturbed, row.status = "COMPLETED" PROVE PaidUp(r)'
      BY <1>2, <1>6
    <3>2. PaidUp(r)
      BY <1>1, <1>3, <3>1 DEF PayInv
    <3> QED BY <1>2, <2>1, <3>2 DEF PaidUp, PaidOnce
  <2> QED BY <1>1, <1>2, <1>6, <1>7, <2>1, <2>2 DEF PayInv
<1> QED BY <1>8, <1>9, <1>10, <1>11 DEF PayrollInv

\* A crash: what the job was to pay is still on the roster when it waits again; a job
\* that had stalled before is given up, after a second fault.
LEMMA CrashKeepsPay == ASSUME PayrollInv, PayrollCrash PROVE PayrollInv'
<1>1. PayrollType /\ payTally.faults \in Nat
  BY DEF PayrollInv, PayrollType
<1>2. /\ payTally' = [payTally EXCEPT !.faults = @ + 1]
      /\ UNCHANGED <<payrun, payslips, roster, expense, due, disturbed>>
      /\ completed' = {} /\ attempt' = [q \in PayrollRuns |-> Idle]
      /\ stalled' = stalled \cup {r \in PayrollRuns : payjob[r] = "active"}
  BY DEF PayrollCrash, OneFault
<1>3. payTally' \in [faults : Nat, changes : Nat] /\ payTally'.faults = payTally.faults + 1
  <2>1. payTally \in [faults : Nat, changes : Nat] /\ payTally' = [payTally EXCEPT !.faults = @ + 1]
    BY <1>1, <1>2 DEF PayrollType
  <2> QED BY <2>1
<1>4. payjob' = [r \in PayrollRuns |->
        IF payjob[r] = "asked" \/ (payjob[r] = "active" /\ r \in stalled) THEN "done"
        ELSE IF payjob[r] = "active" THEN "waiting" ELSE payjob[r]]
  BY DEF PayrollCrash
<1>5. Idle \in AttemptType /\ Idle.pc = "idle"
  BY DEF Idle, AttemptType
<1>6. PayrollType'
  BY <1>1, <1>2, <1>3, <1>4, <1>5 DEF PayrollType
<1>7. ASSUME NEW q \in PayrollRuns PROVE JobInv(q)' /\ PayInv(q)'
  <2>1. JobInv(q) /\ PayInv(q) /\ attempt'[q] = Idle /\ payjob[q] \in {"none", "asked", "waiting", "active", "done"}
    BY <1>1, <1>2, <1>7 DEF PayrollInv, PayrollType
  <2>2. payjob'[q] = IF payjob[q] = "asked" \/ (payjob[q] = "active" /\ q \in stalled) THEN "done"
                     ELSE IF payjob[q] = "active" THEN "waiting" ELSE payjob[q]
    BY <1>4
  <2>3. q \in stalled' <=> (q \in stalled \/ payjob[q] = "active")
    BY <1>2
  <2>4. JobInv(q)'
    <3>1. (payjob'[q] # "active") /\ payjob'[q] # "asked"
      BY <2>1, <2>2
    <3>2. payjob'[q] = "none" => payjob[q] = "none"
      BY <2>1, <2>2
    <3>3. Untried(q)' => Untried(q)
      BY <2>1, <2>2, <2>3 DEF Untried
    <3>4. payTally'.faults >= 1
      BY <1>1, <1>3
    <3> QED BY <1>2, <1>5, <2>1, <2>3, <3>1, <3>2, <3>3, <3>4 DEF JobInv
  <2>5. PayInv(q)'
    <3>1. RunUnderWay(q)' => RunUnderWay(q)
      BY <2>1, <2>2, <2>3 DEF RunUnderWay
    <3>2. OnRoster' = OnRoster /\ (PaidUp(q)' <=> PaidUp(q))
      BY <1>2 DEF OnRoster, PaidUp, PaidOnce
    <3>3. payTally'.faults <= 1 /\ payjob'[q] = "done" /\ payrun'[q].status = "COMPLETED"
            => payTally.faults <= 1 /\ payjob[q] = "done" /\ payrun[q].status = "COMPLETED"
      <4>1. payTally'.faults <= 1 => q \notin stalled
        BY <1>1, <1>3, <2>1 DEF JobInv
      <4>2. payTally'.faults <= 1 => payTally.faults <= 1
        BY <1>1, <1>3
      <4>3. payrun'[q].status = "COMPLETED" => payjob[q] # "asked" /\ payrun[q].status = "COMPLETED"
        BY <1>2, <2>1 DEF JobInv
      <4> QED BY <2>1, <2>2, <4>1, <4>2, <4>3
    <3> QED BY <1>2, <1>5, <2>1, <3>1, <3>2, <3>3 DEF PayInv
  <2> QED BY <2>4, <2>5
<1> QED BY <1>6, <1>7 DEF PayrollInv

\* The listener posts the total of the run's row, at most once.
LEMMA PayIsPosted ==
  ASSUME PayrollInv, NEW r \in PayrollRuns, PostPayroll(r) \/ PostPayrollFails(r) PROVE PayrollInv'
<1>1. PayrollType /\ JobInv(r) /\ PayInv(r) /\ payTally.faults \in Nat
  BY DEF PayrollInv, PayrollType
<1>2. /\ r \in completed /\ completed' = completed \ {r}
      /\ UNCHANGED <<payrun, payjob, attempt, payslips, roster, stalled, due, disturbed>>
  BY DEF PostPayroll, PostPayrollFails
<1>3. payTally' \in [faults : Nat, changes : Nat] /\ payTally.faults <= payTally'.faults
  <2>1. payTally' = payTally \/ payTally' = [payTally EXCEPT !.faults = @ + 1]
    BY DEF PostPayroll, PostPayrollFails, OneFault
  <2> QED BY <1>1, <2>1 DEF PayrollType
<1>4. payTally'.faults \in Nat
  BY <1>3
<1>5. payrun[r].total \in Nat /\ expense[r] \in Seq(Nat)
  BY <1>1 DEF PayrollType, RunRow
<1>6. PICK x \in Seq(Nat) :
        /\ expense' = [expense EXCEPT ![r] = x]
        /\ x = expense[r] \/ (x = <<payrun[r].total>> /\ payrun[r].total # 0)
  <2>1. CASE expense' = expense
    <3>1. expense' = [expense EXCEPT ![r] = expense[r]]
      BY <1>1, <2>1 DEF PayrollType
    <3> QED BY <1>5, <3>1
  <2>2. CASE expense' # expense
    <3>1. expense[r] = <<>> /\ payrun[r].total # 0
          /\ expense' = [expense EXCEPT ![r] = Append(expense[r], payrun[r].total)]
      BY <2>2 DEF PostPayroll, PostPayrollFails, Posted
    <3>2. Append(expense[r], payrun[r].total) = <<payrun[r].total>>
      BY <1>5, <3>1
    <3>3. <<payrun[r].total>> \in Seq(Nat)
      BY <1>5
    <3> QED BY <3>1, <3>2, <3>3
  <2> QED BY <2>1, <2>2
<1>7. expense'[r] = x /\ \A q \in PayrollRuns : q # r => expense'[q] = expense[q]
  BY <1>1, <1>6 DEF PayrollType
<1>8. PayrollType'
  BY <1>1, <1>2, <1>3, <1>6 DEF PayrollType
<1>9. \A q \in PayrollRuns : q # r => JobInv(q)' /\ PayInv(q)'
  BY <1>1, <1>2, <1>3, <1>4, <1>7, RunRests DEF PayrollInv
<1>10. JobInv(r)'
  <2>1. ~Untried(r) /\ ~Untried(r)'
    BY <1>1, <1>2 DEF JobInv, Untried
  <2>2. Len(expense'[r]) <= 1
    <3>1. Len(<<payrun[r].total>>) = 1 /\ Len(expense[r]) <= 1
      BY <1>1 DEF JobInv
    <3>2. Len(x) <= 1
      <4>1. CASE x = expense[r]
        BY <3>1, <4>1
      <4>2. CASE x = <<payrun[r].total>>
        <5>1. Len(x) = 1
          BY <4>2
        <5> QED BY <5>1
      <4> QED BY <1>6, <4>1, <4>2
    <3> QED BY <1>7, <3>2
  <2> QED BY <1>1, <1>2, <1>3, <1>4, <2>1, <2>2 DEF JobInv
<1>11. PayInv(r)'
  <2>1. OnRoster' = OnRoster /\ (RunUnderWay(r)' <=> RunUnderWay(r)) /\ (PaidUp(r)' <=> PaidUp(r))
    BY <1>2 DEF OnRoster, RunUnderWay, PaidUp, PaidOnce
  <2>2. RowsRead(r)' = RowsRead(r) /\ (\A k : FirstRows(k)' = FirstRows(k)) /\ \A S : PaidOnce(r, S)' <=> PaidOnce(r, S)
    BY <1>2 DEF RowsRead, FirstRows, PaidOnce
  <2>3. r \notin disturbed => expense'[r] \in {<<>>, <<PayOf(due[r])>>}
    BY <1>1, <1>6, <1>7 DEF PayInv
  <2>4. payTally'.faults <= 1 => payTally.faults <= 1
    BY <1>1, <1>3, <1>4
  <2> QED BY <1>1, <1>2, <2>1, <2>2, <2>3, <2>4 DEF PayInv
<1> QED BY <1>8, <1>9, <1>10, <1>11 DEF PayrollInv

\* Rows stay distinct; what is under way is disturbed.
LEMMA RosterMoves ==
  ASSUME PayrollInv, NEW k \in DOMAIN roster, RosterChange(k) PROVE PayrollInv'
<1>1. PayrollType /\ payTally.faults \in Nat
  BY DEF PayrollInv, PayrollType
<1>2. PICK n \in Nat : n = Len(roster)
  BY <1>1 DEF PayrollType
<1>3. /\ k \in 1 .. n /\ (\A j \in 1 .. n : roster[j] \in Staff)
      /\ \A i, j \in 1 .. n : roster[i] = roster[j] => i = j
  <2>1. roster \in Seq(Staff) /\ DOMAIN roster = 1 .. n
    BY <1>1, <1>2 DEF PayrollType
  <2>2. \A i, j \in DOMAIN roster : roster[i] = roster[j] => i = j
    BY <1>1 DEF PayrollType
  <2> QED BY <2>1, <2>2
<1>4. PICK rest : rest = [j \in 1 .. n - 1 |-> roster[IF j < k THEN j ELSE j + 1]]
  OBVIOUS
<1>5. roster' \in {rest, Append(rest, roster[k])}
  BY <1>2, <1>4 DEF RosterChange
<1>6. \A j \in 1 .. n - 1 : (IF j < k THEN j ELSE j + 1) \in 1 .. n
                            /\ (IF j < k THEN j ELSE j + 1) # k
  BY <1>2, <1>3
<1>7. \A j \in 1 .. n - 1 : rest[j] \in Staff /\ rest[j] # roster[k]
  BY <1>3, <1>4, <1>6
<1>8. n - 1 \in Nat
  BY <1>2, <1>3
<1>9. rest \in Seq(Staff) /\ Len(rest) = n - 1 /\ DOMAIN rest = 1 .. n - 1
  BY <1>4, <1>7, <1>8
<1>10. \A i, j \in 1 .. n - 1 : rest[i] = rest[j] => i = j
  <2> SUFFICES ASSUME NEW i \in 1 .. n - 1, NEW j \in 1 .. n - 1, rest[i] = rest[j] PROVE i = j
    OBVIOUS
  <2>1. (IF i < k THEN i ELSE i + 1) = (IF j < k THEN j ELSE j + 1)
    BY <1>3, <1>4, <1>6
  <2> QED BY <1>2, <1>3, <2>1
<1>11. roster' \in Seq(Staff) /\ \A i, j \in DOMAIN roster' : roster'[i] = roster'[j] => i = j
  <2>1. CASE roster' = rest
    BY <1>9, <1>10, <2>1
  <2>2. CASE roster' = Append(rest, roster[k])
    <3>1. roster' \in Seq(Staff) /\ Len(roster') = n /\ DOMAIN roster' = 1 .. n
      BY <1>3, <1>8, <1>9, <2>2
    <3>2. roster'[n] = roster[k] /\ \A j \in 1 .. n - 1 : roster'[j] = rest[j]
      BY <1>3, <1>8, <1>9, <2>2
    <3>3. \A j \in 1 .. n : j = n \/ j \in 1 .. n - 1
      BY <1>2
    <3> QED BY <1>7, <1>10, <3>1, <3>2, <3>3
  <2> QED BY <1>5, <2>1, <2>2
<1>12. /\ payTally' = [payTally EXCEPT !.changes = @ + 1]
       /\ disturbed' = disturbed \cup {r \in PayrollRuns : RunUnderWay(r)}
       /\ UNCHANGED <<payrun, payjob, attempt, payslips, completed, expense, stalled, due>>
  BY DEF RosterChange, RunUnderWay
<1>13. payTally' \in [faults : Nat, changes : Nat] /\ payTally'.faults = payTally.faults
  <2>1. payTally \in [faults : Nat, changes : Nat] /\ payTally' = [payTally EXCEPT !.changes = @ + 1]
    BY <1>1, <1>12 DEF PayrollType
  <2> QED BY <2>1
<1>14. PayrollType'
  BY <1>1, <1>11, <1>12, <1>13 DEF PayrollType
<1>15. ASSUME NEW q \in PayrollRuns PROVE JobInv(q)' /\ PayInv(q)'
  <2>1. JobInv(q) /\ PayInv(q)
    BY <1>15 DEF PayrollInv
  <2>2. JobInv(q)'
    BY <1>12, <1>13, <2>1 DEF JobInv, Untried
  <2>3. q \notin disturbed' => q \notin disturbed /\ ~RunUnderWay(q) /\ ~RunUnderWay(q)' /\ payjob[q] # "active"
    BY <1>12 DEF RunUnderWay
  <2>4. q \notin disturbed' => attempt[q].pc = "idle"
    BY <2>1, <2>3 DEF JobInv
  <2>5. PaidUp(q)' <=> PaidUp(q)
    BY <1>12 DEF PaidUp, PaidOnce
  <2>6. PayInv(q)'
    BY <1>12, <1>13, <2>1, <2>3, <2>4, <2>5 DEF PayInv
  <2> QED BY <2>2, <2>6
<1> QED BY <1>14, <1>15 DEF PayrollInv

LEMMA PayrollStarts == PayrollInit => PayrollInv
<1> SUFFICES ASSUME PayrollInit PROVE PayrollInv
  OBVIOUS
<1>1. PICK row : row = [status |-> "NONE", total |-> 0]
  OBVIOUS
<1>2. row \in RunRow /\ row.status = "NONE" /\ row.total = 0
  BY <1>1 DEF RunRow
<1>3. Idle \in AttemptType /\ Idle.pc = "idle"
  BY DEF Idle, AttemptType
<1>4. NoPayslips \in [Staff -> Nat]
  BY DEF NoPayslips
<1>5. payTally \in [faults : Nat, changes : Nat] /\ payTally.faults = 0
  BY DEF PayrollInit
<1>6. payrun = [r \in PayrollRuns |-> row]
  BY <1>1 DEF PayrollInit
<1>7. PayrollType
  BY <1>2, <1>3, <1>4, <1>5, <1>6, PayrollRunsAssumption DEF PayrollInit, PayrollType
<1>8. ASSUME NEW r \in PayrollRuns PROVE JobInv(r) /\ PayInv(r)
  <2>1. /\ payrun[r].total = 0 /\ payjob[r] = "none" /\ attempt[r] = Idle /\ expense[r] = <<>>
        /\ due[r] = {} /\ r \notin completed /\ r \notin stalled
    BY <1>2, <1>6 DEF PayrollInit
  <2>2. JobInv(r)
    BY <1>3, <1>5, <2>1 DEF JobInv, Untried
  <2>3. PayInv(r)
    BY <1>3, <2>1 DEF PayInv, RunUnderWay
  <2> QED BY <2>2, <2>3
<1> QED BY <1>7, <1>8 DEF PayrollInv

LEMMA PayrollKeeps == PayrollInv /\ [PayrollNext]_payrollVars => PayrollInv'
<1> SUFFICES ASSUME PayrollInv, [PayrollNext]_payrollVars PROVE PayrollInv'
  OBVIOUS
<1>1. CASE UNCHANGED payrollVars
  <2>1. UNCHANGED <<payrun, payjob, attempt, payslips, roster, completed, expense,
                    stalled, due, disturbed, payTally>>
    BY <1>1 DEF payrollVars
  <2>2. PayrollType /\ payTally.faults \in Nat
    BY DEF PayrollInv, PayrollType
  <2>3. PayrollType'
    BY <2>1, <2>2 DEF PayrollType
  <2>4. \A q \in PayrollRuns : JobInv(q)' /\ PayInv(q)'
    BY <2>1, <2>2, RunRests DEF PayrollInv
  <2> QED BY <2>3, <2>4 DEF PayrollInv
<1>2. ASSUME NEW r \in PayrollRuns, CreateRun(r) \/ QueueRun(r) PROVE PayrollInv'
  BY <1>2, RunIsQueued
<1>3. ASSUME NEW r \in PayrollRuns, PayrollSteps(r) \/ AttemptFails(r) \/ PostPayrollFails(r)
      PROVE  PayrollInv'
  BY <1>3, AttemptStarts, ChunkIsPaid, RunIsComplete, RunIsAnnounced, JobEnds, PayIsPosted DEF PayrollSteps
<1> QED BY <1>1, <1>2, <1>3, CrashKeepsPay, RosterMoves DEF PayrollNext

LEMMA PayHolds == PayrollInv => PayrollHolds
<1> SUFFICES ASSUME PayrollInv, NEW r \in PayrollRuns
             PROVE  /\ (payTally.faults <= 1 /\ payjob[r] = "done" /\ payrun[r].status = "COMPLETED"
                          /\ r \notin disturbed) => PaidUp(r)
                    /\ Len(expense[r]) <= 1
                    /\ r \notin disturbed => expense[r] \in {<<>>, <<PayOf(due[r])>>}
  BY DEF PayrollHolds, PaidExactlyOnce, ExpenseIsPay, PaidUp, PaidOnce
<1> QED BY DEF PayrollInv, JobInv, PayInv

\* PayrollProcessor.process and handlePayrollCompleted: for any staff, chunk size and
\* number of runs, and wherever a crash makes the worker begin again, a run that is done
\* and COMPLETED has paid each employee once and its total is their pay, and the ledger
\* holds it at most once and with that amount, unless the roster changed under it.
THEOREM PayrollAlwaysHolds == PayrollSpec => []PayrollHolds
  BY PayrollStarts, PayrollKeeps, PayHolds, PTL DEF PayrollSpec

-----------------------------------------------------------------------------
(***************************************************************************)
(* Notifications, for any channels, attempts and faults.  Each channel of  *)
(* a notification is queued once because the channels notify has yet to    *)
(* take have no job; a row is there from before its job to its deletion;   *)
(* and while nothing failed the provider's answer is where the job stands. *)
(***************************************************************************)

DeliveryRow == [status : {"NONE", "PENDING", "RETRYING", "SENT", "FAILED"}, attempts : Nat]
DispatchJob == [pc : {"none", "waiting", "send", "sent", "catch", "done", "dead"},
                made : Nat, stalled : BOOLEAN]
NotifyCall == [pc : {"none", "in_app", "channel", "add", "over"}, left : Seq(ChannelSet)]

NoticeType ==
  /\ notifying \in [Notices -> NotifyCall]
  /\ dispatch \in [Notices -> [ChannelSet -> DeliveryRow]]
  /\ sendJob \in [Notices -> [ChannelSet -> DispatchJob]]
  /\ accepted \in [Notices -> [ChannelSet -> Nat]]
  /\ noticeFaults \in Nat

\* Row, job and provider's count of one delivery of n, while `live' are the
\* notifications there are.
RowTellsTruth(n, live, row, job, acc) ==
  /\ acc <= 1
  /\ job.pc \in {"none", "waiting", "send", "catch", "dead"} => acc = 0
  /\ n \in live /\ job.pc = "done" => row.status = IF acc = 1 THEN "SENT" ELSE "FAILED"
  /\ n \in live /\ job.pc = "dead" => row.status = "FAILED" /\ row.attempts = MaxAttempts

DeliveryHolds(n, live, row, job, acc, faults) ==
  /\ row.status = "SENT" => acc > 0
  /\ job.pc = "sent" => acc > 0
  /\ n \in live /\ job.pc # "none" => row.status # "NONE"
  /\ job.pc \in {"none", "waiting", "send", "sent", "catch"} => job.made < MaxAttempts
  /\ faults = 0 => RowTellsTruth(n, live, row, job, acc)

DeliveryInv(n, c) ==
  DeliveryHolds(n, notice, dispatch[n][c], sendJob[n][c], accepted[n][c], noticeFaults)

NotifyInv(n) ==
  LET left == notifying[n].left IN
  /\ \A i, j \in DOMAIN left : left[i] = left[j] => i = j
  /\ \A i \in DOMAIN left : sendJob[n][left[i]].pc = "none"
  /\ notifying[n].pc = "none" => n \notin notice
  /\ notifying[n].pc \in {"none", "in_app"} => \A c \in ChannelSet : sendJob[n][c].pc = "none"
  /\ notifying[n].pc \in {"channel", "add"} => left # <<>>
  /\ notifying[n].pc = "add" /\ n \in notice => dispatch[n][left[1]].status # "NONE"

NoticeInv ==
  /\ NoticeType
  /\ \A n \in Notices : NotifyInv(n)
  /\ \A n \in Notices, c \in ChannelSet : DeliveryInv(n, c)

-----------------------------------------------------------------------------
\* One delivery whose job is under way moves on.
LEMMA OneDelivery ==
  ASSUME NoticeInv, NEW n \in Notices, NEW c \in ChannelSet,
         NEW row \in DeliveryRow, NEW job \in DispatchJob, NEW acc \in Nat,
         dispatch' = [dispatch EXCEPT ![n][c] = row],
         sendJob' = [sendJob EXCEPT ![n][c] = job],
         accepted' = [accepted EXCEPT ![n][c] = acc],
         UNCHANGED <<notice, notifying>>,
         noticeFaults' \in Nat, noticeFaults <= noticeFaults',
         sendJob[n][c].pc # "none", job.pc # "none",
         DeliveryHolds(n, notice, row, job, acc, noticeFaults')
  PROVE  NoticeInv'
<1>1. NoticeType
  BY DEF NoticeInv
<1>2. NoticeType'
  BY <1>1 DEF NoticeType
<1>3. /\ dispatch'[n][c] = row /\ sendJob'[n][c] = job /\ accepted'[n][c] = acc
      /\ \A m \in Notices, d \in ChannelSet : (m # n \/ d # c) =>
           /\ dispatch'[m][d] = dispatch[m][d] /\ sendJob'[m][d] = sendJob[m][d]
           /\ accepted'[m][d] = accepted[m][d]
  BY <1>1 DEF NoticeType
<1>4. ASSUME NEW m \in Notices PROVE NotifyInv(m)'
  <2>1. NotifyInv(m) /\ notifying'[m] = notifying[m]
    BY <1>4 DEF NoticeInv
  <2>2. PICK left \in Seq(ChannelSet) : left = notifying[m].left
    <3>1. notifying[m] \in NotifyCall
      BY <1>1 DEF NoticeType
    <3> QED BY <3>1 DEF NotifyCall
  <2>3. \A i \in DOMAIN left : left[i] \in ChannelSet /\ (m = n => left[i] # c)
    BY <2>1, <2>2 DEF NotifyInv
  <2>4. \A i \in DOMAIN left : sendJob'[m][left[i]] = sendJob[m][left[i]]
                               /\ dispatch'[m][left[i]] = dispatch[m][left[i]]
    BY <1>3, <2>3
  <2>5. left # <<>> => 1 \in DOMAIN left
    BY <2>2
  <2>6. notifying[m].pc \in {"none", "in_app"} => \A d \in ChannelSet : sendJob'[m][d].pc = "none"
    BY <1>3, <2>1 DEF NotifyInv
  <2>7. notifying[m].pc = "add" /\ m \in notice => dispatch'[m][left[1]].status # "NONE"
    BY <2>1, <2>2, <2>4, <2>5 DEF NotifyInv
  <2> QED BY <2>1, <2>2, <2>4, <2>6, <2>7 DEF NotifyInv
<1>5. ASSUME NEW m \in Notices, NEW d \in ChannelSet PROVE DeliveryInv(m, d)'
  <2>1. CASE m = n /\ d = c
    BY <1>3, <2>1 DEF DeliveryInv
  <2>2. CASE m # n \/ d # c
    <3>1. DeliveryInv(m, d) /\ noticeFaults \in Nat
      BY <1>1, <1>5 DEF NoticeInv, NoticeType
    <3>2. noticeFaults' = 0 => noticeFaults = 0
      BY <3>1
    <3> QED BY <1>3, <2>2, <3>1, <3>2 DEF DeliveryInv, DeliveryHolds
  <2> QED BY <2>1, <2>2
<1> QED BY <1>2, <1>4, <1>5 DEF NoticeInv

\* The same, when nothing failed meanwhile.
LEMMA SoundDelivery ==
  ASSUME NoticeInv, NEW n \in Notices, NEW c \in ChannelSet,
         NEW row \in DeliveryRow, NEW job \in DispatchJob, NEW acc \in Nat,
         dispatch' = [dispatch EXCEPT ![n][c] = row],
         sendJob' = [sendJob EXCEPT ![n][c] = job],
         accepted' = [accepted EXCEPT ![n][c] = acc],
         UNCHANGED <<notice, notifying, noticeFaults>>,
         sendJob[n][c].pc # "none", job.pc # "none",
         DeliveryHolds(n, notice, row, job, acc, noticeFaults)
  PROVE  NoticeInv'
<1>1. noticeFaults \in Nat
  BY DEF NoticeInv, NoticeType
<1>2. noticeFaults' \in Nat /\ noticeFaults <= noticeFaults'
  BY <1>1
<1>3. DeliveryHolds(n, notice, row, job, acc, noticeFaults')
  OBVIOUS
<1> QED BY <1>2, <1>3, OneDelivery

\* Row, job and count of a delivery, and its notification's.
LEMMA DeliveryFacts ==
  ASSUME NoticeInv, NEW n \in Notices, NEW c \in ChannelSet
  PROVE  /\ dispatch[n][c] \in DeliveryRow /\ sendJob[n][c] \in DispatchJob
         /\ accepted[n][c] \in Nat /\ noticeFaults \in Nat
         /\ dispatch = [dispatch EXCEPT ![n][c] = dispatch[n][c]]
         /\ sendJob = [sendJob EXCEPT ![n][c] = sendJob[n][c]]
         /\ accepted = [accepted EXCEPT ![n][c] = accepted[n][c]]
         /\ DeliveryHolds(n, notice, dispatch[n][c], sendJob[n][c], accepted[n][c], noticeFaults)
<1>1. NoticeType
  BY DEF NoticeInv
<1>2. /\ dispatch[n][c] \in DeliveryRow /\ sendJob[n][c] \in DispatchJob
      /\ accepted[n][c] \in Nat /\ noticeFaults \in Nat
  BY <1>1 DEF NoticeType
<1>3. dispatch = [dispatch EXCEPT ![n][c] = dispatch[n][c]]
  BY <1>1 DEF NoticeType
<1>4. sendJob = [sendJob EXCEPT ![n][c] = sendJob[n][c]]
  BY <1>1 DEF NoticeType
<1>5. accepted = [accepted EXCEPT ![n][c] = accepted[n][c]]
  BY <1>1 DEF NoticeType
<1>6. DeliveryHolds(n, notice, dispatch[n][c], sendJob[n][c], accepted[n][c], noticeFaults)
  BY DEF NoticeInv, DeliveryInv
<1> QED BY <1>2, <1>3, <1>4, <1>5, <1>6

\* updateMany: the row as the dispatcher leaves it.
LEMMA UpdatedRow ==
  ASSUME NoticeInv, NEW n \in Notices, NEW c \in ChannelSet,
         NEW status \in {"PENDING", "RETRYING", "SENT", "FAILED"}, NEW made \in Nat,
         UpdateDelivery(n, c, status, made)
  PROVE  \E row \in DeliveryRow :
           /\ dispatch' = [dispatch EXCEPT ![n][c] = row]
           /\ \/ row = dispatch[n][c] /\ row.status = "NONE"
              \/ row.status = status /\ row.attempts = made
<1>1. dispatch[n][c] \in DeliveryRow /\ dispatch = [dispatch EXCEPT ![n][c] = dispatch[n][c]]
  BY DeliveryFacts
<1>2. CASE dispatch[n][c] = NoDelivery
  <2>1. dispatch[n][c].status = "NONE" /\ dispatch' = dispatch
    BY <1>2 DEF NoDelivery, UpdateDelivery
  <2> QED BY <1>1, <2>1
<1>3. CASE dispatch[n][c] # NoDelivery
  <2>1. PICK row : row = [status |-> status, attempts |-> made]
    OBVIOUS
  <2>2. row \in DeliveryRow /\ row.status = status /\ row.attempts = made
    BY <2>1 DEF DeliveryRow
  <2>3. dispatch' = [dispatch EXCEPT ![n][c] = row]
    BY <1>3, <2>1 DEF UpdateDelivery
  <2> QED BY <2>2, <2>3
<1> QED BY <1>2, <1>3

LEMMA JobMoves ==
  ASSUME NoticeInv, NEW n \in Notices, NEW c \in ChannelSet,
         NEW pc \in {"none", "waiting", "send", "sent", "catch", "done", "dead"}, NEW job,
         job = [sendJob[n][c] EXCEPT !.pc = pc]
  PROVE  job \in DispatchJob /\ job.pc = pc /\ job.made = sendJob[n][c].made
  BY DeliveryFacts DEF DispatchJob

-----------------------------------------------------------------------------
\* The worker takes a job, or a statement of its try block fails.
LEMMA JobIsTaken ==
  ASSUME NoticeInv, NEW n \in Notices, NEW c \in ChannelSet, TakeJob(n, c) \/ MarkFails(n, c)
  PROVE  NoticeInv'
<1>1. PICK row, old, acc : row = dispatch[n][c] /\ old = sendJob[n][c] /\ acc = accepted[n][c]
  OBVIOUS
<1>2. /\ row \in DeliveryRow /\ old \in DispatchJob /\ acc \in Nat /\ noticeFaults \in Nat
      /\ dispatch = [dispatch EXCEPT ![n][c] = row] /\ accepted = [accepted EXCEPT ![n][c] = acc]
      /\ DeliveryHolds(n, notice, row, old, acc, noticeFaults)
  BY <1>1, DeliveryFacts
<1>3. CASE TakeJob(n, c)
  <2>1. PICK job : job = [old EXCEPT !.pc = "send"]
    OBVIOUS
  <2>2. job \in DispatchJob /\ job.pc = "send" /\ job.made = old.made
    BY <1>1, <2>1, JobMoves
  <2>3. /\ old.pc = "waiting" /\ sendJob' = [sendJob EXCEPT ![n][c] = job]
        /\ UNCHANGED <<notice, notifying, dispatch, accepted, noticeFaults>>
    BY <1>1, <1>3, <2>1 DEF TakeJob, JobAt
  <2>4. DeliveryHolds(n, notice, row, job, acc, noticeFaults)
    BY <1>2, <2>2, <2>3 DEF DeliveryHolds, RowTellsTruth
  <2>5. dispatch' = [dispatch EXCEPT ![n][c] = row] /\ accepted' = [accepted EXCEPT ![n][c] = acc]
    BY <1>2, <2>3
  <2> QED BY <1>1, <1>2, <2>2, <2>3, <2>4, <2>5, SoundDelivery
<1>4. CASE MarkFails(n, c)
  <2>1. PICK job : job = [old EXCEPT !.pc = "catch"]
    OBVIOUS
  <2>2. job \in DispatchJob /\ job.pc = "catch" /\ job.made = old.made
    BY <1>1, <2>1, JobMoves
  <2>3. /\ old.pc \in {"send", "sent"} /\ sendJob' = [sendJob EXCEPT ![n][c] = job]
        /\ UNCHANGED <<notice, notifying, dispatch, accepted>> /\ noticeFaults' = noticeFaults + 1
    BY <1>1, <1>4, <2>1 DEF MarkFails, JobAt
  <2>4. DeliveryHolds(n, notice, row, job, acc, noticeFaults')
    BY <1>2, <2>2, <2>3 DEF DeliveryHolds
  <2>5. noticeFaults' \in Nat /\ noticeFaults <= noticeFaults'
    BY <1>2, <2>3
  <2> QED BY <1>1, <1>2, <2>2, <2>3, <2>4, <2>5, OneDelivery
<1> QED BY <1>3, <1>4

\* The provider takes the message or not.
LEMMA MessageIsSent ==
  ASSUME NoticeInv, NEW n \in Notices, NEW c \in ChannelSet, Send(n, c) PROVE NoticeInv'
<1>1. PICK row, old, acc : row = dispatch[n][c] /\ old = sendJob[n][c] /\ acc = accepted[n][c]
  OBVIOUS
<1>2. /\ row \in DeliveryRow /\ old \in DispatchJob /\ acc \in Nat /\ noticeFaults \in Nat
      /\ dispatch = [dispatch EXCEPT ![n][c] = row]
      /\ DeliveryHolds(n, notice, row, old, acc, noticeFaults)
  BY <1>1, DeliveryFacts
<1>3. PICK taken \in {0, 1} :
        /\ accepted' = [accepted EXCEPT ![n][c] = @ + taken]
        /\ sendJob' = [sendJob EXCEPT ![n][c].pc = IF taken = 1 THEN "sent" ELSE "catch"]
  BY DEF Send
<1>4. PICK pc \in {"sent", "catch"} : pc = IF taken = 1 THEN "sent" ELSE "catch"
  OBVIOUS
<1>5. PICK job : job = [old EXCEPT !.pc = pc]
  OBVIOUS
<1>6. job \in DispatchJob /\ job.pc = pc /\ job.made = old.made
  BY <1>1, <1>5, JobMoves
<1>7. PICK more \in Nat : more = acc + taken
  BY <1>2
<1>8. /\ accepted' = [accepted EXCEPT ![n][c] = more] /\ sendJob' = [sendJob EXCEPT ![n][c] = job]
      /\ old.pc = "send" /\ UNCHANGED <<notice, notifying, dispatch, noticeFaults>>
  BY <1>1, <1>3, <1>4, <1>5, <1>7 DEF Send, JobAt
<1>9. DeliveryHolds(n, notice, row, job, more, noticeFaults)
  BY <1>2, <1>4, <1>6, <1>7, <1>8 DEF DeliveryHolds, RowTellsTruth
<1>10. dispatch' = [dispatch EXCEPT ![n][c] = row] /\ job.pc # "none"
  BY <1>2, <1>4, <1>6, <1>8
<1> QED BY <1>1, <1>2, <1>6, <1>7, <1>8, <1>9, <1>10, SoundDelivery

\* The dispatch is over: the row says so, if it is still there.
LEMMA DispatchEnds ==
  ASSUME NoticeInv, NEW n \in Notices, NEW c \in ChannelSet,
         NotApplicable(n, c) \/ MarkSent(n, c)
  PROVE  NoticeInv'
<1>1. PICK row, old, acc : row = dispatch[n][c] /\ old = sendJob[n][c] /\ acc = accepted[n][c]
  OBVIOUS
<1>2. /\ row \in DeliveryRow /\ old \in DispatchJob /\ acc \in Nat /\ noticeFaults \in Nat
      /\ accepted = [accepted EXCEPT ![n][c] = acc]
      /\ DeliveryHolds(n, notice, row, old, acc, noticeFaults)
  BY <1>1, DeliveryFacts
<1>3. PICK job : job = [old EXCEPT !.pc = "done"]
  OBVIOUS
<1>4. job \in DispatchJob /\ job.pc = "done"
  BY <1>1, <1>3, JobMoves
<1>5. PICK made \in Nat : made = sendJob[n][c].made + 1
  BY <1>1, <1>2 DEF DispatchJob
<1>6. PICK status \in {"SENT", "FAILED"} :
        /\ UpdateDelivery(n, c, status, made)
        /\ \/ old.pc = "send" /\ status = "FAILED"
           \/ old.pc = "sent" /\ status = "SENT"
  BY <1>1, <1>5 DEF NotApplicable, MarkSent, JobAt
<1>7. PICK new \in DeliveryRow :
        /\ dispatch' = [dispatch EXCEPT ![n][c] = new]
        /\ (new = row /\ new.status = "NONE") \/ new.status = status
  BY <1>1, <1>6, UpdatedRow
<1>8. /\ sendJob' = [sendJob EXCEPT ![n][c] = job]
      /\ UNCHANGED <<notice, notifying, accepted, noticeFaults>>
  BY <1>1, <1>3 DEF NotApplicable, MarkSent
<1>9. DeliveryHolds(n, notice, new, job, acc, noticeFaults)
  BY <1>2, <1>4, <1>6, <1>7 DEF DeliveryHolds, RowTellsTruth
<1>10. old.pc # "none" /\ accepted' = [accepted EXCEPT ![n][c] = acc]
  BY <1>2, <1>6, <1>8
<1> QED BY <1>1, <1>2, <1>4, <1>7, <1>8, <1>9, <1>10, SoundDelivery

\* An attempt that threw: it waits again until the attempts are spent.
LEMMA AttemptIsCaught ==
  ASSUME NoticeInv, NEW n \in Notices, NEW c \in ChannelSet,
         CatchError(n, c) \/ CatchFails(n, c)
  PROVE  NoticeInv'
<1>1. PICK row, old, acc : row = dispatch[n][c] /\ old = sendJob[n][c] /\ acc = accepted[n][c]
  OBVIOUS
<1>2. /\ row \in DeliveryRow /\ old \in DispatchJob /\ acc \in Nat /\ noticeFaults \in Nat
      /\ dispatch = [dispatch EXCEPT ![n][c] = row]
      /\ accepted = [accepted EXCEPT ![n][c] = acc]
      /\ DeliveryHolds(n, notice, row, old, acc, noticeFaults)
  BY <1>1, DeliveryFacts
<1>3. MaxAttempts \in Nat /\ old.made \in Nat /\ old.pc = "catch" /\ old.made < MaxAttempts
  BY <1>1, <1>2, NotificationsAssumption
     DEF DispatchJob, CatchError, CatchFails, JobAt, DeliveryHolds
<1>4. PICK made \in Nat : made = old.made + 1
  BY <1>3
<1>5. PICK pc \in {"dead", "waiting"} : pc = IF made >= MaxAttempts THEN "dead" ELSE "waiting"
  OBVIOUS
<1>6. PICK job : job = [old EXCEPT !.made = made, !.pc = pc]
  OBVIOUS
<1>7. job \in DispatchJob /\ job.pc = pc /\ job.made = made
  BY <1>2, <1>4, <1>5, <1>6 DEF DispatchJob
<1>8. Retried(old) = job
  BY <1>4, <1>5, <1>6 DEF Retried
<1>9. sendJob' = [sendJob EXCEPT ![n][c] = job] /\ UNCHANGED <<notice, notifying, accepted>>
  BY <1>1, <1>8 DEF CatchError, CatchFails
<1>10. CASE CatchFails(n, c)
  <2>1. noticeFaults' = noticeFaults + 1 /\ dispatch' = dispatch
    BY <1>10 DEF CatchFails
  <2>2. DeliveryHolds(n, notice, row, job, acc, noticeFaults')
    BY <1>2, <1>3, <1>4, <1>5, <1>7, <2>1 DEF DeliveryHolds
  <2>3. noticeFaults' \in Nat /\ noticeFaults <= noticeFaults'
    BY <1>2, <2>1
  <2> QED BY <1>1, <1>2, <1>3, <1>5, <1>7, <1>9, <2>1, <2>2, <2>3, OneDelivery
<1>11. CASE CatchError(n, c)
  <2>1. PICK status \in {"FAILED", "RETRYING"} : status = IF Final(made) THEN "FAILED" ELSE "RETRYING"
    OBVIOUS
  <2>2. UpdateDelivery(n, c, status, made) /\ noticeFaults' = noticeFaults
    BY <1>1, <1>4, <1>11, <2>1 DEF CatchError
  <2>3. PICK new \in DeliveryRow :
          /\ dispatch' = [dispatch EXCEPT ![n][c] = new]
          /\ (new = row /\ new.status = "NONE") \/ (new.status = status /\ new.attempts = made)
    BY <1>1, <2>2, UpdatedRow
  <2>4. pc = "dead" => status = "FAILED" /\ made = MaxAttempts
    BY <1>3, <1>4, <1>5, <2>1 DEF Final
  <2>5. pc = "waiting" => made < MaxAttempts
    BY <1>3, <1>4, <1>5
  <2>6. DeliveryHolds(n, notice, new, job, acc, noticeFaults)
    BY <1>2, <1>3, <1>5, <1>7, <2>1, <2>3, <2>4, <2>5 DEF DeliveryHolds, RowTellsTruth
  <2>7. accepted' = [accepted EXCEPT ![n][c] = acc] /\ job.pc # "none"
    BY <1>2, <1>5, <1>7, <1>9
  <2> QED BY <1>1, <1>2, <1>3, <1>7, <1>9, <2>2, <2>3, <2>6, <2>7, SoundDelivery
<1> QED BY <1>10, <1>11

-----------------------------------------------------------------------------
LEMMA CallFacts ==
  ASSUME NoticeInv, NEW n \in Notices
  PROVE  /\ notifying[n].left \in Seq(ChannelSet) /\ NotifyInv(n)
         /\ Channels \in Seq(ChannelSet)
         /\ \A i, j \in DOMAIN Channels : Channels[i] = Channels[j] => i = j
<1>1. notifying[n] \in NotifyCall
  BY DEF NoticeInv, NoticeType
<1> QED BY <1>1, NotificationsAssumption DEF NoticeInv, NotifyCall, ChannelSet, IsInjective

\* A call of notify is at a new place; what it has yet to take stays without a job.
LEMMA CallGoes ==
  ASSUME NoticeInv, NEW n \in Notices, NEW pc \in {"in_app", "channel", "add", "over"},
         NEW left \in Seq(ChannelSet), NotifyGoes(n, pc, left),
         \A i, j \in DOMAIN left : left[i] = left[j] => i = j,
         \A i \in DOMAIN left : sendJob'[n][left[i]].pc = "none",
         pc = "in_app" => \A c \in ChannelSet : sendJob'[n][c].pc = "none",
         pc = "add" => left # <<>> /\ (n \in notice' => dispatch'[n][left[1]].status # "NONE"),
         \A m \in Notices : m # n => sendJob'[m] = sendJob[m] /\ dispatch'[m] = dispatch[m]
                                     /\ (m \in notice' <=> m \in notice)
  PROVE  notifying' \in [Notices -> NotifyCall] /\ \A m \in Notices : NotifyInv(m)'
<1>1. notifying \in [Notices -> NotifyCall]
  BY DEF NoticeInv, NoticeType
<1>2. PICK p \in {"in_app", "channel", "add", "over"} :
        p = IF pc = "channel" /\ left = <<>> THEN "over" ELSE pc
  OBVIOUS
<1>3. PICK call : call = [pc |-> p, left |-> left]
  OBVIOUS
<1>4. call \in NotifyCall /\ call.pc = p /\ call.left = left
  BY <1>2, <1>3 DEF NotifyCall
<1>5. notifying' = [notifying EXCEPT ![n] = call]
  BY <1>2, <1>3 DEF NotifyGoes
<1>6. notifying'[n] = call /\ \A m \in Notices : m # n => notifying'[m] = notifying[m]
  BY <1>1, <1>5
<1>7. NotifyInv(n)'
  BY <1>2, <1>4, <1>6 DEF NotifyInv
<1>8. ASSUME NEW m \in Notices, m # n PROVE NotifyInv(m)'
  BY <1>6, <1>8 DEF NoticeInv, NotifyInv
<1> QED BY <1>1, <1>4, <1>5, <1>7, <1>8

\* The row is there first.
LEMMA NoticeIsStored ==
  ASSUME NoticeInv, NEW n \in Notices, Notify(n) \/ MarkInApp(n) PROVE NoticeInv'
<1>1. /\ notifying[n].pc \in {"none", "in_app"} /\ notice \subseteq notice'
      /\ \A m : m # n => (m \in notice' <=> m \in notice)
      /\ UNCHANGED <<dispatch, sendJob, accepted, noticeFaults>>
  BY DEF Notify, MarkInApp, Notifying
<1>2. \A c \in ChannelSet : sendJob[n][c].pc = "none"
  BY <1>1, CallFacts DEF NotifyInv
<1>3. PICK pc \in {"in_app", "channel", "over"} : NotifyGoes(n, pc, Channels)
  BY DEF Notify, MarkInApp
<1>4. Channels \in Seq(ChannelSet) /\ \A i \in DOMAIN Channels : Channels[i] \in ChannelSet
  BY CallFacts
<1>5. notifying' \in [Notices -> NotifyCall] /\ \A m \in Notices : NotifyInv(m)'
  BY <1>1, <1>2, <1>3, <1>4, CallFacts, CallGoes
<1>6. NoticeType'
  BY <1>1, <1>5 DEF NoticeInv, NoticeType
<1>7. ASSUME NEW m \in Notices, NEW c \in ChannelSet PROVE DeliveryInv(m, c)'
  <2>1. DeliveryHolds(m, notice, dispatch[m][c], sendJob[m][c], accepted[m][c], noticeFaults)
    BY DeliveryFacts
  <2>2. (m \in notice' <=> m \in notice) \/ sendJob[m][c].pc = "none"
    BY <1>1, <1>2
  <2>3. DeliveryHolds(m, notice', dispatch[m][c], sendJob[m][c], accepted[m][c], noticeFaults)
    BY <2>1, <2>2 DEF DeliveryHolds, RowTellsTruth
  <2> QED BY <1>1, <2>3 DEF DeliveryInv
<1> QED BY <1>5, <1>6, <1>7 DEF NoticeInv

-----------------------------------------------------------------------------
\* The channel notify takes and those left after it.
LEMMA FirstChannel ==
  ASSUME NoticeInv, NEW n \in Notices, notifying[n].pc \in {"channel", "add"}
  PROVE  LET left == notifying[n].left IN
         /\ left \in Seq(ChannelSet) /\ left # <<>>
         /\ Head(left) = left[1] /\ 1 \in DOMAIN left /\ left[1] \in ChannelSet
         /\ sendJob[n][left[1]].pc = "none"
         /\ Tail(left) \in Seq(ChannelSet)
         /\ \A i \in DOMAIN Tail(left) : i + 1 \in DOMAIN left /\ Tail(left)[i] = left[i + 1]
         /\ \A i \in DOMAIN Tail(left) : Tail(left)[i] # left[1]
         /\ \A i \in DOMAIN Tail(left) : sendJob[n][Tail(left)[i]].pc = "none"
         /\ \A i, j \in DOMAIN Tail(left) : Tail(left)[i] = Tail(left)[j] => i = j
<1>1. PICK left \in Seq(ChannelSet) : left = notifying[n].left
  BY CallFacts
<1>2. /\ \A i, j \in DOMAIN left : left[i] = left[j] => i = j
      /\ \A i \in DOMAIN left : sendJob[n][left[i]].pc = "none"
      /\ left # <<>>
  BY <1>1, CallFacts DEF NotifyInv
<1>3. Head(left) = left[1] /\ 1 \in DOMAIN left /\ left[1] \in ChannelSet
  BY <1>2
<1>4. PICK rest : rest = Tail(left)
  OBVIOUS
<1>5. rest \in Seq(ChannelSet) /\ Len(rest) = Len(left) - 1
      /\ \A i \in 1..Len(rest) : rest[i] = left[i + 1]
  BY <1>2, <1>4
<1>6. \A i \in DOMAIN rest : i \in Nat /\ i + 1 \in DOMAIN left /\ rest[i] = left[i + 1] /\ i + 1 # 1
  BY <1>5
<1>7. \A i \in DOMAIN rest : rest[i] # left[1]
  BY <1>2, <1>3, <1>6
<1>8. \A i \in DOMAIN rest : sendJob[n][rest[i]].pc = "none"
  BY <1>2, <1>6
<1>9. ASSUME NEW i \in DOMAIN rest, NEW j \in DOMAIN rest, rest[i] = rest[j] PROVE i = j
  <2>1. i + 1 = j + 1 /\ i \in Nat /\ j \in Nat
    BY <1>2, <1>6, <1>9
  <2> QED BY <2>1
<1> QED BY <1>1, <1>2, <1>3, <1>4, <1>5, <1>6, <1>7, <1>8, <1>9

\* enqueueIfEligible: a row before its job, or the next channel.
LEMMA ChannelIsTaken ==
  ASSUME NoticeInv, NEW n \in Notices, Eligible(n) PROVE NoticeInv'
<1>1. notifying[n].pc = "channel" /\ UNCHANGED <<notice, sendJob, accepted, noticeFaults>>
  BY DEF Eligible, Notifying
<1>2. PICK left, rest : left = notifying[n].left /\ rest = Tail(left)
  OBVIOUS
<1>3. PICK c : c = left[1]
  OBVIOUS
<1>4. /\ left \in Seq(ChannelSet) /\ left # <<>> /\ Head(left) = c /\ c \in ChannelSet
      /\ sendJob[n][c].pc = "none" /\ rest \in Seq(ChannelSet)
      /\ \A i \in DOMAIN rest : sendJob[n][rest[i]].pc = "none"
      /\ \A i, j \in DOMAIN rest : rest[i] = rest[j] => i = j
  BY <1>1, <1>2, <1>3, FirstChannel
<1>5. CASE c \notin muted /\ c \in reachable /\ n \in notice
  <2>1. PICK row : row = [status |-> "PENDING", attempts |-> 0]
    OBVIOUS
  <2>2. row \in DeliveryRow /\ row.status = "PENDING"
    BY <2>1 DEF DeliveryRow
  <2>3. dispatch' = [dispatch EXCEPT ![n][c] = row] /\ NotifyGoes(n, "add", left)
    BY <1>2, <1>4, <1>5, <2>1 DEF Eligible
  <2>4. dispatch \in [Notices -> [ChannelSet -> DeliveryRow]]
    BY DEF NoticeInv, NoticeType
  <2>5. /\ dispatch' \in [Notices -> [ChannelSet -> DeliveryRow]] /\ dispatch'[n][c] = row
        /\ \A m \in Notices : m # n => dispatch'[m] = dispatch[m]
        /\ \A m \in Notices, d \in ChannelSet : (m # n \/ d # c) => dispatch'[m][d] = dispatch[m][d]
    BY <1>4, <2>2, <2>3, <2>4
  <2>6. /\ \A i, j \in DOMAIN left : left[i] = left[j] => i = j
        /\ \A i \in DOMAIN left : sendJob[n][left[i]].pc = "none"
    BY <1>2, CallFacts DEF NotifyInv
  <2>7. dispatch'[n][left[1]].status # "NONE"
    BY <1>3, <2>2, <2>5
  <2>8. notifying' \in [Notices -> NotifyCall] /\ \A m \in Notices : NotifyInv(m)'
    BY <1>1, <1>4, <2>3, <2>5, <2>6, <2>7, CallGoes
  <2>9. NoticeType'
    BY <1>1, <2>5, <2>8 DEF NoticeInv, NoticeType
  <2>10. ASSUME NEW m \in Notices, NEW d \in ChannelSet PROVE DeliveryInv(m, d)'
    <3>1. DeliveryHolds(m, notice, dispatch[m][d], sendJob[m][d], accepted[m][d], noticeFaults)
      BY DeliveryFacts
    <3>2. CASE m = n /\ d = c
      <4>1. DeliveryHolds(m, notice, row, sendJob[m][d], accepted[m][d], noticeFaults)
        BY <1>4, <2>2, <3>1, <3>2 DEF DeliveryHolds, RowTellsTruth
      <4> QED BY <1>1, <2>5, <3>2, <4>1 DEF DeliveryInv
    <3>3. CASE m # n \/ d # c
      BY <1>1, <2>5, <3>1, <3>3 DEF DeliveryInv
    <3> QED BY <3>2, <3>3
  <2> QED BY <2>8, <2>9, <2>10 DEF NoticeInv
<1>6. CASE ~(c \notin muted /\ c \in reachable /\ n \in notice)
  <2>1. dispatch' = dispatch /\ NotifyGoes(n, "channel", rest)
    BY <1>2, <1>4, <1>6 DEF Eligible
  <2>2. notifying' \in [Notices -> NotifyCall] /\ \A m \in Notices : NotifyInv(m)'
    BY <1>1, <1>4, <2>1, CallGoes
  <2>3. NoticeType'
    BY <1>1, <2>1, <2>2 DEF NoticeInv, NoticeType
  <2>4. \A m \in Notices, d \in ChannelSet : DeliveryInv(m, d)'
    BY <1>1, <2>1 DEF NoticeInv, DeliveryInv
  <2> QED BY <2>2, <2>3, <2>4 DEF NoticeInv
<1> QED BY <1>5, <1>6

\* dispatchQueue.add: the row waits for its job, or stays without one.
LEMMA JobIsAdded ==
  ASSUME NoticeInv, NEW n \in Notices, AddJob(n) \/ AddJobFails(n) PROVE NoticeInv'
<1>1. notifying[n].pc = "add" /\ UNCHANGED <<notice, dispatch, accepted>>
  BY DEF AddJob, AddJobFails, Notifying
<1>2. PICK left, rest : left = notifying[n].left /\ rest = Tail(left)
  OBVIOUS
<1>3. PICK c : c = left[1]
  OBVIOUS
<1>4. /\ left \in Seq(ChannelSet) /\ left # <<>> /\ Head(left) = c /\ c \in ChannelSet
      /\ sendJob[n][c].pc = "none" /\ rest \in Seq(ChannelSet)
      /\ \A i \in DOMAIN rest : rest[i] # c
      /\ \A i \in DOMAIN rest : sendJob[n][rest[i]].pc = "none"
      /\ \A i, j \in DOMAIN rest : rest[i] = rest[j] => i = j
  BY <1>1, <1>2, <1>3, FirstChannel
<1>5. NotifyGoes(n, "channel", rest)
  BY <1>2 DEF AddJob, AddJobFails
<1>6. n \in notice => dispatch[n][c].status # "NONE"
  BY <1>1, <1>2, <1>3, CallFacts DEF NotifyInv
<1>7. sendJob \in [Notices -> [ChannelSet -> DispatchJob]] /\ noticeFaults \in Nat
  BY DEF NoticeInv, NoticeType
<1>8. CASE AddJob(n)
  <2>1. PICK job : job = [sendJob[n][c] EXCEPT !.pc = "waiting"]
    OBVIOUS
  <2>2. job \in DispatchJob /\ job.pc = "waiting" /\ job.made = sendJob[n][c].made
    BY <1>4, <2>1, JobMoves
  <2>3. sendJob' = [sendJob EXCEPT ![n][c] = job] /\ noticeFaults' = noticeFaults
    BY <1>2, <1>4, <1>8, <2>1 DEF AddJob
  <2>4. /\ sendJob' \in [Notices -> [ChannelSet -> DispatchJob]] /\ sendJob'[n][c] = job
        /\ \A m \in Notices : m # n => sendJob'[m] = sendJob[m]
        /\ \A m \in Notices, d \in ChannelSet : (m # n \/ d # c) => sendJob'[m][d] = sendJob[m][d]
    BY <1>4, <1>7, <2>2, <2>3
  <2>5. \A i \in DOMAIN rest : sendJob'[n][rest[i]].pc = "none"
    <3>1. \A i \in DOMAIN rest : rest[i] \in ChannelSet
      BY <1>4
    <3> QED BY <1>4, <2>4, <3>1
  <2>6. notifying' \in [Notices -> NotifyCall] /\ \A m \in Notices : NotifyInv(m)'
    BY <1>1, <1>4, <1>5, <2>4, <2>5, CallGoes
  <2>7. NoticeType'
    BY <1>1, <2>3, <2>4, <2>6 DEF NoticeInv, NoticeType
  <2>8. ASSUME NEW m \in Notices, NEW d \in ChannelSet PROVE DeliveryInv(m, d)'
    <3>1. DeliveryHolds(m, notice, dispatch[m][d], sendJob[m][d], accepted[m][d], noticeFaults)
      BY DeliveryFacts
    <3>2. CASE m = n /\ d = c
      <4>1. DeliveryHolds(m, notice, dispatch[m][d], job, accepted[m][d], noticeFaults)
        BY <1>4, <1>6, <2>2, <3>1, <3>2 DEF DeliveryHolds, RowTellsTruth
      <4> QED BY <1>1, <2>3, <2>4, <3>2, <4>1 DEF DeliveryInv
    <3>3. CASE m # n \/ d # c
      BY <1>1, <2>3, <2>4, <3>1, <3>3 DEF DeliveryInv
    <3> QED BY <3>2, <3>3
  <2> QED BY <2>6, <2>7, <2>8 DEF NoticeInv
<1>9. CASE AddJobFails(n)
  <2>1. sendJob' = sendJob /\ noticeFaults' = noticeFaults + 1
    BY <1>9 DEF AddJobFails
  <2>2. notifying' \in [Notices -> NotifyCall] /\ \A m \in Notices : NotifyInv(m)'
    BY <1>1, <1>4, <1>5, <2>1, CallGoes
  <2>3. NoticeType'
    BY <1>1, <1>7, <2>1, <2>2 DEF NoticeInv, NoticeType
  <2>4. noticeFaults' = 0 => noticeFaults = 0
    BY <1>7, <2>1
  <2>5. \A m \in Notices, d \in ChannelSet : DeliveryInv(m, d)'
    BY <1>1, <2>1, <2>4 DEF NoticeInv, DeliveryInv, DeliveryHolds
  <2> QED BY <2>2, <2>3, <2>5 DEF NoticeInv
<1> QED BY <1>8, <1>9

\* The process dies: calls are over, the job it held waits or is given up.
LEMMA WorkerDies ==
  ASSUME NoticeInv, NoticeCrash PROVE NoticeInv'
<1>1. /\ NoticeType
      /\ UNCHANGED <<notice, dispatch, accepted>> /\ noticeFaults' = noticeFaults + 1
  BY DEF NoticeInv, NoticeCrash
<1>2. ASSUME NEW n \in Notices
      PROVE  /\ notifying'[n] \in NotifyCall /\ notifying'[n].left = notifying[n].left
             /\ notifying'[n].pc \in {notifying[n].pc, "over"}
             /\ notifying'[n].pc # "over" => notifying'[n].pc = "none" /\ notifying[n].pc = "none"
  <2>1. PICK call : call = notifying[n]
    OBVIOUS
  <2>2. call \in NotifyCall
    BY <1>1, <2>1 DEF NoticeType
  <2>3. notifying'[n] = IF call.pc = "none" THEN call ELSE [call EXCEPT !.pc = "over"]
    BY <2>1 DEF NoticeCrash, Notifying
  <2>4. PICK new : new = [call EXCEPT !.pc = "over"]
    OBVIOUS
  <2>5. new \in NotifyCall /\ new.pc = "over" /\ new.left = call.left
    BY <2>2, <2>4 DEF NotifyCall
  <2> QED BY <2>1, <2>2, <2>3, <2>4, <2>5
<1>3. ASSUME NEW n \in Notices, NEW c \in ChannelSet
      PROVE  /\ sendJob'[n][c] \in DispatchJob /\ sendJob'[n][c].made = sendJob[n][c].made
             /\ \/ sendJob'[n][c] = sendJob[n][c] /\ sendJob[n][c].pc \notin {"send", "sent", "catch"}
                \/ /\ sendJob[n][c].pc \in {"send", "sent", "catch"}
                   /\ sendJob'[n][c].pc \in {"dead", "waiting"}
  <2>1. PICK job : job = sendJob[n][c]
    OBVIOUS
  <2>2. job \in DispatchJob
    BY <1>1, <2>1 DEF NoticeType
  <2>3. PICK pc \in {"dead", "waiting"} : pc = IF job.stalled THEN "dead" ELSE "waiting"
    OBVIOUS
  <2>4. PICK new : new = [job EXCEPT !.pc = pc, !.stalled = TRUE]
    OBVIOUS
  <2>5. new \in DispatchJob /\ new.pc = pc /\ new.made = job.made
    BY <2>2, <2>4 DEF DispatchJob
  <2>6. sendJob'[n][c] = IF job.pc \notin {"send", "sent", "catch"} THEN job ELSE new
    BY <2>1, <2>3, <2>4 DEF NoticeCrash
  <2> QED BY <2>1, <2>2, <2>5, <2>6
<1>4. NoticeType'
  <2>1. notifying' \in [Notices -> NotifyCall]
    <3>1. \A n \in Notices : notifying'[n] \in NotifyCall
      BY <1>2
    <3>2. notifying' = [n \in Notices |-> notifying'[n]]
      BY DEF NoticeCrash
    <3> QED BY <3>1, <3>2
  <2>2. sendJob' \in [Notices -> [ChannelSet -> DispatchJob]]
    <3>1. \A n \in Notices, c \in ChannelSet : sendJob'[n][c] \in DispatchJob
      BY <1>3
    <3>2. sendJob' = [n \in Notices |-> [c \in ChannelSet |-> sendJob'[n][c]]]
      BY DEF NoticeCrash
    <3> QED BY <3>1, <3>2
  <2> QED BY <1>1, <2>1, <2>2 DEF NoticeType
<1>5. ASSUME NEW n \in Notices PROVE NotifyInv(n)'
  <2>1. NotifyInv(n)
    BY DEF NoticeInv
  <2>2. PICK left \in Seq(ChannelSet) : left = notifying[n].left
    BY CallFacts
  <2>3. \A c \in ChannelSet : sendJob[n][c].pc = "none" => sendJob'[n][c].pc = "none"
    BY <1>3
  <2>4. \A i \in DOMAIN left : left[i] \in ChannelSet /\ sendJob'[n][left[i]].pc = "none"
    BY <2>1, <2>2, <2>3 DEF NotifyInv
  <2>5. notifying'[n].pc = "none" => \A c \in ChannelSet : sendJob'[n][c].pc = "none"
    BY <1>2, <2>1, <2>3 DEF NotifyInv
  <2> QED BY <1>1, <1>2, <2>1, <2>2, <2>4, <2>5 DEF NotifyInv
<1>6. ASSUME NEW n \in Notices, NEW c \in ChannelSet PROVE DeliveryInv(n, c)'
  <2>1. PICK row, old, acc : row = dispatch[n][c] /\ old = sendJob[n][c] /\ acc = accepted[n][c]
    OBVIOUS
  <2>2. DeliveryHolds(n, notice, row, old, acc, noticeFaults)
    BY <2>1, DeliveryFacts
  <2>3. PICK new : new = sendJob'[n][c]
    OBVIOUS
  <2>4. /\ new.made = old.made
        /\ \/ new = old /\ old.pc \notin {"send", "sent", "catch"}
           \/ old.pc \in {"send", "sent", "catch"} /\ new.pc \in {"dead", "waiting"}
    BY <1>3, <2>1, <2>3
  <2>5. noticeFaults' # 0
    BY <1>1 DEF NoticeType
  <2>6. DeliveryHolds(n, notice, row, new, acc, noticeFaults')
    BY <2>2, <2>4, <2>5 DEF DeliveryHolds
  <2> QED BY <1>1, <2>1, <2>3, <2>6 DEF DeliveryInv
<1> QED BY <1>4, <1>5, <1>6 DEF NoticeInv

\* The notification and its deliveries go; its jobs stay.
LEMMA NoticeIsDeleted ==
  ASSUME NoticeInv, NEW n \in Notices, DeleteNotification(n) PROVE NoticeInv'
<1>1. /\ NoticeType /\ notice' = notice \ {n}
      /\ dispatch' = [dispatch EXCEPT ![n] = [c \in ChannelSet |-> NoDelivery]]
      /\ UNCHANGED <<notifying, sendJob, accepted, noticeFaults>>
  BY DEF NoticeInv, DeleteNotification
<1>2. NoDelivery \in DeliveryRow /\ NoDelivery.status = "NONE"
  BY DEF NoDelivery, DeliveryRow
<1>3. PICK rows : rows = [c \in ChannelSet |-> NoDelivery]
  OBVIOUS
<1>4. rows \in [ChannelSet -> DeliveryRow] /\ \A c \in ChannelSet : rows[c] = NoDelivery
  BY <1>2, <1>3
<1>5. /\ dispatch' \in [Notices -> [ChannelSet -> DeliveryRow]] /\ dispatch'[n] = rows
      /\ \A m \in Notices : m # n => dispatch'[m] = dispatch[m]
  BY <1>1, <1>3, <1>4 DEF NoticeType
<1>6. NoticeType'
  BY <1>1, <1>5 DEF NoticeType
<1>7. \A m \in Notices : NotifyInv(m)'
  BY <1>1, <1>5 DEF NoticeInv, NotifyInv
<1>8. ASSUME NEW m \in Notices, NEW c \in ChannelSet PROVE DeliveryInv(m, c)'
  <2>1. DeliveryHolds(m, notice, dispatch[m][c], sendJob[m][c], accepted[m][c], noticeFaults)
    BY DeliveryFacts
  <2>2. CASE m = n
    <3>1. dispatch'[m][c].status = "NONE" /\ m \notin notice'
      BY <1>1, <1>2, <1>4, <1>5, <2>2
    <3>2. PICK row : row = dispatch'[m][c]
      OBVIOUS
    <3>3. DeliveryHolds(m, notice', row, sendJob[m][c], accepted[m][c], noticeFaults)
      BY <2>1, <3>1, <3>2 DEF DeliveryHolds, RowTellsTruth
    <3> QED BY <1>1, <3>2, <3>3 DEF DeliveryInv
  <2>3. CASE m # n
    <3>1. m \in notice' <=> m \in notice
      BY <1>1, <2>3
    <3>2. DeliveryHolds(m, notice', dispatch[m][c], sendJob[m][c], accepted[m][c], noticeFaults)
      BY <2>1, <3>1 DEF DeliveryHolds, RowTellsTruth
    <3> QED BY <1>1, <1>5, <2>3, <3>2 DEF DeliveryInv
  <2> QED BY <2>2, <2>3
<1> QED BY <1>6, <1>7, <1>8 DEF NoticeInv

-----------------------------------------------------------------------------
LEMMA NoticeStarts == NoticeInit => NoticeInv
<1>1. SUFFICES ASSUME NoticeInit PROVE NoticeInv
  OBVIOUS
<1>2. MaxAttempts \in Nat /\ 0 < MaxAttempts
  BY NotificationsAssumption
<1>3. /\ NoDelivery \in DeliveryRow /\ NoDelivery.status = "NONE"
      /\ NoJob \in DispatchJob /\ NoJob.pc = "none" /\ NoJob.made = 0
  BY DEF NoDelivery, DeliveryRow, NoJob, DispatchJob
<1>4. /\ Channels \in Seq(ChannelSet) /\ \A i \in DOMAIN Channels : Channels[i] \in ChannelSet
      /\ \A i, j \in DOMAIN Channels : Channels[i] = Channels[j] => i = j
  BY NotificationsAssumption DEF ChannelSet, IsInjective
<1>5. PICK call : call = [pc |-> "none", left |-> Channels]
  OBVIOUS
<1>6. call \in NotifyCall /\ call.pc = "none" /\ call.left = Channels
  BY <1>4, <1>5 DEF NotifyCall
<1>7. \A n \in Notices : notifying[n] = call
  BY <1>1, <1>5 DEF NoticeInit
<1>8. \A n \in Notices, c \in ChannelSet :
        dispatch[n][c] = NoDelivery /\ sendJob[n][c] = NoJob /\ accepted[n][c] = 0
  BY <1>1 DEF NoticeInit
<1>9. NoticeType
  <2>1. notifying \in [Notices -> NotifyCall]
    BY <1>1, <1>5, <1>6 DEF NoticeInit
  <2>2. dispatch \in [Notices -> [ChannelSet -> DeliveryRow]]
    BY <1>1, <1>3 DEF NoticeInit
  <2>3. sendJob \in [Notices -> [ChannelSet -> DispatchJob]]
    BY <1>1, <1>3 DEF NoticeInit
  <2>4. accepted \in [Notices -> [ChannelSet -> Nat]] /\ noticeFaults \in Nat
    BY <1>1 DEF NoticeInit
  <2> QED BY <2>1, <2>2, <2>3, <2>4 DEF NoticeType
<1>10. \A n \in Notices : NotifyInv(n)
  <2>1. notice = {}
    BY <1>1 DEF NoticeInit
  <2> QED BY <1>3, <1>4, <1>6, <1>7, <1>8, <2>1 DEF NotifyInv
<1>11. \A n \in Notices, c \in ChannelSet : DeliveryInv(n, c)
  BY <1>2, <1>3, <1>8 DEF DeliveryInv, DeliveryHolds, RowTellsTruth
<1> QED BY <1>9, <1>10, <1>11 DEF NoticeInv

LEMMA NoticeKeeps == NoticeInv /\ [NoticeNext]_noticeVars => NoticeInv'
<1>1. SUFFICES ASSUME NoticeInv, [NoticeNext]_noticeVars PROVE NoticeInv'
  OBVIOUS
<1>2. ASSUME NEW n \in Notices,
             Notify(n) \/ NotifySteps(n) \/ AddJobFails(n) \/ DeleteNotification(n)
      PROVE  NoticeInv'
  BY <1>1, <1>2, NoticeIsStored, ChannelIsTaken, JobIsAdded, NoticeIsDeleted DEF NotifySteps
<1>3. ASSUME NEW n \in Notices, NEW c \in ChannelSet,
             TakeJob(n, c) \/ Send(n, c) \/ NotApplicable(n, c) \/ MarkSent(n, c)
               \/ CatchError(n, c) \/ MarkFails(n, c) \/ CatchFails(n, c)
      PROVE  NoticeInv'
  BY <1>1, <1>3, JobIsTaken, MessageIsSent, DispatchEnds, AttemptIsCaught
<1>4. CASE UNCHANGED <<notice, notifying, dispatch, sendJob, accepted, noticeFaults>>
  BY <1>1, <1>4
     DEF NoticeInv, NoticeType, NotifyInv, DeliveryInv
<1>5. ASSUME NEW c, NEW on, SetPreference(c, on) \/ RemoveAddress(c) PROVE NoticeInv'
  BY <1>4, <1>5 DEF SetPreference, RemoveAddress
<1>6. CASE UNCHANGED noticeVars
  BY <1>4, <1>6 DEF noticeVars
<1>7. CASE SendSteps
  BY <1>3, <1>7 DEF SendSteps
<1>8. CASE NoticeNext
  BY <1>1, <1>2, <1>3, <1>5, <1>7, <1>8, WorkerDies DEF NoticeNext
<1> QED BY <1>1, <1>6, <1>8

\* A row that says SENT was accepted by its provider; and unless something
\* failed, a delivery whose job is over says what became of its message, and
\* no message went out twice (NotificationService and its dispatcher).
THEOREM NoticesAlwaysHold == NoticeSpec => []NoticesHold
<1>1. ASSUME NoticeInv, NEW n \in Notices, NEW c \in ChannelSet
      PROVE  /\ dispatch[n][c].status = "SENT" => accepted[n][c] > 0
             /\ noticeFaults = 0 =>
                  /\ accepted[n][c] <= 1
                  /\ n \in notice /\ sendJob[n][c].pc = "done" =>
                       dispatch[n][c].status = IF accepted[n][c] = 1 THEN "SENT" ELSE "FAILED"
                  /\ n \in notice /\ sendJob[n][c].pc = "dead" =>
                       /\ dispatch[n][c] = [status |-> "FAILED", attempts |-> MaxAttempts]
                       /\ accepted[n][c] = 0
  <2>1. PICK row, job, acc : row = dispatch[n][c] /\ job = sendJob[n][c] /\ acc = accepted[n][c]
    OBVIOUS
  <2>2. row \in DeliveryRow /\ DeliveryHolds(n, notice, row, job, acc, noticeFaults)
    BY <1>1, <2>1, DeliveryFacts
  <2>3. row.status = "FAILED" /\ row.attempts = MaxAttempts =>
          row = [status |-> "FAILED", attempts |-> MaxAttempts]
    BY <2>2 DEF DeliveryRow
  <2> QED BY <2>1, <2>2, <2>3 DEF DeliveryHolds, RowTellsTruth
<1>2. NoticeInv => NoticesHold
  <2>1. NoticeInv => SentWasAccepted
    BY <1>1 DEF SentWasAccepted
  <2>2. NoticeInv => DeliveryTellsTruth
    BY <1>1 DEF DeliveryTellsTruth
  <2> QED BY <2>1, <2>2 DEF NoticesHold
<1> QED BY <1>2, NoticeStarts, NoticeKeeps, PTL DEF NoticeSpec
=============================================================================
