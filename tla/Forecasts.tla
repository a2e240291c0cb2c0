----------------------------- MODULE Forecasts -----------------------------
(***************************************************************************)
(* The demand forecast of one product (ForecastClientService).  A training *)
(* finds the product's newest model, overwrites it, deletes its            *)
(* predictions, stores new ones and drops the cached read, each in a step  *)
(* of its own.  A read fills the cache with what it finds in the database. *)
(* Models are named by the training that created them.                     *)
(***************************************************************************)
EXTENDS Integers, FiniteSets

CONSTANTS
  Trainings,      \* calls of trainAndPredict, each made once
  Reads,          \* calls of getPredictions, each made once
  ForecastFaults  \* bound on failing steps

ASSUME ForecastAssumption == ForecastFaults \in Nat /\ "none" \notin Trainings

VARIABLES
  newestModel,  \* the ForecastModel row trained last, "none" while there is none
  predictions,  \* ForecastPrediction rows: model, training
  cached,       \* what Redis holds: no read, or the rows of one
  training,     \* where each training stands
  reading,      \* where each read stands
  races,        \* which kinds of calls have met so far (not stored)
  forecastFaults

forecastVars ==
  <<newestModel, predictions, cached, training, reading, races, forecastFaults>>

Uncached == {}
NotTrained == [at |-> "none"]
Trained == [at |-> "over"]
NotRead == [at |-> "none"]
ReadOver == [at |-> "over"]

ForecastInit ==
  /\ newestModel = "none" /\ predictions = {} /\ cached = Uncached
  /\ training = [t \in Trainings |-> NotTrained]
  /\ reading = [r \in Reads |-> NotRead]
  /\ races = {} /\ forecastFaults = 0

InTraining == {t \in Trainings : training[t] \notin {NotTrained, Trained}}
Fetched == {r \in Reads : reading[r].at = "fetched"}

-----------------------------------------------------------------------------
\* The ML service, or the statistical fallback, has answered; a user's call or
\* that of the weekly retrainAllProducts.
FindModel(t) ==
  /\ training[t] = NotTrained
  /\ training' = [training EXCEPT ![t] =
       [at |-> "write", model |-> IF newestModel = "none" THEN t ELSE newestModel]]
  /\ races' = IF InTraining = {} THEN races ELSE races \cup {"trainings"}
  /\ UNCHANGED <<newestModel, predictions, cached, reading, forecastFaults>>

\* The model found is updated, which makes it the newest; or one is created.
\* Older ones are never looked for again.
WriteModel(t) ==
  /\ training[t].at = "write"
  /\ newestModel' = training[t].model
  /\ training' = [training EXCEPT ![t].at = "delete"]
  /\ UNCHANGED <<predictions, cached, reading, races, forecastFaults>>

\* Every training adds to what is predicted.
DeleteNothing(t) ==
  /\ training[t].at = "delete"
  /\ training' = [training EXCEPT ![t].at = "create"]
  /\ UNCHANGED <<newestModel, predictions, cached, reading, races, forecastFaults>>

DeletePredictions(t) ==
  /\ training[t].at = "delete"
  /\ predictions' = {p \in predictions : p.model # training[t].model}
  /\ training' = [training EXCEPT ![t].at = "create"]
  /\ UNCHANGED <<newestModel, cached, reading, races, forecastFaults>>

CreatePredictions(t) ==
  /\ training[t].at = "create"
  /\ predictions' = predictions \cup {[model |-> training[t].model, by |-> t]}
  /\ training' = [training EXCEPT ![t].at = "drop"]
  /\ UNCHANGED <<newestModel, cached, reading, races, forecastFaults>>

DropCache(t) ==
  /\ training[t].at = "drop"
  /\ cached' = Uncached
  /\ training' = [training EXCEPT ![t] = Trained]
  /\ races' = IF Fetched = {} THEN races ELSE races \cup {"read"}
  /\ UNCHANGED <<newestModel, predictions, reading, forecastFaults>>

\* A step throws, or Redis refuses the delete, which is ignored.
TrainingFails(t) ==
  /\ t \in InTraining
  /\ forecastFaults < ForecastFaults
  /\ forecastFaults' = forecastFaults + 1
  /\ training' = [training EXCEPT ![t] = Trained]
  /\ UNCHANGED <<newestModel, predictions, cached, reading, races>>

-----------------------------------------------------------------------------
\* getPredictions: a cached read is answered as it is, otherwise the rows of all
\* models of the product are read.
GetPredictions(r) ==
  /\ reading[r] = NotRead
  /\ reading' = [reading EXCEPT ![r] =
       IF cached # Uncached THEN ReadOver ELSE [at |-> "fetched", rows |-> predictions]]
  /\ UNCHANGED <<newestModel, predictions, cached, training, races, forecastFaults>>

CachePredictions(r) ==
  /\ reading[r].at = "fetched"
  /\ cached' = {reading[r].rows}
  /\ reading' = [reading EXCEPT ![r] = ReadOver]
  /\ UNCHANGED <<newestModel, predictions, training, races, forecastFaults>>

\* The cached read has reached its six hours.
Expires ==
  /\ cached # Uncached
  /\ cached' = Uncached
  /\ UNCHANGED <<newestModel, predictions, training, reading, races, forecastFaults>>

Trains(t) ==
  \/ FindModel(t) \/ WriteModel(t) \/ DeletePredictions(t) \/ CreatePredictions(t)
  \/ DropCache(t) \/ TrainingFails(t)

ForecastNext ==
  \/ \E t \in Trainings : Trains(t)
  \/ \E r \in Reads : GetPredictions(r) \/ CachePredictions(r)
  \/ Expires

ForecastSpec == ForecastInit /\ [][ForecastNext]_forecastVars

-----------------------------------------------------------------------------
\* trainAndPredict: as long as no two trainings meet, the product has the
\* predictions of one training only, although trainings fail half way; two first
\* trainings that meet create two models, and reads return the sum of both.
PredictionsAreOneTraining ==
  "trainings" \notin races => Cardinality({p.by : p \in predictions}) <= 1

\* "Retraining invalidates any cached read": once the trainings have ended without
\* a failure, a cached read is what the database holds; unless a read fetched the
\* rows before a training's end and cached them after it.
CachedIsCurrent ==
  "read" \notin races /\ forecastFaults = 0 /\ InTraining = {} /\ Fetched = {} =>
    cached \subseteq {predictions}

\* trainAndPredict and getPredictions together: what is stored is the work of one
\* training, and what is cached is what is stored.
ForecastIsLatest == PredictionsAreOneTraining /\ CachedIsCurrent
=============================================================================
