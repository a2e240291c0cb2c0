------------------------- MODULE SearchAndTraining --------------------------
(***************************************************************************)
(* Two places of the web client that send requests while earlier ones are  *)
(* under way: the search box of the layout and the pages that train        *)
(* forecasts.                                                              *)
(***************************************************************************)
EXTENDS Naturals, Sequences, SequencesExt

(***************************************************************************)
(* The search box of the layout: what is typed is searched for after a     *)
(* pause, requests are numbered, and an answer counts only while its       *)
(* number is the newest.  Closing the box or emptying it cancels the pause *)
(* but not a request, whose answer can still arrive.                       *)
(***************************************************************************)

CONSTANTS
  Queries,     \* what is typed, of two characters or more
  Short,       \* anything shorter
  NoQuery,     \* no timer, no results
  MaxHits,     \* bounds the hits of a query
  MaxKeys,     \* bounds the changes of the query and the openings of the box
  BoxFaults    \* bounds the requests that fail

ASSUME BoxAssumption ==
  {MaxHits, MaxKeys, BoxFaults} \subseteq Nat /\ {Short, NoQuery} \cap Queries = {}

VARIABLES
  box,        \* whether it is open, what was typed, the timer's query, the spinner
  asked,      \* requestIdRef
  asking,     \* the requests under way, by number and query
  found,      \* the query whose hits are shown, how many, the one highlighted, the error
  boxTally    \* counters of the bounds

boxVars == <<box, asked, asking, found, boxTally>>

Nothing == [of |-> NoQuery, hits |-> 0, active |-> 0, failed |-> FALSE]

BoxInit ==
  /\ box = [open |-> FALSE, query |-> Short, timer |-> NoQuery, spins |-> FALSE]
  /\ asked = 0 /\ asking = {}
  /\ found = Nothing
  /\ boxTally = [keys |-> 0, faults |-> 0]

Keystroke == boxTally.keys < MaxKeys /\ boxTally' = [boxTally EXCEPT !.keys = @ + 1]

\* The effect of [query, open] finds the query empty: closing emptied it.
OpenBox ==
  /\ ~box.open /\ Keystroke
  /\ box' = [box EXCEPT !.open = TRUE, !.timer = NoQuery, !.spins = FALSE]
  /\ found' = [Nothing EXCEPT !.active = found.active]
  /\ UNCHANGED <<asked, asking>>

\* A shorter query takes the hits away; a longer one leaves them until it is answered.
TypeQuery ==
  /\ box.open /\ Keystroke
  /\ \E q \in (Queries \cup {Short}) \ {box.query} :
       /\ box' = [box EXCEPT !.query = q, !.spins = q # Short,
                             !.timer = IF q = Short THEN NoQuery ELSE q]
       /\ found' = IF q = Short THEN [Nothing EXCEPT !.active = found.active]
                                ELSE [found EXCEPT !.failed = FALSE]
  /\ UNCHANGED <<asked, asking>>

SendQuery ==
  /\ box.timer # NoQuery
  /\ asked' = asked + 1
  /\ asking' = asking \cup {[id |-> asked + 1, query |-> box.timer]}
  /\ box' = [box EXCEPT !.timer = NoQuery]
  /\ UNCHANGED <<found, boxTally>>

AnyAnswer(r) == TRUE
IsNewest(r) == r.id = asked

QueryAnswered(r) ==
  /\ asking' = asking \ {r}
  /\ \/ /\ IsNewest(r)
        /\ \E n \in 0 .. MaxHits : found' = [found EXCEPT !.of = r.query, !.hits = n, !.active = 0]
        /\ box' = [box EXCEPT !.spins = FALSE]
     \/ ~IsNewest(r) /\ UNCHANGED <<box, found>>
  /\ UNCHANGED <<asked, boxTally>>

QueryFails(r) ==
  /\ boxTally.faults < BoxFaults /\ boxTally' = [boxTally EXCEPT !.faults = @ + 1]
  /\ asking' = asking \ {r}
  /\ \/ /\ IsNewest(r)
        /\ found' = [Nothing EXCEPT !.active = found.active, !.failed = TRUE]
        /\ box' = [box EXCEPT !.spins = FALSE]
     \/ ~IsNewest(r) /\ UNCHANGED <<box, found>>
  /\ UNCHANGED asked

\* The arrow keys go round, the pointer goes anywhere.
Highlight ==
  /\ box.open /\ found.hits > 0
  /\ \E k \in 0 .. found.hits - 1 : found' = [found EXCEPT !.active = k]
  /\ UNCHANGED <<box, asked, asking, boxTally>>

\* Escape, the cross, a click beside the box, or a hit that is opened.
CloseBox ==
  /\ box.open
  /\ box' = [open |-> FALSE, query |-> Short, timer |-> NoQuery, spins |-> FALSE]
  /\ found' = Nothing
  /\ UNCHANGED <<asked, asking, boxTally>>

SomeAnswer == \E r \in asking : QueryAnswered(r) \/ QueryFails(r)

BoxNext ==
  \/ OpenBox
  \/ TypeQuery
  \/ SendQuery
  \/ SomeAnswer
  \/ Highlight
  \/ CloseBox

BoxSpec == BoxInit /\ [][BoxNext]_boxVars

-----------------------------------------------------------------------------
\* The effect of [query, open]: once the newest request is answered and no pause
\* runs, the spinner rests and the hits shown are those of what is typed, however
\* the answers were ordered and whatever was typed, emptied or closed before.  The
\* failure of an older request may still be written above them.
ShownIsTyped ==
  (box.open /\ box.query \in Queries /\ box.timer = NoQuery /\ \A r \in asking : r.id # asked)
    => /\ ~box.spins
       /\ found.of \in {box.query} \cup IF found.failed THEN {NoQuery} ELSE {}

\* onKeyDown: Enter opens a hit that is on the list: a list that grows shorter
\* takes the highlight back to its top.
HighlightIsAHit == found.hits > 0 => found.active < found.hits

\* The search effect: a spinner waits for a pause or for the newest request, never
\* for one whose answer will not count.
SpinnerHasACause ==
  box.spins => box.timer # NoQuery \/ \E r \in asking : r.id = asked

\* GlobalSearch as a whole.
SearchBoxHolds == ShownIsTyped /\ HighlightIsAHit /\ SpinnerHasACause

-----------------------------------------------------------------------------
(***************************************************************************)
(* The two pages that train the forecasts of products: one product at a    *)
(* time, or all that are listed one after another.  Every product has a    *)
(* flag that disables its button; "train all" has one that disables all. A *)
(* training patches the list; a load replaces it, and hides the buttons    *)
(* while it is under way.                                                  *)
(***************************************************************************)

CONSTANTS
  Products,       \* the products, in the order they are listed
  MaxTrainings,   \* bounds the clicks that train or load
  TrainFaults     \* bounds the calls that fail

ASSUME TrainingAssumption ==
  {MaxTrainings, TrainFaults} \subseteq Nat /\ Products \in Seq(ToSet(Products))

VARIABLES
  models,      \* the trainings of each product that the API completed
  list,        \* of each product listed, the last training that is shown
  listing,     \* the load under way and what it read
  training,    \* the products whose button is disabled
  runs,        \* the trainings under way, for a row or for all
  walk,        \* "train all": its flag, what is left, what it began with
  blemish,     \* what the page does not provide for
  trainTally   \* counters of the bounds

trainVars == <<models, list, listing, training, runs, walk, blemish, trainTally>>

Untrained == [p \in ToSet(Products) |-> 0]
AtRest == [flag |-> FALSE, left |-> <<>>, began |-> <<>>]

TrainInit ==
  /\ models = Untrained /\ list = <<>> /\ listing = [at |-> "none", got |-> <<>>]
  /\ training = {} /\ runs = {} /\ walk = AtRest /\ blemish = {}
  /\ trainTally = [clicks |-> 0, faults |-> 0]

TrainClick ==
  trainTally.clicks < MaxTrainings /\ trainTally' = [trainTally EXCEPT !.clicks = @ + 1]
TrainFault ==
  trainTally.faults < TrainFaults /\ trainTally' = [trainTally EXCEPT !.faults = @ + 1]

\* The buttons are there.
Visible == listing.at = "none"

\* The page is mounted, or refreshed.
LoadStatus ==
  /\ Visible /\ TrainClick
  /\ listing' = [at |-> "sent", got |-> <<>>]
  /\ UNCHANGED <<models, list, training, runs, walk, blemish>>

StatusIsRead ==
  /\ listing.at = "sent"
  /\ listing' = [at |-> "read", got |-> models]
  /\ UNCHANGED <<models, list, training, runs, walk, blemish, trainTally>>

StatusArrives ==
  /\ listing.at = "read"
  /\ list' = listing.got
  /\ blemish' = blemish \cup IF \E p \in DOMAIN list : list[p] > listing.got[p] THEN {"undone"} ELSE {}
  /\ listing' = [at |-> "none", got |-> <<>>]
  /\ UNCHANGED <<models, training, runs, walk, trainTally>>

StatusFails ==
  /\ listing.at # "none" /\ TrainFault
  /\ listing' = [at |-> "none", got |-> <<>>]
  /\ blemish' = blemish \cup {"failed"}
  /\ UNCHANGED <<models, list, training, runs, walk>>

-----------------------------------------------------------------------------
\* trainOne, up to the call.
Starts(p, by) ==
  /\ training' = training \cup {p}
  /\ runs' = runs \cup {[of |-> p, by |-> by, result |-> 0]}
  /\ blemish' = blemish \cup IF \E t \in runs : t.of = p THEN {"twice"} ELSE {}

TrainRow(p) ==
  /\ Visible /\ p \in DOMAIN list /\ p \notin training /\ ~walk.flag /\ TrainClick
  /\ Starts(p, "row")
  /\ UNCHANGED <<models, list, listing, walk>>

\* trainAllItems, over the products listed at the click.
TrainAll ==
  /\ Visible /\ ~walk.flag /\ TrainClick
  /\ walk' = IF list = <<>> THEN [AtRest EXCEPT !.flag = TRUE]
              ELSE [flag |-> TRUE, left |-> Products, began |-> models]
  /\ UNCHANGED <<models, list, listing, training, runs, blemish>>

\* The next product is trained once the last one's training has ended.
WalkOn ==
  /\ walk.left # <<>> /\ \A t \in runs : t.by = "row"
  /\ Starts(Head(walk.left), "all")
  /\ walk' = [walk EXCEPT !.left = Tail(@)]
  /\ UNCHANGED <<models, list, listing, trainTally>>

\* Without awaiting the trainings.
WalkEndsAtOnce ==
  /\ walk.flag /\ walk.left = <<>> /\ "stuck" \notin blemish
  /\ walk' = [walk EXCEPT !.flag = FALSE]
  /\ UNCHANGED <<models, list, listing, training, runs, blemish, trainTally>>

WalkEnds ==
  /\ walk.flag /\ walk.left = <<>> /\ "stuck" \notin blemish
  /\ \A t \in runs : t.by = "row"
  /\ walk' = [walk EXCEPT !.flag = FALSE]
  /\ UNCHANGED <<models, list, listing, training, runs, blemish, trainTally>>

\* The API stored a model.
ModelStored(t) ==
  /\ t.result = 0
  /\ models' = [models EXCEPT ![t.of] = @ + 1]
  /\ runs' = (runs \ {t}) \cup {[t EXCEPT !.result = models[t.of] + 1]}
  /\ UNCHANGED <<list, listing, training, walk, blemish, trainTally>>

\* The product's row is patched, if it is listed, and its button enabled.
TrainingAnswered(t) ==
  /\ t.result > 0
  /\ list' = [p \in DOMAIN list |-> IF p = t.of THEN t.result ELSE list[p]]
  /\ blemish' = blemish \cup IF listing.at = "read" /\ listing.got[t.of] < t.result THEN {"undone"} ELSE {}
  /\ training' = training \ {t.of}
  /\ runs' = runs \ {t}
  /\ UNCHANGED <<models, listing, walk, trainTally>>

\* A training fails, or its answer is lost.  Nothing catches the failure: the walk
\* ends and its flag stays.
TrainingFails(t) ==
  /\ TrainFault
  /\ training' = training \ {t.of} /\ runs' = runs \ {t}
  /\ walk' = IF t.by = "all" THEN [walk EXCEPT !.left = <<>>] ELSE walk
  /\ blemish' = blemish \cup {"failed"} \cup IF t.by = "all" THEN {"stuck"} ELSE {}
  /\ UNCHANGED <<models, list, listing>>

TrainNext ==
  \/ LoadStatus
  \/ StatusIsRead
  \/ StatusArrives
  \/ StatusFails
  \/ \E p \in ToSet(Products) : TrainRow(p)
  \/ TrainAll
  \/ WalkOn
  \/ WalkEnds
  \/ \E t \in runs : ModelStored(t) \/ TrainingAnswered(t) \/ TrainingFails(t)

TrainSpec == TrainInit /\ [][TrainNext]_trainVars

-----------------------------------------------------------------------------
\* trainOne: once nothing is under way every row shows its last training.  Only a
\* failure, a load that was read before an answer patched the list, and "train all"
\* clicked while a row is trained, which trains it twice, can break this.
RowsShowTheirTraining ==
  (runs = {} /\ listing.at = "none" /\ blemish = {}) => list \in {<<>>, models}

\* The button of a product is disabled exactly while it is trained, unless it is
\* trained twice: then the first answer enables it.
ButtonsTellTrainings ==
  /\ training \subseteq {t.of : t \in runs}
  /\ "twice" \notin blemish => training = {t.of : t \in runs}

\* trainAllItems: when "train all" can be clicked again, every product listed at the
\* last click was trained since.
AllWereTrained ==
  ~walk.flag => \A p \in DOMAIN walk.began : models[p] > walk.began[p]

\* The training pages as a whole.
TrainingHolds == RowsShowTheirTraining /\ ButtonsTellTrainings /\ AllWereTrained
=============================================================================
