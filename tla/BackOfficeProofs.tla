------------------------- MODULE BackOfficeProofs ---------------------------
(***************************************************************************)
(* Proofs about the back office: the general ledger, tenants, leave and    *)
(* attendance, project plans and employment, each for any number of        *)
(* concurrent requests and faults.                                         *)
(***************************************************************************)
EXTENDS Employment, LeaveAndAttendance, Tenants, GeneralLedger, ProjectPlans,
        SequenceTheorems, FiniteSetTheorems, Sums

(***************************************************************************)
(* GeneralLedger: type correctness, that a locked period no transaction is *)
(* about to extend never changes again, and that what is stored of an      *)
(* entry almost balances.  The second follows from two facts about a step: *)
(* only a request that stands at "insert" adds an entry, and a request     *)
(* gets there only through a period that is not locked.  The third bounds  *)
(* what rounding each amount does to the two sums.                         *)
(***************************************************************************)

LEMMA RoundedType ==
  ASSUME NEW a \in Nat PROVE Rounded(a) \in Nat
  BY DEF Rounded

LEMMA StoredType ==
  ASSUME NEW lines \in Seq(Line)
  PROVE  Stored(lines) \in Seq(Line)
<1>1. DOMAIN lines = 1 .. Len(lines) /\ Len(lines) \in Nat
  OBVIOUS
<1>2. \A n \in 1 .. Len(lines) : lines[n] \in Line
  OBVIOUS
<1>3. \A n \in 1 .. Len(lines) :
        [debit |-> Rounded(lines[n].debit), credit |-> Rounded(lines[n].credit)] \in Line
  BY <1>2, RoundedType DEF Line
<1> QED
  BY <1>1, <1>3 DEF Stored

\* The lines of an automatic posting.
LEMMA PostingLines ==
  <<[debit |-> Amount, credit |-> 0], [debit |-> 0, credit |-> Amount]>> \in Seq(Line)
<1>1. [debit |-> Amount, credit |-> 0] \in Line /\ [debit |-> 0, credit |-> Amount] \in Line
  BY LedgerAssumption DEF Line
<1> QED
  BY <1>1

\* A request under way.
Active == [pc : {"open", "row", "begin", "insert", "done", "failed"},
           kind : Kinds, period : Periods, lines : Seq(Line)]

LEMMA ActiveRequest ==
  ASSUME TypeOK, NEW r \in Requests, req[r].pc # "idle"
  PROVE  req[r] \in Active
  BY DEF TypeOK, Request, Active

\* Moving a request on keeps it a request.
LEMMA MoveOn ==
  ASSUME TypeOK, NEW r \in Requests, req[r].pc # "idle",
         NEW pc \in {"open", "row", "begin", "insert", "done", "failed"}, At(r, pc)
  PROVE  /\ req' \in [Requests -> Request]
         /\ req'[r].pc = pc /\ req'[r].period = req[r].period
         /\ req'[r].lines = req[r].lines
         /\ \A q \in Requests : q # r => req'[q] = req[q]
<1>1. req[r] \in Active
  BY ActiveRequest
<1> DEFINE moved == [req[r] EXCEPT !.pc = pc]
<1>2. /\ moved \in Active /\ moved.pc = pc /\ moved.period = req[r].period
      /\ moved.lines = req[r].lines
  BY <1>1 DEF Active
<1>3. req' = [req EXCEPT ![r] = moved]
  BY DEF At
<1>4. moved \in Request
  BY <1>2 DEF Active, Request
<1> HIDE DEF moved
<1> QED
  BY <1>2, <1>3, <1>4 DEF TypeOK

-----------------------------------------------------------------------------
LEMMA InitType == Init => TypeOK
<1> SUFFICES ASSUME Init PROVE TypeOK
  OBVIOUS
<1>1. entries \in [DOMAIN entries -> [period : Periods, lines : Seq(Line)]]
  BY DEF Init
<1>2. req \in [Requests -> Request]
  BY DEF Init, Idle, Request
<1>3. DOMAIN entries = {} /\ \A r \in Requests : req[r].pc = "idle"
  BY DEF Init, Idle
<1>4. period \in [Periods -> {"absent", "open", "locked"}] /\ transfers = {} /\ faults \in 0 .. MaxFaults
  BY LedgerAssumption DEF Init
<1> QED
  BY <1>1, <1>2, <1>3, <1>4 DEF TypeOK

LEMMA PeriodStepType ==
  ASSUME TypeOK, NEW p \in Periods, OpenFiscalPeriod(p) \/ CloseFiscalPeriod(p)
  PROVE  TypeOK'
<1>1. /\ period' \in [Periods -> {"absent", "open", "locked"}]
      /\ \A s \in Periods : period[s] # "absent" => period'[s] # "absent"
      /\ UNCHANGED <<entries, transfers, req, faults>>
  BY DEF OpenFiscalPeriod, CloseFiscalPeriod, TypeOK
<1>2. \A q \in DOMAIN entries : q \in Requests /\ entries[q].period \in Periods
  BY DEF TypeOK
<1>3. \A q \in Requests : req[q].pc # "idle" => req[q].period \in Periods
  BY DEF TypeOK, Request
<1>4. \A q \in DOMAIN entries' : req'[q].pc = "done" /\ period'[entries'[q].period] # "absent"
  BY <1>1, <1>2 DEF TypeOK
<1>5. \A q \in Requests :
        /\ req'[q].pc = "open" => req'[q].period = Current
        /\ req'[q].pc \in {"row", "begin", "insert"} => period'[req'[q].period] # "absent"
  BY <1>1, <1>3 DEF TypeOK
<1> QED
  BY <1>1, <1>4, <1>5 DEF TypeOK

LEMMA ManualType ==
  ASSUME TypeOK, NEW r \in Requests, NEW p \in Periods, NEW lines \in Drafts,
         CreateManualEntry(r, p, lines)
  PROVE  TypeOK'
<1>1. [pc |-> "insert", kind |-> "manual", period |-> p, lines |-> lines] \in Request
  BY LedgerAssumption DEF Request, Kinds
<1>2. req' \in [Requests -> Request]
  BY <1>1 DEF CreateManualEntry, TypeOK
<1>3. \A q \in DOMAIN entries : req'[q] = req[q]
  BY DEF CreateManualEntry, TypeOK, Idle
<1>4. /\ req'[r].period = p /\ req'[r].pc = "insert" /\ period[p] # "absent"
      /\ \A q \in Requests : q # r => req'[q] = req[q]
  BY DEF CreateManualEntry, TakesEntries, TypeOK
<1> QED
  BY <1>2, <1>3, <1>4 DEF CreateManualEntry, TypeOK

LEMMA StartType ==
  ASSUME TypeOK, NEW r \in Requests, NEW kind \in {"posting", "transfer"},
         StartPosting(r, kind)
  PROVE  TypeOK' /\ req'[r].pc # "insert"
<1> DEFINE lines == <<[debit |-> Amount, credit |-> 0], [debit |-> 0, credit |-> Amount]>>
           pc == IF period[Current] = "absent" THEN "open"
                 ELSE IF kind = "transfer" THEN "row" ELSE "begin"
           new == [pc |-> pc, kind |-> kind, period |-> Current, lines |-> lines]
<1>1. lines \in Seq(Line)
  BY PostingLines
<1> HIDE DEF lines
<1>2. /\ new \in Request /\ new.pc # "insert"
      /\ new.period = Current /\ (new.pc # "open" => period[Current] # "absent")
  BY <1>1, LedgerAssumption DEF Request, Kinds
<1>3. req' = [req EXCEPT ![r] = new]
  BY DEF StartPosting, lines
<1> HIDE DEF new
<1>4. \A q \in DOMAIN entries : req'[q] = req[q]
  BY <1>3 DEF StartPosting, TypeOK, Idle
<1>5. req' \in [Requests -> Request] /\ req'[r] = new
      /\ \A q \in Requests : q # r => req'[q] = req[q]
  BY <1>2, <1>3 DEF TypeOK
<1> QED
  BY <1>2, <1>4, <1>5 DEF StartPosting, TypeOK

\* A request moved past the period lookup, or out of it.
LEMMA MoveType ==
  ASSUME TypeOK, NEW r \in Requests, req[r].pc \in {"open", "row", "begin", "insert"},
         NEW pc \in {"row", "begin", "insert", "failed"}, At(r, pc),
         pc # "failed" => period'[req[r].period] # "absent",
         period' \in [Periods -> {"absent", "open", "locked"}],
         \A p \in Periods : period[p] # "absent" => period'[p] # "absent",
         entries' = entries, transfers' \subseteq Requests, faults' \in 0 .. MaxFaults
  PROVE  TypeOK'
<1>1. /\ req' \in [Requests -> Request]
      /\ req'[r].pc = pc /\ req'[r].period = req[r].period
      /\ \A q \in Requests : q # r => req'[q] = req[q]
  BY MoveOn
<1>2. \A q \in DOMAIN entries : q # r /\ q \in Requests /\ entries[q].period \in Periods
  BY DEF TypeOK
<1>3. \A q \in Requests : req[q].pc # "idle" => req[q].period \in Periods
  BY DEF TypeOK, Request
<1>4. \A q \in DOMAIN entries' : req'[q].pc = "done" /\ period'[entries'[q].period] # "absent"
  BY <1>1, <1>2 DEF TypeOK
<1>5. \A q \in Requests :
        /\ req'[q].pc = "open" => req'[q].period = Current
        /\ req'[q].pc \in {"row", "begin", "insert"} => period'[req'[q].period] # "absent"
  BY <1>1, <1>3 DEF TypeOK
<1> QED
  BY <1>1, <1>4, <1>5 DEF TypeOK

LEMMA CreatePeriodType ==
  ASSUME TypeOK, NEW r \in Requests, CreatePeriod(r)
  PROVE  TypeOK' /\ req'[r].pc # "insert" /\ \A q \in Requests : q # r => req'[q] = req[q]
<1> DEFINE pc == IF req[r].kind = "transfer" THEN "row" ELSE "begin"
<1>1. /\ period' \in [Periods -> {"absent", "open", "locked"}]
      /\ \A p \in Periods : period[p] # "absent" => period'[p] # "absent"
      /\ period'[Current] # "absent"
  BY LedgerAssumption DEF CreatePeriod, TypeOK
<1>2. /\ req[r].pc = "open" /\ req[r].period = Current
      /\ entries' = entries /\ transfers' \subseteq Requests /\ faults' \in 0 .. MaxFaults
  BY DEF CreatePeriod, TypeOK
<1>3. pc \in {"row", "begin"} /\ At(r, pc)
  BY DEF CreatePeriod
<1> HIDE DEF pc
<1> QED
  BY <1>1, <1>2, <1>3, MoveType, MoveOn

LEMMA OtherMovesType ==
  ASSUME TypeOK, NEW r \in Requests,
         CreatePeriodFails(r) \/ CreateTransfer(r) \/ Fail(r)
  PROVE  TypeOK' /\ req'[r].pc # "insert" /\ \A q \in Requests : q # r => req'[q] = req[q]
<1>1. PICK pc \in {"begin", "failed"} :
        /\ req[r].pc \in {"open", "row", "begin", "insert"}
        /\ At(r, pc) /\ (pc # "failed" => period'[req[r].period] # "absent")
  BY DEF CreatePeriodFails, CreateTransfer, Fail, TypeOK
<1>2. period' = period /\ entries' = entries /\ transfers' \subseteq Requests
  BY DEF CreatePeriodFails, CreateTransfer, Fail, TypeOK
<1>3. faults' \in 0 .. MaxFaults
  BY LedgerAssumption DEF CreatePeriodFails, CreateTransfer, Fail, TypeOK
<1>4. period' \in [Periods -> {"absent", "open", "locked"}]
      /\ \A p \in Periods : period[p] # "absent" => period'[p] # "absent"
  BY <1>2 DEF TypeOK
<1> QED
  BY <1>1, <1>2, <1>3, <1>4, MoveType, MoveOn

LEMMA BeginType ==
  ASSUME TypeOK, NEW r \in Requests, BeginEntry(r)
  PROVE  /\ TypeOK' /\ \A q \in Requests : q # r => req'[q] = req[q]
         /\ req'[r].pc = "insert" => period[req'[r].period] = "open"
<1>1. PICK pc \in {"insert", "failed"} :
        At(r, pc) /\ (pc = "insert" => period[req[r].period] = "open")
  BY DEF BeginEntry, TakesEntries
<1>2. req[r].pc = "begin" /\ period' = period /\ entries' = entries
      /\ transfers' \subseteq Requests /\ faults' \in 0 .. MaxFaults
  BY DEF BeginEntry, TypeOK
<1>3. /\ period' \in [Periods -> {"absent", "open", "locked"}]
      /\ \A p \in Periods : period[p] # "absent" => period'[p] # "absent"
  BY <1>2 DEF TypeOK
<1> QED
  BY <1>1, <1>2, <1>3, MoveType, MoveOn

LEMMA CrashType ==
  ASSUME TypeOK, Crash
  PROVE  TypeOK' /\ \A r \in Requests : req'[r].pc = "insert" => FALSE
<1>1. \A r \in Requests :
        /\ req'[r] \in Request
        /\ req'[r].pc \in {"idle", "done", "failed"}
        /\ req[r].pc = "done" => req'[r] = req[r]
  <2> TAKE r \in Requests
  <2>1. CASE req[r].pc \in {"idle", "done", "failed"}
    <3>1. req'[r] = req[r]
      BY <2>1 DEF Crash
    <3> QED
      BY <2>1, <3>1 DEF TypeOK
  <2>2. CASE req[r].pc \notin {"idle", "done", "failed"}
    <3>1. req[r] \in Active
      BY <2>2, ActiveRequest
    <3> DEFINE dead == [req[r] EXCEPT !.pc = "failed"]
    <3>2. dead \in Active /\ dead.pc = "failed"
      BY <3>1 DEF Active
    <3>3. req'[r] = dead
      BY <2>2 DEF Crash
    <3>4. dead \in Request
      BY <3>2 DEF Active, Request
    <3> HIDE DEF dead
    <3> QED
      BY <2>2, <3>2, <3>3, <3>4
  <2> QED
    BY <2>1, <2>2
<1>2. req' \in [Requests -> Request]
  <2>1. req' = [r \in Requests |-> req'[r]]
    BY Zenon DEF Crash
  <2>2. \A r \in Requests : req'[r] \in Request
    BY <1>1
  <2> QED
    BY <2>1, <2>2, Zenon
<1>3. faults' \in 0 .. MaxFaults /\ period' = period /\ entries' = entries /\ transfers' = transfers
  BY LedgerAssumption DEF Crash, TypeOK
<1>4. \A r \in DOMAIN entries' : req'[r].pc = "done" /\ period'[entries'[r].period] # "absent"
  BY <1>1, <1>3 DEF TypeOK
<1>5. \A r \in Requests : req'[r].pc \notin {"open", "row", "begin", "insert"}
  BY <1>1
<1> QED
  BY <1>2, <1>3, <1>4, <1>5 DEF TypeOK

LEMMA InsertType ==
  ASSUME TypeOK, NEW r \in Requests, Insert(r)
  PROVE  TypeOK' /\ \A q \in Requests : q # r => req'[q] = req[q]
<1> DEFINE entry == [period |-> req[r].period, lines |-> Stored(req[r].lines)]
<1>1. req[r] \in Active
  BY ActiveRequest DEF Insert
<1>2. entry \in [period : Periods, lines : Seq(Line)] /\ entry.period = req[r].period
  BY <1>1, StoredType DEF Active
<1>3. entries' = [x \in DOMAIN entries \cup {r} |-> IF x = r THEN entry ELSE entries[x]]
  BY DEF Insert
<1> HIDE DEF entry
<1>4. entries' \in [DOMAIN entries' -> [period : Periods, lines : Seq(Line)]]
      /\ DOMAIN entries' \subseteq Requests
  BY <1>2, <1>3 DEF TypeOK
<1>5. /\ req' \in [Requests -> Request] /\ req'[r].pc = "done"
      /\ \A q \in Requests : q # r => req'[q] = req[q]
  BY MoveOn DEF Insert
<1>6. \A q \in DOMAIN entries' : req'[q].pc = "done" /\ period[entries'[q].period] # "absent"
  BY <1>2, <1>3, <1>5 DEF Insert, TypeOK
<1>7. \A q \in Requests :
        /\ req'[q].pc = "open" => req'[q].period = Current
        /\ req'[q].pc \in {"row", "begin", "insert"} => period[req'[q].period] # "absent"
  BY <1>5 DEF TypeOK
<1> QED
  BY <1>4, <1>5, <1>6, <1>7 DEF Insert, TypeOK

-----------------------------------------------------------------------------
LEMMA TypeStep == TypeOK /\ [Next]_vars => TypeOK'
<1> SUFFICES ASSUME TypeOK, [Next]_vars PROVE TypeOK'
  OBVIOUS
<1>1. ASSUME NEW p \in Periods, OpenFiscalPeriod(p) \/ CloseFiscalPeriod(p) PROVE TypeOK'
  BY <1>1, PeriodStepType
<1>2. ASSUME NEW r \in Requests, NEW p \in Periods, NEW lines \in Drafts,
             CreateManualEntry(r, p, lines)
      PROVE  TypeOK'
  BY <1>2, ManualType
<1>3. ASSUME NEW r \in Requests, NEW kind \in {"posting", "transfer"}, StartPosting(r, kind)
      PROVE  TypeOK'
  BY <1>3, StartType
<1>4. ASSUME NEW r \in Requests, Proceed(r) PROVE TypeOK'
  BY <1>4, CreatePeriodType, OtherMovesType, BeginType, InsertType DEF Proceed
<1>5. CASE Crash
  BY <1>5, CrashType
<1>6. CASE UNCHANGED vars
  BY <1>6 DEF vars, TypeOK
<1> QED
  BY <1>1, <1>2, <1>3, <1>4, <1>5, <1>6 DEF Next

\* Every reachable state of the ledger is of its type: an entry stands in a
\* period that exists, whichever requests raced to create it.
THEOREM TypeCorrect == Spec => []TypeOK
  BY InitType, TypeStep, PTL DEF Spec

-----------------------------------------------------------------------------
\* A step leaves a final period's lock, its entries and its absence of pending
\* entries as they are.
LEMMA FinalStep ==
  ASSUME TypeOK, [Next]_vars, NEW p \in Periods, Final(p)
  PROVE  Final(p)' /\ EntriesOf(p)' = EntriesOf(p)
<1>0. period[p] = "locked" /\ \A r \in Requests : req[r].pc = "insert" => req[r].period # p
  BY DEF Final, Pending
<1>1. ASSUME period'[p] = "locked", entries' = entries,
             \A q \in Requests : req'[q].pc = "insert" =>
               req'[q] = req[q] \/ period[req'[q].period] = "open"
      PROVE  Final(p)' /\ EntriesOf(p)' = EntriesOf(p)
  BY <1>0, <1>1 DEF Final, Pending, EntriesOf
<1>2. ASSUME NEW s \in Periods, OpenFiscalPeriod(s) \/ CloseFiscalPeriod(s)
      PROVE  Final(p)' /\ EntriesOf(p)' = EntriesOf(p)
  <2>1. period'[p] = "locked" /\ entries' = entries /\ req' = req
    BY <1>0, <1>2 DEF OpenFiscalPeriod, CloseFiscalPeriod, TypeOK
  <2> QED
    BY <1>1, <2>1
<1>3. ASSUME NEW r \in Requests, NEW s \in Periods, NEW lines \in Drafts,
             CreateManualEntry(r, s, lines)
      PROVE  Final(p)' /\ EntriesOf(p)' = EntriesOf(p)
  <2>1. /\ period' = period /\ entries' = entries
        /\ period[s] = "open" /\ req'[r].period = s
        /\ \A q \in Requests : q # r => req'[q] = req[q]
    BY <1>3 DEF CreateManualEntry, TakesEntries, TypeOK
  <2> QED
    BY <1>0, <1>1, <2>1
<1>4. ASSUME NEW r \in Requests, NEW kind \in {"posting", "transfer"}, StartPosting(r, kind)
      PROVE  Final(p)' /\ EntriesOf(p)' = EntriesOf(p)
  <2>1. /\ period' = period /\ entries' = entries
        /\ \A q \in Requests : q # r => req'[q] = req[q]
    BY <1>4 DEF StartPosting, TypeOK
  <2>2. req'[r].pc # "insert"
    BY <1>4, StartType
  <2> QED
    BY <1>0, <1>1, <2>1, <2>2
<1>5. ASSUME NEW r \in Requests, CreatePeriod(r)
      PROVE  Final(p)' /\ EntriesOf(p)' = EntriesOf(p)
  <2>1. period'[p] = "locked" /\ entries' = entries
    BY <1>0, <1>5 DEF CreatePeriod, TypeOK
  <2> QED
    BY <1>1, <1>5, <2>1, CreatePeriodType
<1>6. ASSUME NEW r \in Requests, CreatePeriodFails(r) \/ CreateTransfer(r) \/ Fail(r)
      PROVE  Final(p)' /\ EntriesOf(p)' = EntriesOf(p)
  <2>1. period' = period /\ entries' = entries
    BY <1>6 DEF CreatePeriodFails, CreateTransfer, Fail
  <2> QED
    BY <1>0, <1>1, <1>6, <2>1, OtherMovesType
<1>7. ASSUME NEW r \in Requests, BeginEntry(r)
      PROVE  Final(p)' /\ EntriesOf(p)' = EntriesOf(p)
  <2>1. period' = period /\ entries' = entries
    BY <1>7 DEF BeginEntry
  <2> QED
    BY <1>0, <1>1, <1>7, <2>1, BeginType
<1>8. ASSUME NEW r \in Requests, Insert(r)
      PROVE  Final(p)' /\ EntriesOf(p)' = EntriesOf(p)
  <2>1. /\ req[r].period # p /\ period' = period
        /\ DOMAIN entries' = DOMAIN entries \cup {r} /\ r \notin DOMAIN entries
        /\ entries'[r].period = req[r].period
        /\ \A q \in DOMAIN entries : q # r => entries'[q] = entries[q]
    BY <1>0, <1>8 DEF Insert, TypeOK
  <2>2. EntriesOf(p)' = EntriesOf(p)
    BY <2>1 DEF EntriesOf
  <2>3. req'[r].pc = "done" /\ \A q \in Requests : q # r => req'[q] = req[q]
    BY <1>8, MoveOn, InsertType DEF Insert
  <2> QED
    BY <1>0, <2>1, <2>2, <2>3 DEF Final, Pending
<1>9. CASE Crash
  <2>1. period' = period /\ entries' = entries
    BY <1>9 DEF Crash
  <2> QED
    BY <1>0, <1>1, <1>9, <2>1, CrashType
<1>10. CASE UNCHANGED vars
  BY <1>0, <1>1, <1>10 DEF vars
<1> QED
  BY <1>2, <1>3, <1>4, <1>5, <1>6, <1>7, <1>8, <1>9, <1>10 DEF Next, Proceed

\* closeFiscalPeriod and createJournalEntry: once a period is locked and no
\* transaction that found it open is left, neither its lock nor the set of its
\* entries ever changes, for any number of concurrent requests.
THEOREM FinalPeriodsStayAlways == Spec => FinalPeriodsStay
<1>1. TypeOK /\ [Next]_vars =>
        [\A p \in Periods : Final(p) => Final(p)' /\ EntriesOf(p)' = EntriesOf(p)]_vars
  BY FinalStep
<1> QED
  BY <1>1, TypeCorrect, PTL DEF Spec, FinalPeriodsStay

-----------------------------------------------------------------------------
LEMMA DebitSum ==
  ASSUME NEW lines
  PROVE  Debits(lines) = SumOf([n \in DOMAIN lines |-> lines[n].debit], DOMAIN lines)
<1> DEFINE S == DOMAIN lines
           Q(g) == g = [T \in SUBSET S |->
                          IF T = {} THEN 0 ELSE lines[AnyOf(T)].debit + g[T \ {AnyOf(T)}]]
<1>1. Debits(lines) = (CHOOSE g : Q(g))[S]
  BY DEF Debits, MapThenSumSet, MapThenFoldSet, AnyOf
<1>2. \A g : Q(g) <=> SumIter([n \in S |-> lines[n].debit], S, g)
  BY DEF AnyOf, SumIter
<1> HIDE DEF Q
<1>3. (CHOOSE g : Q(g)) = (CHOOSE g : SumIter([n \in S |-> lines[n].debit], S, g))
  BY <1>2
<1> QED
  BY <1>1, <1>3, SumUnfold

LEMMA CreditSum ==
  ASSUME NEW lines
  PROVE  Credits(lines) = SumOf([n \in DOMAIN lines |-> lines[n].credit], DOMAIN lines)
<1> DEFINE S == DOMAIN lines
           Q(g) == g = [T \in SUBSET S |->
                          IF T = {} THEN 0 ELSE lines[AnyOf(T)].credit + g[T \ {AnyOf(T)}]]
<1>1. Credits(lines) = (CHOOSE g : Q(g))[S]
  BY DEF Credits, MapThenSumSet, MapThenFoldSet, AnyOf
<1>2. \A g : Q(g) <=> SumIter([n \in S |-> lines[n].credit], S, g)
  BY DEF AnyOf, SumIter
<1> HIDE DEF Q
<1>3. (CHOOSE g : Q(g)) = (CHOOSE g : SumIter([n \in S |-> lines[n].credit], S, g))
  BY <1>2
<1> QED
  BY <1>1, <1>3, SumUnfold

\* What rounding adds to a sum: at most one half unit for each addend that is
\* not rounded to nothing.
LEMMA RoundingError ==
  ASSUME NEW f, NEW g, NEW S, IsFiniteSet(S),
         \A x \in S : f[x] \in Nat /\ g[x] = Rounded(f[x])
  PROVE  /\ SumOf(f, S) \in Nat /\ SumOf(g, S) \in Nat
         /\ SumOf(f, S) <= 2 * SumOf(g, S)
         /\ 2 * SumOf(g, S) <= SumOf(f, S) + Cardinality({x \in S : g[x] > 0})
<1>1. \A x \in S : /\ g[x] \in Nat /\ f[x] <= 2 * g[x]
                   /\ 2 * g[x] <= f[x] + IF g[x] > 0 THEN 1 ELSE 0
  BY DEF Rounded
<1>2. PICK C \in SUBSET (SUBSET S) :
        C = {T \in SUBSET S :
               /\ SumOf(f, T) <= 2 * SumOf(g, T)
               /\ 2 * SumOf(g, T) <= SumOf(f, T) + Cardinality({x \in T : g[x] > 0})}
  OBVIOUS
<1>3. ASSUME NEW X \in SUBSET S, \A Y \in SUBSET X : Y # X => Y \in C PROVE X \in C
  <2>1. CASE X = {}
    <3>1. SumOf(f, X) = 0 /\ SumOf(g, X) = 0 /\ {x \in X : g[x] > 0} = {}
      BY <2>1, SumEmpty
    <3>2. Cardinality({x \in X : g[x] > 0}) = 0
      BY <3>1, FS_EmptySet
    <3> QED
      BY <1>2, <3>1, <3>2
  <2>2. CASE X # {}
    <3>1. PICK y : y \in X
      BY <2>2
    <3>2. PICK T \in SUBSET S : T = X \ {y}
      OBVIOUS
    <3>3. IsFiniteSet(T) /\ y \notin T /\ T \cup {y} = X
      BY <3>1, <3>2, FS_Subset
    <3>4. \A x \in X : f[x] \in Int /\ g[x] \in Int
      BY <1>1
    <3>5. /\ SumOf(f, T \cup {y}) = f[y] + SumOf(f, T)
          /\ SumOf(g, T \cup {y}) = g[y] + SumOf(g, T)
      BY <3>1, <3>2, <3>3, <3>4, SumMore
    <3>6. PICK P : P = {x \in T : g[x] > 0}
      OBVIOUS
    <3>7. IsFiniteSet(P) /\ y \notin P /\ Cardinality(P) \in Nat
      BY <3>3, <3>6, FS_Subset, FS_CardinalityType
    <3>8. Cardinality({x \in X : g[x] > 0}) = Cardinality(P) + IF g[y] > 0 THEN 1 ELSE 0
      <4>1. CASE g[y] > 0
        <5>1. {x \in X : g[x] > 0} = P \cup {y}
          BY <3>1, <3>2, <3>6, <4>1
        <5> QED
          BY <3>7, <4>1, <5>1, FS_AddElement
      <4>2. CASE ~(g[y] > 0)
        <5>1. {x \in X : g[x] > 0} = P
          BY <3>1, <3>2, <3>6, <4>2
        <5>2. (IF g[y] > 0 THEN 1 ELSE 0) = 0
          BY <4>2
        <5>3. PICK n \in Nat : n = Cardinality(P)
          BY <3>7
        <5>4. n + (IF g[y] > 0 THEN 1 ELSE 0) = n
          BY <5>2, <5>3
        <5> QED
          BY <5>1, <5>3, <5>4
      <4> QED
        BY <4>1, <4>2
    <3>9. T \in C
      BY <1>3, <3>1, <3>2
    <3>10. SumOf(f, T) \in Int /\ SumOf(g, T) \in Int
      BY <3>3, <3>4, SumType
    <3>11. PICK a \in Int, b \in Int, n \in Nat :
             a = SumOf(f, T) /\ b = SumOf(g, T) /\ n = Cardinality(P)
      BY <3>7, <3>10
    <3>12. a <= 2 * b /\ 2 * b <= a + n
      BY <1>2, <3>6, <3>9, <3>11
    <3>13. SumOf(f, X) = f[y] + a /\ SumOf(g, X) = g[y] + b
      BY <3>3, <3>5, <3>11
    <3>14. PICK u \in Int, v \in Int : u = f[y] /\ v = g[y]
      BY <3>1, <3>4
    <3>15. u <= 2 * v /\ 2 * v <= u + IF v > 0 THEN 1 ELSE 0
      BY <1>1, <3>1, <3>14
    <3>16. Cardinality({x \in X : g[x] > 0}) = n + IF v > 0 THEN 1 ELSE 0
      BY <3>8, <3>11, <3>14
    <3> QED
      BY <1>2, <3>12, <3>13, <3>14, <3>15, <3>16
  <2> QED
    BY <2>1, <2>2
<1>4. C = SUBSET S
  BY <1>3, SubsetInduction
<1>5. SumOf(f, S) \in Nat /\ SumOf(g, S) \in Nat
  BY <1>1, SumType
<1> QED
  BY <1>2, <1>4, <1>5

\* What EntriesAlmostBalance says of the lines of an entry.
AlmostBalance(lines) ==
  2 * Gap(Debits(lines), Credits(lines)) <=
    2 + Cardinality({n \in DOMAIN lines : lines[n].debit > 0})
      + Cardinality({n \in DOMAIN lines : lines[n].credit > 0})

LEMMA StoredAlmostBalances ==
  ASSUME NEW lines \in Seq(Line), Balanced(lines)
  PROVE  AlmostBalance(Stored(lines))
<1>1. PICK S : S = DOMAIN lines
  OBVIOUS
<1>2. IsFiniteSet(S) /\ \A n \in S : lines[n].debit \in Nat /\ lines[n].credit \in Nat
  <2>1. S = 1 .. Len(lines) /\ Len(lines) \in Nat
    BY <1>1, LenProperties
  <2>2. IsFiniteSet(S)
    BY <2>1, FS_Interval
  <2>3. ASSUME NEW n \in S PROVE lines[n].debit \in Nat /\ lines[n].credit \in Nat
    <3>1. PICK line \in Line : line = lines[n]
      BY <2>1, ElementOfSeq
    <3>2. line.debit \in Nat /\ line.credit \in Nat
      BY <3>1 DEF Line
    <3> QED
      BY <3>1, <3>2
  <2> QED
    BY <2>2, <2>3
<1>3. PICK kept : kept = Stored(lines)
  OBVIOUS
<1>4. /\ DOMAIN kept = S
      /\ \A n \in S : /\ kept[n].debit = Rounded(lines[n].debit)
                      /\ kept[n].credit = Rounded(lines[n].credit)
  BY <1>1, <1>3 DEF Stored
<1>5. PICK d : d = [n \in S |-> lines[n].debit]
  OBVIOUS
<1>6. PICK c : c = [n \in S |-> lines[n].credit]
  OBVIOUS
<1>7. PICK e : e = [n \in S |-> kept[n].debit]
  OBVIOUS
<1>8. PICK b : b = [n \in S |-> kept[n].credit]
  OBVIOUS
<1>9. /\ Debits(lines) = SumOf(d, S) /\ Credits(lines) = SumOf(c, S)
      /\ Debits(kept) = SumOf(e, S) /\ Credits(kept) = SumOf(b, S)
  BY <1>1, <1>4, <1>5, <1>6, <1>7, <1>8, DebitSum, CreditSum
<1>10. \A n \in S : /\ d[n] \in Nat /\ c[n] \in Nat
                    /\ e[n] = Rounded(d[n]) /\ b[n] = Rounded(c[n])
  BY <1>2, <1>4, <1>5, <1>6, <1>7, <1>8
<1>11. PICK P : P = {n \in S : e[n] > 0}
  OBVIOUS
<1>12. PICK R : R = {n \in S : b[n] > 0}
  OBVIOUS
<1>13. Cardinality(P) \in Nat /\ Cardinality(R) \in Nat
  BY <1>2, <1>11, <1>12, FS_Subset, FS_CardinalityType
<1>14. /\ SumOf(d, S) \in Nat /\ SumOf(e, S) \in Nat
       /\ SumOf(d, S) <= 2 * SumOf(e, S) /\ 2 * SumOf(e, S) <= SumOf(d, S) + Cardinality(P)
  BY <1>2, <1>10, <1>11, RoundingError
<1>15. /\ SumOf(c, S) \in Nat /\ SumOf(b, S) \in Nat
       /\ SumOf(c, S) <= 2 * SumOf(b, S) /\ 2 * SumOf(b, S) <= SumOf(c, S) + Cardinality(R)
  BY <1>2, <1>10, <1>12, RoundingError
<1>16. PICK dd \in Nat, cc \in Nat, ee \in Nat, bb \in Nat, n \in Nat, m \in Nat :
         /\ dd = SumOf(d, S) /\ cc = SumOf(c, S) /\ ee = SumOf(e, S) /\ bb = SumOf(b, S)
         /\ n = Cardinality(P) /\ m = Cardinality(R)
  BY <1>13, <1>14, <1>15
<1>17. dd <= 2 * ee /\ 2 * ee <= dd + n /\ cc <= 2 * bb /\ 2 * bb <= cc + m
  BY <1>14, <1>15, <1>16
<1>18. Gap(dd, cc) <= 2
  BY <1>9, <1>16 DEF Balanced
<1>19. 2 * Gap(ee, bb) <= 2 + n + m
  BY <1>17, <1>18 DEF Gap
<1>20. /\ P = {k \in DOMAIN kept : kept[k].debit > 0}
       /\ R = {k \in DOMAIN kept : kept[k].credit > 0}
  BY <1>4, <1>7, <1>8, <1>11, <1>12
<1> QED
  BY <1>3, <1>9, <1>16, <1>19, <1>20 DEF AlmostBalance

\* A transaction about to insert has passed the double-entry test.
BalanceInv ==
  /\ \A r \in DOMAIN entries : AlmostBalance(entries[r].lines)
  /\ \A r \in Requests : req[r].pc = "insert" => Balanced(req[r].lines)

LEMMA BalanceStep == TypeOK /\ BalanceInv /\ [Next]_vars => BalanceInv'
<1> SUFFICES ASSUME TypeOK, BalanceInv, [Next]_vars PROVE BalanceInv'
  OBVIOUS
<1>1. ASSUME entries' = entries,
             \A q \in Requests : req'[q].pc = "insert" =>
               req'[q] = req[q] \/ Balanced(req'[q].lines)
      PROVE  BalanceInv'
  BY <1>1 DEF BalanceInv
<1>2. ASSUME NEW s \in Periods, OpenFiscalPeriod(s) \/ CloseFiscalPeriod(s)
      PROVE  BalanceInv'
  BY <1>1, <1>2 DEF OpenFiscalPeriod, CloseFiscalPeriod
<1>3. ASSUME NEW r \in Requests, NEW s \in Periods, NEW lines \in Drafts,
             CreateManualEntry(r, s, lines)
      PROVE  BalanceInv'
  <2>1. /\ entries' = entries /\ Balanced(lines) /\ req'[r].lines = lines
        /\ \A q \in Requests : q # r => req'[q] = req[q]
    BY <1>3 DEF CreateManualEntry, TypeOK
  <2> QED
    BY <1>1, <2>1
<1>4. ASSUME NEW r \in Requests, NEW kind \in {"posting", "transfer"}, StartPosting(r, kind)
      PROVE  BalanceInv'
  <2>1. entries' = entries /\ \A q \in Requests : q # r => req'[q] = req[q]
    BY <1>4 DEF StartPosting, TypeOK
  <2> QED
    BY <1>1, <1>4, <2>1, StartType
<1>5. ASSUME NEW r \in Requests, CreatePeriod(r) PROVE BalanceInv'
  <2>1. entries' = entries
    BY <1>5 DEF CreatePeriod
  <2>2. \A q \in Requests : req'[q].pc = "insert" => req'[q] = req[q]
    BY <1>5, CreatePeriodType
  <2> QED
    BY <1>1, <2>1, <2>2
<1>6. ASSUME NEW r \in Requests, CreatePeriodFails(r) \/ CreateTransfer(r) \/ Fail(r)
      PROVE  BalanceInv'
  <2>1. entries' = entries
    BY <1>6 DEF CreatePeriodFails, CreateTransfer, Fail
  <2> QED
    BY <1>1, <1>6, <2>1, OtherMovesType
<1>7. ASSUME NEW r \in Requests, BeginEntry(r) PROVE BalanceInv'
  <2>1. entries' = entries /\ req[r].pc = "begin"
    BY <1>7 DEF BeginEntry
  <2>2. PICK pc \in {"insert", "failed"} : At(r, pc) /\ (pc = "insert" => Balanced(req[r].lines))
    BY <1>7 DEF BeginEntry
  <2>3. /\ req'[r].pc = pc /\ req'[r].lines = req[r].lines
        /\ \A q \in Requests : q # r => req'[q] = req[q]
    BY <2>1, <2>2, MoveOn
  <2> QED
    BY <1>1, <2>1, <2>2, <2>3
<1>8. ASSUME NEW r \in Requests, Insert(r) PROVE BalanceInv'
  <2>1. req[r].pc = "insert" /\ Balanced(req[r].lines) /\ req[r].lines \in Seq(Line)
    BY <1>8, ActiveRequest DEF Insert, BalanceInv, Active
  <2>2. PICK kept : kept = Stored(req[r].lines)
    OBVIOUS
  <2>3. AlmostBalance(kept)
    BY <2>1, <2>2, StoredAlmostBalances
  <2>4. /\ DOMAIN entries' = DOMAIN entries \cup {r}
        /\ entries'[r].lines = kept
        /\ \A q \in DOMAIN entries : q # r => entries'[q] = entries[q]
    BY <1>8, <2>2 DEF Insert
  <2>5. req'[r].pc = "done" /\ \A q \in Requests : q # r => req'[q] = req[q]
    BY <1>8, <2>1, MoveOn DEF Insert
  <2> QED
    BY <2>3, <2>4, <2>5 DEF BalanceInv
<1>9. CASE Crash
  <2>1. entries' = entries
    BY <1>9 DEF Crash
  <2> QED
    BY <1>1, <1>9, <2>1, CrashType
<1>10. CASE UNCHANGED vars
  BY <1>1, <1>10 DEF vars
<1> QED
  BY <1>2, <1>3, <1>4, <1>5, <1>6, <1>7, <1>8, <1>9, <1>10 DEF Next, Proceed

\* What is stored of an entry is out of balance by no more than the tolerance of
\* the double-entry test and half a unit for each amount that was rounded, for
\* entries of any number of lines and however many requests there are.
THEOREM EntriesAlwaysAlmostBalance == Spec => []EntriesAlmostBalance
<1>1. Init => BalanceInv
  BY DEF Init, BalanceInv, Idle
<1>2. BalanceInv => EntriesAlmostBalance
  BY DEF BalanceInv, EntriesAlmostBalance, AlmostBalance
<1> QED
  BY <1>1, <1>2, InitType, TypeStep, BalanceStep, PTL DEF Spec

-----------------------------------------------------------------------------
(***************************************************************************)
(* Tenants, Leave and Attendance.  Each invariant says of every stage of a *)
(* request what it has made, read or decided, and what no other request    *)
(* can have changed since, unless the two overlapped.                      *)
(***************************************************************************)

-----------------------------------------------------------------------------
(* Sign-up of a tenant                                                     *)

CallsMade == [at : {"over"}, ok : BOOLEAN] \cup [at : {"keycloak", "row", "role"}, slug : Slugs, n : 1 .. 10]

TenantsType ==
  /\ realm \in [Slugs -> SUBSET RealmParts]
  /\ accounts \in [Slugs -> SUBSET [by : SignUps, password : BOOLEAN, admin : BOOLEAN]]
  /\ tenant \in [Slugs -> {NoTenant} \cup [exists : {TRUE}, subject : SignUps, adminRole : BOOLEAN]]
  /\ signUp \in [SignUps -> {NotCalledYet} \cup CallsMade]

\* A call that made its realm, and how many steps it is before.
Owns(c, s) ==
  /\ signUp[c].at \in {"keycloak", "row", "role"}
  /\ signUp[c].slug = s
  /\ signUp[c].at = "keycloak" => signUp[c].n > 1
Before(c) == IF signUp[c].at = "keycloak" THEN signUp[c].n ELSE 11

\* What the steps before the n-th have made.
PartsBefore(n) == {p \in RealmParts : \E i \in 1 .. 10 : i < n /\ KeycloakSteps[i] = p}
AccountsBefore(c, n) ==
  IF n <= 3 THEN {}
  ELSE IF n = 4 THEN {[by |-> c, password |-> FALSE, admin |-> FALSE]}
  ELSE IF n <= 10 THEN {[by |-> c, password |-> TRUE, admin |-> FALSE]}
  ELSE {[by |-> c, password |-> TRUE, admin |-> TRUE]}

\* A realm belongs to the call that made it, and is what that call has made.
TenantsInv ==
  /\ TenantsType
  /\ \A s \in Slugs : "realm" \notin realm[s] =>
       realm[s] = {} /\ accounts[s] = {} /\ ~tenant[s].exists /\ \A c \in SignUps : ~Owns(c, s)
  /\ \A s \in Slugs, c, d \in SignUps : Owns(c, s) /\ Owns(d, s) => c = d
  /\ \A s \in Slugs, c \in SignUps : Owns(c, s) =>
       /\ realm[s] = PartsBefore(Before(c)) /\ accounts[s] = AccountsBefore(c, Before(c))
       /\ tenant[s].exists <=> signUp[c].at = "role"
       /\ signUp[c].at = "role" => tenant[s].subject = c
  /\ TenantIsWhole

LEMMA StepsOfSignUp ==
  /\ Len(KeycloakSteps) = 10
  /\ KeycloakSteps[1] = "realm" /\ KeycloakSteps[2] = "client" /\ KeycloakSteps[3] = "user"
  /\ KeycloakSteps[4] = "password" /\ KeycloakSteps[5] = "TenantAdmin"
  /\ KeycloakSteps[6] = "Manager" /\ KeycloakSteps[7] = "Viewer" /\ KeycloakSteps[8] = "Employee"
  /\ KeycloakSteps[9] = "auto-link flow" /\ KeycloakSteps[10] = "mapping"
BY DEF KeycloakSteps

LEMMA PartsMade ==
  /\ PartsBefore(2) = {"realm"} /\ PartsBefore(11) = RealmParts
  /\ \A n \in 1 .. 10 :
       PartsBefore(n + 1) = PartsBefore(n) \cup ({KeycloakSteps[n]} \cap RealmParts)
<1>1. PartsBefore(2) = {"realm"}
  <2>1. \A i \in 1 .. 10 : i < 2 => i = 1
    OBVIOUS
  <2>3. \A p \in PartsBefore(2) : p = "realm"
    BY <2>1, StepsOfSignUp DEF PartsBefore
  <2>2. "realm" \in PartsBefore(2)
    <3>1. 1 \in 1 .. 10 /\ 1 < 2 /\ "realm" \in RealmParts
      BY DEF RealmParts
    <3> QED BY <3>1, StepsOfSignUp DEF PartsBefore
  <2> QED BY <2>2, <2>3
<1>2. PartsBefore(11) = RealmParts
  <2>1. ASSUME NEW p \in RealmParts
        PROVE  \E i \in {1, 2, 5, 6, 7, 8, 9} : KeycloakSteps[i] = p
    BY <2>1, StepsOfSignUp DEF RealmParts
  <2>2. \A i \in {1, 2, 5, 6, 7, 8, 9} : i \in 1 .. 10 /\ i < 11
    OBVIOUS
  <2> QED BY <2>1, <2>2 DEF PartsBefore
<1>3. ASSUME NEW n \in 1 .. 10
      PROVE  PartsBefore(n + 1) = PartsBefore(n) \cup ({KeycloakSteps[n]} \cap RealmParts)
  <2>1. \A i \in 1 .. 10 : i < n + 1 <=> (i < n \/ i = n)
    OBVIOUS
  <2> QED BY <2>1 DEF PartsBefore
<1> QED BY <1>1, <1>2, <1>3

LEMMA StepsElsewhere ==
  \A n \in 1 .. 10 : KeycloakSteps[n] \in RealmParts <=> n \notin {3, 4, 10}
<1>1. ASSUME NEW n \in 1 .. 10
      PROVE  \/ n = 1 \/ n = 2 \/ n = 3 \/ n = 4 \/ n = 5 \/ n = 6 \/ n = 7 \/ n = 8 \/ n = 9 \/ n = 10
  BY <1>1
<1> QED BY <1>1, StepsOfSignUp DEF RealmParts

LEMMA TenantsInitHolds == TenantsInit => TenantsInv
BY DEF TenantsInit, TenantsInv, TenantsType, TenantIsWhole, NoTenant, NotCalledYet, Owns

\* A call that begins or ends changes nobody's realm.
LEMMA NothingMade ==
  ASSUME TenantsInv, TenantsType', UNCHANGED <<realm, accounts, tenant>>,
         \A s \in Slugs, c \in SignUps : Owns(c, s)' => Owns(c, s) /\ signUp'[c] = signUp[c]
  PROVE  TenantsInv'
<1>1. TenantIsWhole'
  BY DEF TenantsInv, TenantIsWhole
<1>2. ASSUME NEW s \in Slugs, "realm" \notin realm'[s]
      PROVE  realm'[s] = {} /\ accounts'[s] = {} /\ ~tenant'[s].exists
             /\ \A c \in SignUps : ~Owns(c, s)'
  BY <1>2 DEF TenantsInv
<1>3. ASSUME NEW s \in Slugs, NEW c \in SignUps, Owns(c, s)'
      PROVE  /\ realm'[s] = PartsBefore(Before(c)') /\ accounts'[s] = AccountsBefore(c, Before(c)')
             /\ tenant'[s].exists <=> signUp'[c].at = "role"
             /\ signUp'[c].at = "role" => tenant'[s].subject = c
  BY <1>3 DEF TenantsInv, Before
<1>4. \A s \in Slugs, c, d \in SignUps : Owns(c, s)' /\ Owns(d, s)' => c = d
  BY DEF TenantsInv
<1> QED BY <1>1, <1>2, <1>3, <1>4 DEF TenantsInv

\* A step of the call that owns a realm, or comes to own it, is alone there.
LEMMA OwnRealm ==
  ASSUME TenantsInv, TenantsType', NEW c \in SignUps, NEW s \in Slugs,
         \A d \in SignUps : d # c => signUp'[d] = signUp[d] /\ ~Owns(d, s),
         \A t \in Slugs : t # s =>
           realm'[t] = realm[t] /\ accounts'[t] = accounts[t] /\ tenant'[t] = tenant[t],
         \A t \in Slugs : t # s => ~Owns(c, t)',
         "realm" \in realm'[s],
         Owns(c, s)' =>
           /\ realm'[s] = PartsBefore(Before(c)') /\ accounts'[s] = AccountsBefore(c, Before(c)')
           /\ tenant'[s].exists <=> signUp'[c].at = "role"
           /\ signUp'[c].at = "role" => tenant'[s].subject = c,
         tenant'[s].exists =>
           realm'[s] = RealmParts
           /\ accounts'[s] = {[by |-> tenant'[s].subject, password |-> TRUE, admin |-> TRUE]}
  PROVE  TenantsInv'
<1>1. \A d \in SignUps, t \in Slugs : d # c => (Owns(d, t)' <=> Owns(d, t)) /\ Before(d)' = Before(d)
  BY DEF Owns, Before
<1>2. \A d \in SignUps : Owns(d, s)' => d = c
  BY <1>1
<1>3. ASSUME NEW t \in Slugs, "realm" \notin realm'[t]
      PROVE  realm'[t] = {} /\ accounts'[t] = {} /\ ~tenant'[t].exists
             /\ \A d \in SignUps : ~Owns(d, t)'
  BY <1>1, <1>3 DEF TenantsInv
<1>4. ASSUME NEW t \in Slugs, NEW d \in SignUps, NEW e \in SignUps, Owns(d, t)', Owns(e, t)'
      PROVE  d = e
  <2>1. CASE t = s
    BY <1>2, <1>4, <2>1
  <2>2. CASE t # s
    BY <1>1, <1>4, <2>2 DEF TenantsInv
  <2> QED BY <2>1, <2>2
<1>5. ASSUME NEW t \in Slugs, NEW d \in SignUps, Owns(d, t)'
      PROVE  /\ realm'[t] = PartsBefore(Before(d)') /\ accounts'[t] = AccountsBefore(d, Before(d)')
             /\ tenant'[t].exists <=> signUp'[d].at = "role"
             /\ signUp'[d].at = "role" => tenant'[t].subject = d
  <2>1. CASE t = s
    BY <1>2, <1>5, <2>1
  <2>2. CASE t # s
    BY <1>1, <1>5, <2>2 DEF TenantsInv
  <2> QED BY <2>1, <2>2
<1>6. TenantIsWhole'
  BY DEF TenantsInv, TenantIsWhole
<1> QED BY <1>3, <1>4, <1>5, <1>6 DEF TenantsInv

\* A step on Keycloak: the call is before the next one, or before the row.
LEMMA CallAdvances ==
  ASSUME TenantsInv, NEW c \in SignUps, signUp[c].at = "keycloak", Advance(c)
  PROVE  LET s == signUp[c].slug IN
         /\ s \in Slugs /\ signUp[c].n \in 1 .. 10
         /\ signUp' \in [SignUps -> {NotCalledYet} \cup CallsMade]
         /\ \A d \in SignUps : d # c => signUp'[d] = signUp[d]
         /\ Owns(c, s)' /\ \A t \in Slugs : t # s => ~Owns(c, t)'
         /\ Before(c)' = signUp[c].n + 1
         /\ signUp'[c].at # "role"
<1> DEFINE s == signUp[c].slug
<1>1. s \in Slugs /\ signUp[c].n \in 1 .. 10
      /\ signUp[c] \in [at : {"keycloak", "row", "role"}, slug : Slugs, n : 1 .. 10]
  BY DEF TenantsInv, TenantsType, CallsMade, NotCalledYet
<1>2. CASE signUp[c].n = 10
  <2>1. signUp' = [signUp EXCEPT ![c].at = "row"]
    BY <1>2, StepsOfSignUp DEF Advance
  <2>2. [signUp[c] EXCEPT !.at = "row"] \in CallsMade
    BY <1>1 DEF CallsMade
  <2>3. signUp' \in [SignUps -> {NotCalledYet} \cup CallsMade]
        /\ \A d \in SignUps : d # c => signUp'[d] = signUp[d]
    BY <2>1, <2>2 DEF TenantsInv, TenantsType
  <2>4. signUp'[c].at = "row" /\ signUp'[c].slug = s
    BY <1>1, <2>1 DEF TenantsInv, TenantsType
  <2> QED BY <1>1, <1>2, <2>3, <2>4 DEF Owns, Before
<1>3. CASE signUp[c].n # 10
  <2>1. signUp' = [signUp EXCEPT ![c].n = @ + 1]
    BY <1>3, StepsOfSignUp DEF Advance
  <2>2. [signUp[c] EXCEPT !.n = signUp[c].n + 1] \in CallsMade
    BY <1>1, <1>3 DEF CallsMade
  <2>3. signUp' \in [SignUps -> {NotCalledYet} \cup CallsMade]
        /\ \A d \in SignUps : d # c => signUp'[d] = signUp[d]
    BY <2>1, <2>2 DEF TenantsInv, TenantsType
  <2>4. signUp'[c].at = "keycloak" /\ signUp'[c].slug = s /\ signUp'[c].n = signUp[c].n + 1
    BY <1>1, <2>1 DEF TenantsInv, TenantsType
  <2> QED BY <1>1, <1>3, <2>3, <2>4 DEF Owns, Before
<1> QED BY <1>2, <1>3

\* Only steps of the call that owns a realm, or the step that makes it, change it.
LEMMA TenantsStep == TenantsInv /\ [TenantsNext]_tenantVars => TenantsInv'
<1> SUFFICES ASSUME TenantsInv, [TenantsNext]_tenantVars PROVE TenantsInv'
  OBVIOUS
<1> USE DEF TenantsInv
<1>1. ASSUME NEW c \in SignUps, NEW s \in Slugs, CreateTenant(c, s) PROVE TenantsInv'
  <2>1. PICK w : /\ signUp' = [signUp EXCEPT ![c] = w] /\ UNCHANGED <<realm, accounts, tenant>>
                 /\ w = SignUpOver(FALSE) \/ w = [at |-> "keycloak", slug |-> s, n |-> 1]
    BY <1>1 DEF CreateTenant
  <2>5. SignUpOver(FALSE) \in CallsMade /\ [at |-> "keycloak", slug |-> s, n |-> 1] \in CallsMade
    BY DEF SignUpOver, CallsMade
  <2>2. w \in CallsMade
    BY <2>1, <2>5
  <2>3. TenantsType'
    BY <2>1, <2>2 DEF TenantsType
  <2>4. \A t \in Slugs, d \in SignUps : Owns(d, t)' => Owns(d, t) /\ signUp'[d] = signUp[d]
    BY <2>1 DEF Owns, TenantsType, CallsMade, SignUpOver
  <2> QED BY <2>1, <2>3, <2>4, NothingMade
<1>2. ASSUME NEW c \in SignUps, SignUpFails(c) PROVE TenantsInv'
  <2>1. SignUpOver(FALSE) \in CallsMade
    BY DEF SignUpOver, CallsMade
  <2>2. TenantsType'
    BY <1>2, <2>1 DEF SignUpFails, TenantsType
  <2>3. \A t \in Slugs, d \in SignUps : Owns(d, t)' => Owns(d, t) /\ signUp'[d] = signUp[d]
    BY <1>2 DEF SignUpFails, Owns, TenantsType, CallsMade, SignUpOver
  <2> QED BY <1>2, <2>2, <2>3, NothingMade DEF SignUpFails
<1>3. ASSUME NEW c \in SignUps, ExtendRealm(c) PROVE TenantsInv'
  <2> DEFINE s == signUp[c].slug
  <2>1. s \in Slugs /\ signUp[c].n \in 1 .. 10 /\ signUp[c] \in CallsMade /\ signUp[c].at = "keycloak"
    BY <1>3 DEF ExtendRealm, TenantsType, CallsMade, NotCalledYet
  <2>2. CASE StepOf(c) \in realm[s]
    <3>1. signUp' = [signUp EXCEPT ![c] = SignUpOver(FALSE)] /\ UNCHANGED <<realm, accounts, tenant>>
      BY <1>3, <2>2 DEF ExtendRealm
    <3>2. SignUpOver(FALSE) \in CallsMade
      BY DEF SignUpOver, CallsMade
    <3>3. TenantsType'
      BY <3>1, <3>2 DEF TenantsType
    <3>4. \A t \in Slugs, d \in SignUps : Owns(d, t)' => Owns(d, t) /\ signUp'[d] = signUp[d]
      BY <3>1 DEF Owns, TenantsType, CallsMade, SignUpOver
    <3> QED BY <3>1, <3>3, <3>4, NothingMade
  <2>3. CASE StepOf(c) \notin realm[s]
    <3>1. /\ realm' = [realm EXCEPT ![s] = @ \cup {StepOf(c)}]
          /\ UNCHANGED <<accounts, tenant>>
          /\ Advance(c) /\ StepOf(c) \in RealmParts
      BY <1>3, <2>3 DEF ExtendRealm
    <3>2. /\ signUp' \in [SignUps -> {NotCalledYet} \cup CallsMade]
          /\ \A d \in SignUps : d # c => signUp'[d] = signUp[d]
          /\ Owns(c, s)' /\ \A t \in Slugs : t # s => ~Owns(c, t)'
          /\ Before(c)' = signUp[c].n + 1 /\ signUp'[c].at # "role"
      BY <2>1, <3>1, CallAdvances
    <3>3. TenantsType'
      <4>1. realm' \in [Slugs -> SUBSET RealmParts]
        BY <2>1, <3>1 DEF TenantsType
      <4> QED BY <3>1, <3>2, <4>1 DEF TenantsType
    <3>4. realm'[s] = realm[s] \cup {StepOf(c)} /\ realm[s] \subseteq RealmParts
          /\ \A t \in Slugs : t # s => realm'[t] = realm[t]
      BY <2>1, <3>1 DEF TenantsType
    <3>5. /\ \A d \in SignUps : d # c => ~Owns(d, s)
          /\ realm'[s] = PartsBefore(signUp[c].n + 1)
          /\ accounts[s] = AccountsBefore(c, signUp[c].n + 1)
          /\ "realm" \in realm'[s] /\ ~tenant[s].exists
      <4>1. CASE signUp[c].n = 1
        <5>1. StepOf(c) = "realm"
          BY <4>1, StepsOfSignUp DEF StepOf
        <5>2. realm[s] = {} /\ accounts[s] = {} /\ ~tenant[s].exists /\ \A d \in SignUps : ~Owns(d, s)
          BY <2>1, <2>3, <5>1
        <5> QED BY <3>4, <4>1, <5>1, <5>2, PartsMade DEF AccountsBefore
      <4>2. CASE signUp[c].n # 1
        <5>1. Owns(c, s) /\ Before(c) = signUp[c].n
          BY <2>1, <4>2 DEF Owns, Before
        <5>2. realm[s] = PartsBefore(signUp[c].n) /\ accounts[s] = AccountsBefore(c, signUp[c].n)
              /\ ~tenant[s].exists /\ \A d \in SignUps : d # c => ~Owns(d, s)
          BY <2>1, <5>1
        <5>3. realm'[s] = PartsBefore(signUp[c].n + 1)
          <6>1. PartsBefore(signUp[c].n + 1) = PartsBefore(signUp[c].n) \cup ({StepOf(c)} \cap RealmParts)
            BY <2>1, PartsMade DEF StepOf
          <6>2. {StepOf(c)} \cap RealmParts = {StepOf(c)}
            BY <3>1
          <6>3. realm'[s] = realm[s] \cup {StepOf(c)}
            BY <3>4
          <6> QED BY <5>2, <6>1, <6>2, <6>3, Zenon
        <5>4. signUp[c].n \notin {3, 4, 10}
          BY <2>1, <3>1, StepsElsewhere DEF StepOf
        <5>5. accounts[s] = AccountsBefore(c, signUp[c].n + 1)
          BY <2>1, <5>2, <5>4 DEF AccountsBefore
        <5>6. "realm" \in realm[s]
          BY <2>1, <5>1
        <5> QED BY <3>4, <5>2, <5>3, <5>5, <5>6
      <4> QED BY <4>1, <4>2
    <3> QED BY <2>1, <3>1, <3>2, <3>3, <3>4, <3>5, OwnRealm
  <2> QED BY <2>2, <2>3
<1>4. ASSUME NEW c \in SignUps, ExtendAdmin(c) PROVE TenantsInv'
  <2> DEFINE s == signUp[c].slug
             admin == [by |-> c, password |-> StepOf(c) # "user", admin |-> StepOf(c) = "mapping"]
  <2>1. s \in Slugs /\ signUp[c].n \in 1 .. 10 /\ signUp[c].at = "keycloak"
    BY <1>4 DEF ExtendAdmin, TenantsType, CallsMade, NotCalledYet
  <2>2. /\ accounts' = [accounts EXCEPT ![s] = {a \in @ : a.by # c} \cup {admin}]
        /\ UNCHANGED <<realm, tenant>> /\ Advance(c) /\ StepOf(c) \notin RealmParts
    BY <1>4 DEF ExtendAdmin
  <2>3. /\ signUp' \in [SignUps -> {NotCalledYet} \cup CallsMade]
        /\ \A d \in SignUps : d # c => signUp'[d] = signUp[d]
        /\ Owns(c, s)' /\ \A t \in Slugs : t # s => ~Owns(c, t)'
        /\ Before(c)' = signUp[c].n + 1 /\ signUp'[c].at # "role"
    BY <2>1, <2>2, CallAdvances
  <2>4. signUp[c].n \in {3, 4, 10}
    BY <2>1, <2>2, StepsElsewhere DEF StepOf
  <2>5. admin \in [by : SignUps, password : BOOLEAN, admin : BOOLEAN]
    OBVIOUS
  <2>6. accounts'[s] = {a \in accounts[s] : a.by # c} \cup {admin}
        /\ \A t \in Slugs : t # s => accounts'[t] = accounts[t]
    BY <2>1, <2>2 DEF TenantsType
  <2>7. TenantsType'
    BY <2>1, <2>2, <2>3, <2>5 DEF TenantsType
  <2>8. Owns(c, s) /\ Before(c) = signUp[c].n
    BY <2>1, <2>4 DEF Owns, Before
  <2>9. /\ realm[s] = PartsBefore(signUp[c].n) /\ accounts[s] = AccountsBefore(c, signUp[c].n)
        /\ ~tenant[s].exists /\ "realm" \in realm[s]
        /\ \A d \in SignUps : d # c => ~Owns(d, s)
    BY <2>1, <2>8
  <2>10. realm[s] = PartsBefore(signUp[c].n + 1)
    <3>1. PartsBefore(signUp[c].n + 1) = PartsBefore(signUp[c].n) \cup ({StepOf(c)} \cap RealmParts)
      BY <2>1, PartsMade DEF StepOf
    <3> QED BY <2>2, <2>9, <3>1
  <2>11. {a \in accounts[s] : a.by # c} = {}
    BY <2>9 DEF AccountsBefore
  <2>12. accounts'[s] = {admin}
    BY <2>6, <2>11
  <2>13. accounts'[s] = AccountsBefore(c, signUp[c].n + 1)
    <3>1. CASE signUp[c].n = 3
      <4>1. (StepOf(c) # "user") = FALSE /\ (StepOf(c) = "mapping") = FALSE
        BY <3>1, StepsOfSignUp DEF StepOf
      <4>2. admin = [by |-> c, password |-> FALSE, admin |-> FALSE]
        BY <4>1, Zenon
      <4>3. AccountsBefore(c, signUp[c].n + 1) = {[by |-> c, password |-> FALSE, admin |-> FALSE]}
        BY <3>1 DEF AccountsBefore
      <4> QED BY <2>12, <4>2, <4>3, Zenon
    <3>2. CASE signUp[c].n = 4
      <4>1. (StepOf(c) # "user") = TRUE /\ (StepOf(c) = "mapping") = FALSE
        BY <3>2, StepsOfSignUp DEF StepOf
      <4>2. admin = [by |-> c, password |-> TRUE, admin |-> FALSE]
        BY <4>1, Zenon
      <4>3. AccountsBefore(c, signUp[c].n + 1) = {[by |-> c, password |-> TRUE, admin |-> FALSE]}
        BY <3>2 DEF AccountsBefore
      <4> QED BY <2>12, <4>2, <4>3, Zenon
    <3>3. CASE signUp[c].n = 10
      <4>1. (StepOf(c) # "user") = TRUE /\ (StepOf(c) = "mapping") = TRUE
        BY <3>3, StepsOfSignUp DEF StepOf
      <4>2. admin = [by |-> c, password |-> TRUE, admin |-> TRUE]
        BY <4>1, Zenon
      <4>3. AccountsBefore(c, signUp[c].n + 1) = {[by |-> c, password |-> TRUE, admin |-> TRUE]}
        BY <3>3 DEF AccountsBefore
      <4> QED BY <2>12, <4>2, <4>3, Zenon
    <3> QED BY <2>4, <3>1, <3>2, <3>3
  <2>14. realm' = realm /\ tenant' = tenant
    BY <2>2
  <2>15. /\ realm'[s] = PartsBefore(Before(c)') /\ accounts'[s] = AccountsBefore(c, Before(c)')
         /\ ~tenant'[s].exists /\ signUp'[c].at # "role" /\ "realm" \in realm'[s]
    <3>1. realm'[s] = PartsBefore(Before(c)') /\ accounts'[s] = AccountsBefore(c, Before(c)')
      BY <2>3, <2>10, <2>13, <2>14
    <3>2. ~tenant'[s].exists
      BY <2>9, <2>14
    <3>3. "realm" \in realm'[s]
      BY <2>9, <2>14
    <3> QED BY <2>3, <3>1, <3>2, <3>3
  <2>16. \A t \in Slugs : t # s =>
           realm'[t] = realm[t] /\ accounts'[t] = accounts[t] /\ tenant'[t] = tenant[t]
    BY <2>6, <2>14
  <2>17. \A d \in SignUps : d # c => signUp'[d] = signUp[d] /\ ~Owns(d, s)
    BY <2>3, <2>9
  <2> QED BY <2>1, <2>3, <2>7, <2>15, <2>16, <2>17, OwnRealm
<1>5. ASSUME NEW c \in SignUps, CreateRow(c) PROVE TenantsInv'
  <2> DEFINE s == signUp[c].slug
             row == [exists |-> TRUE, subject |-> c, adminRole |-> FALSE]
  <2>1. /\ s \in Slugs /\ signUp[c].at = "row"
        /\ signUp[c] \in [at : {"keycloak", "row", "role"}, slug : Slugs, n : 1 .. 10]
    BY <1>5 DEF CreateRow, TenantsType, CallsMade, NotCalledYet
  <2>2. Owns(c, s) /\ Before(c) = 11
    BY <2>1 DEF Owns, Before
  <2>3. /\ realm[s] = RealmParts
        /\ accounts[s] = {[by |-> c, password |-> TRUE, admin |-> TRUE]}
        /\ ~tenant[s].exists /\ \A d \in SignUps : d # c => ~Owns(d, s)
    <3>1. realm[s] = PartsBefore(11) /\ accounts[s] = AccountsBefore(c, 11)
          /\ ~tenant[s].exists /\ \A d \in SignUps : d # c => ~Owns(d, s)
      BY <2>1, <2>2
    <3>2. AccountsBefore(c, 11) = {[by |-> c, password |-> TRUE, admin |-> TRUE]}
      BY DEF AccountsBefore
    <3> QED BY <3>1, <3>2, PartsMade, Zenon
  <2>4. /\ tenant' = [tenant EXCEPT ![s] = row]
        /\ signUp' = [signUp EXCEPT ![c].at = "role"] /\ UNCHANGED <<realm, accounts>>
    BY <1>5, <2>3 DEF CreateRow
  <2>5. [signUp[c] EXCEPT !.at = "role"] \in CallsMade
    BY <2>1 DEF CallsMade
  <2>6. row \in [exists : {TRUE}, subject : SignUps, adminRole : BOOLEAN]
    OBVIOUS
  <2>7. TenantsType'
    BY <2>1, <2>4, <2>5, <2>6 DEF TenantsType
  <2>8. /\ signUp'[c].at = "role" /\ signUp'[c].slug = s
        /\ \A d \in SignUps : d # c => signUp'[d] = signUp[d]
    BY <2>1, <2>4 DEF TenantsType
  <2>9. Before(c)' = 11 /\ \A t \in Slugs : t # s => ~Owns(c, t)'
    BY <2>8 DEF Before, Owns
  <2>10. tenant'[s] = row /\ \A t \in Slugs : t # s => tenant'[t] = tenant[t]
    BY <2>1, <2>4 DEF TenantsType
  <2>11. "realm" \in RealmParts /\ tenant'[s].exists /\ tenant'[s].subject = c
    BY <2>10 DEF RealmParts
  <2> QED BY <2>1, <2>2, <2>3, <2>4, <2>7, <2>8, <2>9, <2>10, <2>11, OwnRealm
<1>6. ASSUME NEW c \in SignUps, AssignAdminRole(c) PROVE TenantsInv'
  <2>0. PICK s \in Slugs : signUp[c].slug = s
    BY <1>6 DEF AssignAdminRole, TenantsType, CallsMade, NotCalledYet
  <2>1. s \in Slugs /\ signUp[c].at = "role" /\ signUp[c].slug = s
    BY <1>6, <2>0 DEF AssignAdminRole
  <2>2. Owns(c, s)
    BY <2>1 DEF Owns
  <2>3. /\ "realm" \in realm[s] /\ tenant[s].exists /\ \A d \in SignUps : d # c => ~Owns(d, s)
    BY <2>1, <2>2
  <2>4. tenant[s] \in [exists : {TRUE}, subject : SignUps, adminRole : BOOLEAN]
    <3>1. ASSUME tenant[s] = NoTenant PROVE FALSE
      <4>1. NoTenant.exists = FALSE
        BY DEF NoTenant
      <4> QED BY <2>3, <3>1, <4>1, Zenon
    <3> QED BY <2>1, <3>1 DEF TenantsType
  <2>5. /\ tenant' = [tenant EXCEPT ![s].adminRole = TRUE]
        /\ signUp' = [signUp EXCEPT ![c] = SignUpOver(TRUE)] /\ UNCHANGED <<realm, accounts>>
    BY <1>6, <2>1 DEF AssignAdminRole
  <2>6. [tenant[s] EXCEPT !.adminRole = TRUE] \in [exists : {TRUE}, subject : SignUps, adminRole : BOOLEAN]
    BY <2>4
  <2>7. SignUpOver(TRUE) \in CallsMade /\ SignUpOver(TRUE).at = "over"
    BY DEF SignUpOver, CallsMade
  <2>8. TenantsType'
    BY <2>1, <2>5, <2>6, <2>7 DEF TenantsType
  <2>9. tenant'[s].subject = tenant[s].subject /\ \A t \in Slugs : t # s => tenant'[t] = tenant[t]
    BY <2>1, <2>4, <2>5 DEF TenantsType
  <2>10. signUp'[c].at = "over" /\ \A d \in SignUps : d # c => signUp'[d] = signUp[d]
    BY <2>5, <2>7 DEF TenantsType
  <2>11. \A t \in Slugs : ~Owns(c, t)'
    BY <2>10 DEF Owns
  <2>12. realm[s] = RealmParts
         /\ accounts[s] = {[by |-> tenant[s].subject, password |-> TRUE, admin |-> TRUE]}
    BY <2>1, <2>3 DEF TenantIsWhole
  <2>13. realm' = realm /\ accounts' = accounts
    BY <2>5
  <2>14. /\ "realm" \in realm'[s] /\ ~Owns(c, s)'
         /\ realm'[s] = RealmParts
         /\ accounts'[s] = {[by |-> tenant'[s].subject, password |-> TRUE, admin |-> TRUE]}
    <3>1. "realm" \in realm'[s]
      BY <2>3, <2>13
    <3>2. ~Owns(c, s)'
      BY <2>1, <2>11
    <3>3. realm'[s] = RealmParts
      BY <2>12, <2>13
    <3>4. accounts'[s] = {[by |-> tenant'[s].subject, password |-> TRUE, admin |-> TRUE]}
      BY <2>9, <2>12, <2>13
    <3> QED BY <3>1, <3>2, <3>3, <3>4
  <2>15. \A t \in Slugs : t # s =>
           realm'[t] = realm[t] /\ accounts'[t] = accounts[t] /\ tenant'[t] = tenant[t]
    BY <2>9, <2>13
  <2>16. \A d \in SignUps : d # c => signUp'[d] = signUp[d] /\ ~Owns(d, s)
    BY <2>3, <2>10
  <2> QED BY <2>1, <2>8, <2>11, <2>14, <2>15, <2>16, OwnRealm
<1>7. CASE UNCHANGED tenantVars
  BY <1>7, NothingMade DEF tenantVars, TenantsType, Owns
<1> QED BY <1>1, <1>2, <1>3, <1>4, <1>5, <1>6, <1>7 DEF TenantsNext

\* createTenant: for any number of sign-ups, slugs and failures, a tenant has the
\* whole of its realm and one account in it, that of its user.
THEOREM TenantIsAlwaysWhole == TenantsSpec => []TenantIsWhole
<1>1. TenantsInv => TenantIsWhole
  BY DEF TenantsInv
<1> QED BY <1>1, TenantsInitHolds, TenantsStep, PTL DEF TenantsSpec
-----------------------------------------------------------------------------
(* Leave requests and the accrual of balances                              *)

Decisions == [pc : {"write", "emit"}, of : Leaves, verdict : Verdicts]
RunsOver == {NotBegun, [pc |-> "cut"]}
Runs == [pc : {"grant"}, left : SUBSET LeaveStaff]

LeaveType ==
  /\ leave \in [Leaves -> {"NONE", "PENDING"} \cup Verdicts]
  /\ announced \in [Leaves -> SUBSET Verdicts]
  /\ deciding \in [Approvers -> {Undecided, [pc |-> "done"]} \cup Decisions]
  /\ balance \in [LeaveStaff -> Nat]
  /\ granted \in [LeaveStaff -> SUBSET AccrualRuns]
  /\ employed \subseteq LeaveStaff
  /\ accrual \in [AccrualRuns -> RunsOver \cup Runs]
  /\ leaveFaults \in Nat

Writes(a) == deciding[a].pc = "write"
Emits(a) == deciding[a].pc = "emit"

\* A decision that is about to be written finds its leave decided by nobody, or
\* disputed; one that is written and not announced is the status, or disputed;
\* and without a fault the status is announced or about to be.
DecisionsInv ==
  /\ \A a \in Approvers :
       /\ Writes(a) => leave[deciding[a].of] # "NONE"
       /\ Emits(a) => leave[deciding[a].of] \in Verdicts
       /\ (Writes(a) /\ deciding[a].of \notin disputed) => leave[deciding[a].of] = "PENDING"
       /\ (Emits(a) /\ deciding[a].of \notin disputed) =>
            leave[deciding[a].of] = deciding[a].verdict /\ announced[deciding[a].of] = {}
  /\ \A l \in Leaves :
       /\ leave[l] \notin Verdicts => announced[l] = {}
       /\ l \notin disputed => announced[l] \subseteq {leave[l]}
       /\ l \notin disputed => \A a, b \in OnLeave(l) : a = b
       /\ (leaveFaults = 0 /\ leave[l] \in Verdicts /\ leave[l] \notin announced[l]) =>
            \E a \in OnLeave(l) : Emits(a) /\ deciding[a].verdict = leave[l]

\* No run comes to an employee twice.
GrantsInv ==
  /\ \A e \in LeaveStaff : IsFiniteSet(granted[e])
  /\ \A e \in LeaveStaff : \A n \in granted[e] :
       accrual[n] # NotBegun /\ (accrual[n].pc = "grant" => e \notin accrual[n].left)
  /\ GrantsAddUp

LeaveInv == LeaveType /\ DecisionsInv /\ GrantsInv

LEMMA LeaveInitHolds == LeaveInit => LeaveInv
<1> SUFFICES ASSUME LeaveInit PROVE LeaveInv
  OBVIOUS
<1>1. LeaveType
  BY DEF LeaveInit, LeaveType, RunsOver
<1>2. DecisionsInv
  BY DEF LeaveInit, DecisionsInv, Verdicts, Undecided, OnLeave, Writes, Emits
<1>3. GrantsInv
  BY FS_EmptySet DEF LeaveInit, GrantsInv, GrantsAddUp
<1> QED BY <1>1, <1>2, <1>3 DEF LeaveInv

LEMMA LeaveTypeStep == LeaveType /\ [LeaveNext]_leaveVars => LeaveType'
<1> SUFFICES ASSUME LeaveType, [LeaveNext]_leaveVars PROVE LeaveType'
  OBVIOUS
<1> USE DEF LeaveType
<1>1. ASSUME NEW l \in Leaves, RequestLeave(l) PROVE LeaveType'
  BY <1>1 DEF RequestLeave
<1>2. ASSUME NEW a \in Approvers, NEW l \in Leaves, NEW v \in Verdicts, ReadLeave(a, l, v)
      PROVE  LeaveType'
  <2>1. [pc |-> "write", of |-> l, verdict |-> v] \in Decisions
    BY DEF Decisions
  <2> QED BY <1>2, <2>1 DEF ReadLeave
<1>3. ASSUME NEW a \in Approvers, DecideLeave(a) PROVE LeaveType'
  <2>1. deciding[a] \in Decisions
    BY <1>3 DEF DecideLeave, Undecided
  <2>2. [deciding[a] EXCEPT !.pc = "emit"] \in Decisions
    BY <2>1 DEF Decisions
  <2>3. deciding[a].of \in Leaves /\ deciding[a].verdict \in Verdicts
    BY <2>1 DEF Decisions
  <2> QED BY <1>3, <2>2, <2>3 DEF DecideLeave
<1>4. ASSUME NEW a \in Approvers, AnnounceLeave(a) PROVE LeaveType'
  <2>1. deciding[a] \in Decisions
    BY <1>4 DEF AnnounceLeave, Undecided
  <2>2. deciding[a].of \in Leaves /\ deciding[a].verdict \in Verdicts
    BY <2>1 DEF Decisions
  <2> QED BY <1>4, <2>2 DEF AnnounceLeave
<1>5. ASSUME NEW n \in AccrualRuns, BeginAccrual(n) PROVE LeaveType'
  <2>1. [pc |-> "grant", left |-> employed] \in Runs
    BY DEF Runs
  <2> QED BY <1>5, <2>1 DEF BeginAccrual
<1>6. ASSUME NEW n \in AccrualRuns, NEW e \in LeaveStaff, Grant(n, e) PROVE LeaveType'
  <2>1. accrual[n] \in Runs
    BY <1>6 DEF Grant, RunsOver, NotBegun
  <2>2. [accrual[n] EXCEPT !.left = @ \ {e}] \in Runs
    BY <2>1 DEF Runs
  <2>3. accrual' \in [AccrualRuns -> RunsOver \cup Runs]
    BY <1>6, <2>2 DEF Grant
  <2> QED BY <1>6, <2>3 DEF Grant
<1>7. CASE LeaveCutShort
  BY <1>7 DEF LeaveCutShort, RunsOver
<1>8. ASSUME NEW e \in LeaveStaff, Leaver(e) PROVE LeaveType'
  BY <1>8 DEF Leaver
<1>9. CASE UNCHANGED leaveVars
  BY <1>9 DEF leaveVars
<1> QED BY <1>1, <1>2, <1>3, <1>4, <1>5, <1>6, <1>7, <1>8, <1>9 DEF LeaveNext

LEMMA GrantsStep == LeaveType /\ GrantsInv /\ [LeaveNext]_leaveVars => GrantsInv'
<1> SUFFICES ASSUME LeaveType, GrantsInv, [LeaveNext]_leaveVars PROVE GrantsInv'
  OBVIOUS
<1>1. CASE UNCHANGED <<balance, granted, accrual>>
  BY <1>1 DEF GrantsInv, GrantsAddUp
<1>2. ASSUME NEW n \in AccrualRuns, BeginAccrual(n) PROVE GrantsInv'
  BY <1>2 DEF BeginAccrual, GrantsInv, GrantsAddUp, LeaveType
<1>3. ASSUME NEW n \in AccrualRuns, NEW e \in LeaveStaff, Grant(n, e) PROVE GrantsInv'
  <2>1. /\ balance' = [balance EXCEPT ![e] = @ + 1]
        /\ granted' = [granted EXCEPT ![e] = @ \cup {n}]
        /\ accrual' = [accrual EXCEPT ![n].left = @ \ {e}]
        /\ accrual[n].pc = "grant" /\ e \in accrual[n].left
    BY <1>3 DEF Grant
  <2>2. n \notin granted[e]
    BY <2>1 DEF GrantsInv
  <2>3. IsFiniteSet(granted[e] \cup {n}) /\ Cardinality(granted[e] \cup {n}) = Cardinality(granted[e]) + 1
    BY <2>2, FS_AddElement DEF GrantsInv
  <2>4. accrual[n] \in Runs
    BY <2>1 DEF LeaveType, RunsOver, NotBegun
  <2>5. accrual'[n].pc = "grant" /\ accrual'[n].left = accrual[n].left \ {e}
        /\ accrual'[n] # NotBegun /\ \A m \in AccrualRuns : m # n => accrual'[m] = accrual[m]
    BY <2>1, <2>4 DEF LeaveType, Runs, NotBegun
  <2>6. granted'[e] = granted[e] \cup {n} /\ balance'[e] = balance[e] + 1
        /\ \A d \in LeaveStaff : d # e => granted'[d] = granted[d] /\ balance'[d] = balance[d]
    BY <2>1 DEF LeaveType
  <2>7. \A d \in LeaveStaff : granted[d] \subseteq AccrualRuns
    BY DEF LeaveType
  <2>8. GrantsAddUp'
    BY <2>3, <2>6 DEF GrantsInv, GrantsAddUp
  <2>9. ASSUME NEW d \in LeaveStaff, NEW m \in granted'[d]
        PROVE  accrual'[m] # NotBegun /\ (accrual'[m].pc = "grant" => d \notin accrual'[m].left)
    <3>1. CASE m = n
      BY <2>1, <2>5, <2>6, <3>1 DEF GrantsInv
    <3>2. CASE m # n
      BY <2>5, <2>6, <2>7, <3>2 DEF GrantsInv
    <3> QED BY <3>1, <3>2
  <2>10. \A d \in LeaveStaff : IsFiniteSet(granted'[d])
    BY <2>3, <2>6 DEF GrantsInv
  <2> QED BY <2>8, <2>9, <2>10 DEF GrantsInv
<1>4. CASE LeaveCutShort
  <2>1. UNCHANGED <<balance, granted>>
    BY <1>4 DEF LeaveCutShort
  <2>2. \A n \in AccrualRuns : accrual'[n] = accrual[n] \/ accrual'[n] = [pc |-> "cut"]
    BY <1>4 DEF LeaveCutShort, LeaveType
  <2>3. \A d \in LeaveStaff : granted[d] \subseteq AccrualRuns
    BY DEF LeaveType
  <2> QED BY <2>1, <2>2, <2>3 DEF GrantsInv, GrantsAddUp, NotBegun
<1> QED BY <1>1, <1>2, <1>3, <1>4
    DEF LeaveNext, RequestLeave, ReadLeave, DecideLeave, AnnounceLeave, Leaver, leaveVars

\* What DecisionsInv says of one approver and of one leave.
ApproverInv(a) ==
  /\ Writes(a) => leave[deciding[a].of] # "NONE"
  /\ Emits(a) => leave[deciding[a].of] \in Verdicts
  /\ (Writes(a) /\ deciding[a].of \notin disputed) => leave[deciding[a].of] = "PENDING"
  /\ (Emits(a) /\ deciding[a].of \notin disputed) =>
       leave[deciding[a].of] = deciding[a].verdict /\ announced[deciding[a].of] = {}
OneLeaveInv(l) ==
  /\ leave[l] \notin Verdicts => announced[l] = {}
  /\ l \notin disputed => announced[l] \subseteq {leave[l]}
  /\ l \notin disputed => \A a, b \in OnLeave(l) : a = b
  /\ (leaveFaults = 0 /\ leave[l] \in Verdicts /\ leave[l] \notin announced[l]) =>
       \E a \in OnLeave(l) : Emits(a) /\ deciding[a].verdict = leave[l]

LEMMA DecisionsParts ==
  /\ DecisionsInv <=> (\A a \in Approvers : ApproverInv(a)) /\ (\A l \in Leaves : OneLeaveInv(l))
  /\ DecisionsInv' <=> (\A a \in Approvers : ApproverInv(a)') /\ (\A l \in Leaves : OneLeaveInv(l)')
BY DEF DecisionsInv, ApproverInv, OneLeaveInv

LEMMA ReadLeaveKeeps ==
  ASSUME LeaveType, DecisionsInv, NEW a \in Approvers, NEW l \in Leaves, NEW v \in Verdicts,
         ReadLeave(a, l, v)
  PROVE  DecisionsInv'
<1>1. /\ deciding[a] = Undecided /\ leave[l] = "PENDING"
      /\ deciding' = [deciding EXCEPT ![a] = [pc |-> "write", of |-> l, verdict |-> v]]
      /\ disputed' = IF OnLeave(l) = {} THEN disputed ELSE disputed \cup {l}
      /\ UNCHANGED <<leave, announced, leaveFaults>>
  BY DEF ReadLeave, Decidable
<1>2. /\ deciding'[a] = [pc |-> "write", of |-> l, verdict |-> v]
      /\ \A b \in Approvers : b # a => deciding'[b] = deciding[b]
  BY <1>1 DEF LeaveType
<1>3. a \notin OnLeave(l) /\ ~Emits(a)
  BY <1>1 DEF OnLeave, Undecided, Emits
<1>4. \A k \in Leaves : OnLeave(k)' = IF k = l THEN OnLeave(k) \cup {a} ELSE OnLeave(k)
  <2>1. \A b \in Approvers, k \in Leaves :
          (deciding'[b].pc \in {"write", "emit"} /\ deciding'[b].of = k) <=>
            (deciding[b].pc \in {"write", "emit"} /\ deciding[b].of = k) \/ (b = a /\ k = l)
    BY <1>1, <1>2 DEF Undecided
  <2> QED BY <2>1 DEF OnLeave
<1>5. ASSUME NEW b \in Approvers PROVE ApproverInv(b)'
  <2>1. CASE b = a
    BY <1>1, <1>2, <2>1 DEF ApproverInv, Writes, Emits
  <2>2. CASE b # a
    BY <1>1, <1>2, <2>2, DecisionsParts DEF ApproverInv, Writes, Emits
  <2> QED BY <2>1, <2>2
<1>6. ASSUME NEW k \in Leaves PROVE OneLeaveInv(k)'
  <2>1. CASE k = l
    BY <1>1, <1>4, <2>1, DecisionsParts DEF OneLeaveInv, Verdicts
  <2>2. CASE k # l
    <3>1. \A b \in OnLeave(k) : b # a /\ deciding'[b] = deciding[b]
      BY <1>1, <1>2 DEF OnLeave, Undecided
    <3> QED BY <1>1, <1>4, <2>2, <3>1, DecisionsParts DEF OneLeaveInv, Emits
  <2> QED BY <2>1, <2>2
<1> QED BY <1>5, <1>6, DecisionsParts

LEMMA DecideLeaveKeeps ==
  ASSUME LeaveType, DecisionsInv, NEW a \in Approvers, DecideLeave(a)
  PROVE  DecisionsInv'
<1>1. deciding[a] \in Decisions /\ deciding[a].pc = "write"
  BY DEF DecideLeave, LeaveType, Undecided
<1>2. PICK l \in Leaves, v \in Verdicts : deciding[a].of = l /\ deciding[a].verdict = v
  BY <1>1 DEF Decisions
<1>3. /\ leave' = [leave EXCEPT ![l] = v]
      /\ deciding' = [deciding EXCEPT ![a].pc = "emit"]
      /\ UNCHANGED <<announced, disputed, leaveFaults>>
  BY <1>2 DEF DecideLeave
<1>4. /\ deciding'[a].pc = "emit" /\ deciding'[a].of = l /\ deciding'[a].verdict = v
      /\ \A b \in Approvers : b # a => deciding'[b] = deciding[b]
  BY <1>1, <1>2, <1>3 DEF LeaveType, Decisions
<1>5. leave'[l] = v /\ \A k \in Leaves : k # l => leave'[k] = leave[k]
  BY <1>3 DEF LeaveType
<1>6. a \in OnLeave(l) /\ a \in OnLeave(l)'
  BY <1>1, <1>2, <1>4 DEF OnLeave
<1>7. \A k \in Leaves : OnLeave(k)' = OnLeave(k)
  BY <1>1, <1>2, <1>4 DEF OnLeave
<1>8. l \notin disputed => leave[l] = "PENDING" /\ announced[l] = {}
  BY <1>1, <1>2, DecisionsParts DEF ApproverInv, OneLeaveInv, Writes, Verdicts
<1>9. ASSUME NEW b \in Approvers PROVE ApproverInv(b)'
  <2>1. CASE b = a
    BY <1>3, <1>4, <1>5, <1>8, <2>1 DEF ApproverInv, Writes, Emits
  <2>2. CASE b # a /\ deciding[b].pc \in {"write", "emit"}
    <3>1. deciding[b] \in Decisions /\ deciding[b].of \in Leaves
      BY <2>2 DEF LeaveType, Undecided, Decisions
    <3>2. CASE deciding[b].of = l
      <4>1. l \in disputed
        BY <1>6, <2>2, <3>2, DecisionsParts DEF OneLeaveInv, OnLeave
      <4> QED BY <1>3, <1>4, <1>5, <2>2, <3>2, <4>1 DEF ApproverInv, Writes, Emits, Verdicts
    <3>3. CASE deciding[b].of # l
      BY <1>3, <1>4, <1>5, <2>2, <3>1, <3>3, DecisionsParts DEF ApproverInv, Writes, Emits
    <3> QED BY <3>2, <3>3
  <2>3. CASE b # a /\ deciding[b].pc \notin {"write", "emit"}
    BY <1>4, <2>3 DEF ApproverInv, Writes, Emits
  <2> QED BY <2>1, <2>2, <2>3
<1>10. ASSUME NEW k \in Leaves PROVE OneLeaveInv(k)'
  <2>1. CASE k = l
    BY <1>3, <1>4, <1>5, <1>6, <1>7, <1>8, <2>1, DecisionsParts DEF OneLeaveInv, Emits
  <2>2. CASE k # l
    <3>1. \A b \in OnLeave(k) : b # a /\ deciding'[b] = deciding[b]
      BY <1>2, <1>4, <2>2 DEF OnLeave
    <3> QED BY <1>3, <1>5, <1>7, <2>2, <3>1, DecisionsParts DEF OneLeaveInv, Emits
  <2> QED BY <2>1, <2>2
<1> QED BY <1>9, <1>10, DecisionsParts

LEMMA AnnounceLeaveKeeps ==
  ASSUME LeaveType, DecisionsInv, NEW a \in Approvers, AnnounceLeave(a)
  PROVE  DecisionsInv'
<1>1. deciding[a] \in Decisions /\ deciding[a].pc = "emit"
  BY DEF AnnounceLeave, LeaveType, Undecided
<1>2. PICK l \in Leaves, v \in Verdicts : deciding[a].of = l /\ deciding[a].verdict = v
  BY <1>1 DEF Decisions
<1>3. /\ announced' = [announced EXCEPT ![l] = @ \cup {v}]
      /\ deciding' = [deciding EXCEPT ![a] = [pc |-> "done"]]
      /\ UNCHANGED <<leave, disputed, leaveFaults>>
  BY <1>2 DEF AnnounceLeave
<1>4. /\ deciding'[a].pc = "done"
      /\ \A b \in Approvers : b # a => deciding'[b] = deciding[b]
  BY <1>3 DEF LeaveType
<1>5. announced'[l] = announced[l] \cup {v} /\ \A k \in Leaves : k # l => announced'[k] = announced[k]
  BY <1>3 DEF LeaveType
<1>6. a \in OnLeave(l)
  BY <1>1, <1>2 DEF OnLeave
<1>7. \A k \in Leaves : OnLeave(k)' = OnLeave(k) \ {a}
  BY <1>4 DEF OnLeave
<1>8. /\ leave[l] \in Verdicts
      /\ l \notin disputed => leave[l] = v /\ announced[l] = {}
  BY <1>1, <1>2, DecisionsParts DEF ApproverInv, Emits
<1>9. ASSUME NEW b \in Approvers PROVE ApproverInv(b)'
  <2>1. CASE b = a
    BY <1>4, <2>1 DEF ApproverInv, Writes, Emits
  <2>2. CASE b # a /\ deciding[b].pc \in {"write", "emit"}
    <3>1. deciding[b] \in Decisions /\ deciding[b].of \in Leaves
      BY <2>2 DEF LeaveType, Undecided, Decisions
    <3>2. CASE deciding[b].of = l
      <4>1. l \in disputed
        BY <1>6, <2>2, <3>2, DecisionsParts DEF OneLeaveInv, OnLeave
      <4> QED BY <1>3, <1>4, <2>2, <3>2, <4>1, DecisionsParts DEF ApproverInv, Writes, Emits
    <3>3. CASE deciding[b].of # l
      BY <1>3, <1>4, <1>5, <2>2, <3>1, <3>3, DecisionsParts DEF ApproverInv, Writes, Emits
    <3> QED BY <3>2, <3>3
  <2>3. CASE b # a /\ deciding[b].pc \notin {"write", "emit"}
    BY <1>4, <2>3 DEF ApproverInv, Writes, Emits
  <2> QED BY <2>1, <2>2, <2>3
<1>10. ASSUME NEW k \in Leaves PROVE OneLeaveInv(k)'
  <2>1. \A b \in OnLeave(k)' : deciding'[b] = deciding[b]
    BY <1>4, <1>7 DEF OnLeave
  <2>2. CASE k = l
    <3>1. ASSUME leaveFaults' = 0, leave'[l] \notin announced'[l]
          PROVE  \E b \in OnLeave(l)' : Emits(b)' /\ deciding'[b].verdict = leave'[l]
      <4>1. PICK b \in OnLeave(l) : Emits(b) /\ deciding[b].verdict = leave[l]
        BY <1>3, <1>5, <1>8, <3>1, DecisionsParts DEF OneLeaveInv
      <4>2. b # a
        BY <1>2, <1>3, <1>5, <3>1, <4>1
      <4>3. b \in OnLeave(l)'
        BY <1>7, <4>1, <4>2
      <4> QED BY <1>3, <2>1, <2>2, <4>1, <4>3 DEF Emits
    <3> QED BY <1>3, <1>5, <1>7, <1>8, <2>2, <3>1, DecisionsParts DEF OneLeaveInv
  <2>3. CASE k # l
    <3>1. OnLeave(k)' = OnLeave(k)
      BY <1>2, <1>7, <2>3 DEF OnLeave
    <3> QED BY <1>3, <1>5, <2>1, <2>3, <3>1, DecisionsParts DEF OneLeaveInv, Emits
  <2> QED BY <2>2, <2>3
<1> QED BY <1>9, <1>10, DecisionsParts

LEMMA DecisionsStep == LeaveType /\ DecisionsInv /\ [LeaveNext]_leaveVars => DecisionsInv'
<1> SUFFICES ASSUME LeaveType, DecisionsInv, [LeaveNext]_leaveVars PROVE DecisionsInv'
  OBVIOUS
<1>1. CASE UNCHANGED <<leave, announced, deciding, disputed, leaveFaults>>
  BY <1>1 DEF DecisionsInv, Writes, Emits, OnLeave
<1>2. ASSUME NEW l \in Leaves, RequestLeave(l) PROVE DecisionsInv'
  <2>1. /\ leave[l] = "NONE" /\ leave' = [leave EXCEPT ![l] = "PENDING"]
        /\ UNCHANGED <<announced, deciding, disputed, leaveFaults>>
    BY <1>2 DEF RequestLeave
  <2>2. leave'[l] = "PENDING" /\ \A k \in Leaves : k # l => leave'[k] = leave[k]
    BY <2>1 DEF LeaveType
  <2>3. ASSUME NEW b \in Approvers PROVE ApproverInv(b)'
    <3>1. CASE deciding[b].pc \in {"write", "emit"}
      <4>1. deciding[b] \in Decisions /\ deciding[b].of \in Leaves
        BY <3>1 DEF LeaveType, Undecided, Decisions
      <4>2. deciding[b].of # l
        BY <2>1, <3>1, DecisionsParts DEF ApproverInv, Writes, Emits, Verdicts
      <4> QED BY <2>1, <2>2, <4>1, <4>2, DecisionsParts DEF ApproverInv, Writes, Emits
    <3>2. CASE deciding[b].pc \notin {"write", "emit"}
      BY <2>1, <3>2 DEF ApproverInv, Writes, Emits
    <3> QED BY <3>1, <3>2
  <2>4. ASSUME NEW k \in Leaves PROVE OneLeaveInv(k)'
    <3>1. OnLeave(k)' = OnLeave(k)
      BY <2>1 DEF OnLeave
    <3>2. CASE k = l
      BY <2>1, <2>2, <3>1, <3>2, DecisionsParts DEF OneLeaveInv, Verdicts
    <3>3. CASE k # l
      BY <2>1, <2>2, <3>1, <3>3, DecisionsParts DEF OneLeaveInv, Emits
    <3> QED BY <3>2, <3>3
  <2> QED BY <2>3, <2>4, DecisionsParts
<1>3. CASE LeaveCutShort
  <2>1. /\ \A a \in Approvers : deciding'[a] = deciding[a] \/ deciding'[a] = [pc |-> "done"]
        /\ leaveFaults' = leaveFaults + 1 /\ UNCHANGED <<leave, announced, disputed>>
    BY <1>3 DEF LeaveCutShort, LeaveType
  <2>2. leaveFaults' # 0
    BY <2>1 DEF LeaveType
  <2>3. \A k \in Leaves : OnLeave(k)' \subseteq OnLeave(k)
    BY <2>1 DEF OnLeave
  <2>4. ASSUME NEW b \in Approvers PROVE ApproverInv(b)'
    BY <2>1, DecisionsParts DEF ApproverInv, Writes, Emits
  <2>5. ASSUME NEW k \in Leaves PROVE OneLeaveInv(k)'
    BY <2>1, <2>2, <2>3, DecisionsParts DEF OneLeaveInv
  <2> QED BY <2>4, <2>5, DecisionsParts
<1> QED BY <1>1, <1>2, <1>3, ReadLeaveKeeps, DecideLeaveKeeps, AnnounceLeaveKeeps
    DEF LeaveNext, BeginAccrual, Grant, Leaver, leaveVars

\* approveOrReject and runAccrual: for any number of requests, approvers and runs,
\* cut short or not, a decision of which an employee was told stands unless
\* decisions overlapped, and a balance is one grant for each run that came by.
THEOREM LeaveIsAlwaysKept == LeaveSpec => []LeaveIsKept
<1>1. LeaveInv => LeaveIsKept
  BY DEF LeaveInv, DecisionsInv, GrantsInv, LeaveIsKept, DecisionStands
<1>2. LeaveInv /\ [LeaveNext]_leaveVars => LeaveInv'
  BY LeaveTypeStep, GrantsStep, DecisionsStep DEF LeaveInv
<1> QED BY <1>1, <1>2, LeaveInitHolds, PTL DEF LeaveSpec

-----------------------------------------------------------------------------
(* Attendance                                                              *)

ClockingIn == [pc : {"in"}, now : Nat]
ClockingOut == [pc : {"out"}, now : Nat, rec : ClockRequests]
AttendanceRecord == [clockIn : Int, clockOut : Int, overtime : Int]

AttendanceType ==
  /\ hour \in Nat
  /\ clock \in [ClockRequests -> {NotCalled, [pc |-> "done"]} \cup ClockingIn \cup ClockingOut]
  /\ DOMAIN record \subseteq ClockRequests
  /\ record \in [DOMAIN record -> AttendanceRecord]
  /\ clockedOut \subseteq Nat

Outs(d) == {h \in clockedOut : DayOf(h) = d}

\* On a day whose calls did not overlap there is one call at a time, which finds
\* what it read.
DayInv(d) ==
  /\ \A q, r \in Calls(d) : q = r
  /\ \A r \in Calls(d) :
       /\ clock[r].pc = "in" => OfDay(d) = {}
       /\ clock[r].pc = "out" => record[clock[r].rec].clockOut = Open
  /\ OfDay(d) = {} => Outs(d) = {}
  /\ \A p, q \in OfDay(d) : p = q
  /\ \A q \in OfDay(d) :
       /\ Outs(d) = {record[q].clockOut} \ {Open}
       /\ Outs(d) # {} =>
            record[q].overtime = Overtime(record[q].clockOut - record[q].clockIn)

\* A call makes one record, and a call to clockOut works on one of its own day.
AttendanceInv ==
  /\ AttendanceType
  /\ \A r \in DOMAIN record : clock[r].pc = "done"
  /\ \A r \in ClockRequests : clock[r].pc = "out" =>
       /\ clock[r].rec \in DOMAIN record
       /\ DayOf(record[clock[r].rec].clockIn) = DayOf(clock[r].now)
  /\ \A d \in 0..DayOf(Hours) \ entangled : DayInv(d)

LEMMA AttendanceInitHolds == AttendanceInit => AttendanceInv
BY DEF AttendanceInit, AttendanceInv, DayInv, AttendanceType, OfDay, Outs, Calls, NotCalled

LEMMA OvertimeType == ASSUME NEW worked \in Int PROVE Overtime(worked) \in Int
BY AttendanceAssumption DEF Overtime

LEMMA AttendanceStep == AttendanceInv /\ [AttendanceNext]_attendanceVars => AttendanceInv'
<1> SUFFICES ASSUME AttendanceInv, [AttendanceNext]_attendanceVars PROVE AttendanceInv'
  OBVIOUS
<1>1. CASE UNCHANGED <<clock, record, entangled, clockedOut>> /\ hour' \in Nat
  BY <1>1 DEF AttendanceInv, DayInv, AttendanceType, OfDay, Outs, Calls
<1>2. ASSUME NEW r \in ClockRequests, ClockInRead(r) PROVE AttendanceInv'
  <2> DEFINE c == [pc |-> "in", now |-> hour]
  <2>1. /\ clock[r] = NotCalled /\ OfDay(DayOf(hour)) = {}
        /\ clock' = [clock EXCEPT ![r] = c] /\ Mark(DayOf(hour))
        /\ UNCHANGED <<hour, record, clockedOut>>
    BY <1>2 DEF ClockInRead, ClockedIn
  <2>2. c \in ClockingIn /\ c.pc = "in" /\ c.now = hour
    BY DEF AttendanceInv, AttendanceType, ClockingIn
  <2>3. clock'[r] = c /\ \A q \in ClockRequests : q # r => clock'[q] = clock[q]
    BY <2>1 DEF AttendanceInv, AttendanceType
  <2>4. \A d : Calls(d)' = IF d = DayOf(hour) THEN Calls(d) \cup {r} ELSE Calls(d)
    BY <2>1, <2>2, <2>3 DEF Calls, NotCalled
  <2>5. \A d : OfDay(d)' = OfDay(d) /\ Outs(d)' = Outs(d)
    BY <2>1 DEF OfDay, Outs
  <2>6. AttendanceType'
    BY <2>1, <2>2 DEF AttendanceInv, AttendanceType
  <2>7. ASSUME NEW q \in ClockRequests, clock'[q].pc = "out"
        PROVE  clock'[q].rec \in DOMAIN record'
               /\ DayOf(record'[clock'[q].rec].clockIn) = DayOf(clock'[q].now)
    BY <2>1, <2>2, <2>3, <2>7 DEF AttendanceInv
  <2>8. ASSUME NEW d \in 0..DayOf(Hours) \ entangled'
        PROVE  /\ \A q, s \in Calls(d)' : q = s
               /\ \A s \in Calls(d)' :
                    /\ clock'[s].pc = "in" => OfDay(d)' = {}
                    /\ clock'[s].pc = "out" => record'[clock'[s].rec].clockOut = Open
    <3>1. d \notin entangled /\ (d = DayOf(hour) => Calls(d) = {})
      BY <2>1 DEF Mark
    <3>2. CASE d = DayOf(hour)
      BY <2>1, <2>2, <2>3, <2>4, <2>5, <3>1, <3>2
    <3>3. CASE d # DayOf(hour)
      <4>1. \A s \in Calls(d) : s # r /\ clock'[s] = clock[s]
        BY <2>1, <2>3 DEF Calls, NotCalled
      <4> QED BY <2>1, <2>4, <2>5, <3>1, <3>3, <4>1 DEF AttendanceInv, DayInv
    <3> QED BY <3>2, <3>3
  <2>9. \A d \in 0..DayOf(Hours) \ entangled' : d \notin entangled
    BY <2>1 DEF Mark
  <2>10. \A s \in DOMAIN record' : clock'[s].pc = "done"
    BY <2>1, <2>3 DEF AttendanceInv, AttendanceType, NotCalled
  <2> QED BY <2>1, <2>5, <2>6, <2>7, <2>8, <2>9, <2>10 DEF AttendanceInv, DayInv
<1>3. ASSUME NEW r \in ClockRequests, NEW q \in DOMAIN record, ClockOutRead(r, q) PROVE AttendanceInv'
  <2> DEFINE c == [pc |-> "out", now |-> hour, rec |-> q]
  <2>1. /\ clock[r] = NotCalled /\ q \in OfDay(DayOf(hour)) /\ record[q].clockOut = Open
        /\ clock' = [clock EXCEPT ![r] = c] /\ Mark(DayOf(hour))
        /\ UNCHANGED <<hour, record, clockedOut>>
    BY <1>3 DEF ClockOutRead
  <2>2. c \in ClockingOut /\ c.pc = "out" /\ c.now = hour /\ c.rec = q
    BY DEF AttendanceInv, AttendanceType, ClockingOut
  <2>3. clock'[r] = c /\ \A s \in ClockRequests : s # r => clock'[s] = clock[s]
    BY <2>1 DEF AttendanceInv, AttendanceType
  <2>4. \A d : Calls(d)' = IF d = DayOf(hour) THEN Calls(d) \cup {r} ELSE Calls(d)
    BY <2>1, <2>2, <2>3 DEF Calls, NotCalled
  <2>5. \A d : OfDay(d)' = OfDay(d) /\ Outs(d)' = Outs(d)
    BY <2>1 DEF OfDay, Outs
  <2>6. AttendanceType'
    BY <2>1, <2>2 DEF AttendanceInv, AttendanceType
  <2>7. ASSUME NEW s \in ClockRequests, clock'[s].pc = "out"
        PROVE  clock'[s].rec \in DOMAIN record'
               /\ DayOf(record'[clock'[s].rec].clockIn) = DayOf(clock'[s].now)
    <3>1. CASE s = r
      BY <2>1, <2>2, <2>3, <3>1 DEF OfDay
    <3>2. CASE s # r
      BY <2>1, <2>3, <2>7, <3>2 DEF AttendanceInv
    <3> QED BY <3>1, <3>2
  <2>8. ASSUME NEW d \in 0..DayOf(Hours) \ entangled'
        PROVE  /\ \A p, s \in Calls(d)' : p = s
               /\ \A s \in Calls(d)' :
                    /\ clock'[s].pc = "in" => OfDay(d)' = {}
                    /\ clock'[s].pc = "out" => record'[clock'[s].rec].clockOut = Open
    <3>1. d \notin entangled /\ (d = DayOf(hour) => Calls(d) = {})
      BY <2>1 DEF Mark
    <3>2. CASE d = DayOf(hour)
      BY <2>1, <2>2, <2>3, <2>4, <2>5, <3>1, <3>2
    <3>3. CASE d # DayOf(hour)
      <4>1. \A s \in Calls(d) : s # r /\ clock'[s] = clock[s]
        BY <2>1, <2>3 DEF Calls, NotCalled
      <4> QED BY <2>1, <2>4, <2>5, <3>1, <3>3, <4>1 DEF AttendanceInv, DayInv
    <3> QED BY <3>2, <3>3
  <2>9. \A d \in 0..DayOf(Hours) \ entangled' : d \notin entangled
    BY <2>1 DEF Mark
  <2>10. \A s \in DOMAIN record' : clock'[s].pc = "done"
    BY <2>1, <2>3 DEF AttendanceInv, AttendanceType, NotCalled
  <2> QED BY <2>1, <2>5, <2>6, <2>7, <2>8, <2>9, <2>10 DEF AttendanceInv, DayInv
<1>4. ASSUME NEW r \in ClockRequests, ClockInWrite(r) PROVE AttendanceInv'
  <2> DEFINE new == [clockIn |-> clock[r].now, clockOut |-> Open, overtime |-> 0]
  <2>1. /\ clock[r].pc = "in"
        /\ record' = [q \in DOMAIN record \cup {r} |-> IF q = r THEN new ELSE record[q]]
        /\ clock' = [clock EXCEPT ![r] = [pc |-> "done"]]
        /\ UNCHANGED <<hour, entangled, clockedOut>>
    BY <1>4 DEF ClockInWrite
  <2>2. /\ clock[r] \in ClockingIn /\ new \in AttendanceRecord
        /\ new.clockIn = clock[r].now /\ new.clockOut = Open
    BY <2>1 DEF AttendanceInv, AttendanceType, NotCalled, ClockingIn, ClockingOut, AttendanceRecord, Open
  <2> HIDE DEF new
  <2>3. clock'[r].pc = "done" /\ \A q \in ClockRequests : q # r => clock'[q] = clock[q]
    BY <2>1 DEF AttendanceInv, AttendanceType
  <2>4. /\ DOMAIN record' = DOMAIN record \cup {r} /\ record'[r] = new
        /\ \A q \in DOMAIN record : q # r => record'[q] = record[q]
    BY <2>1
  <2>5. r \notin DOMAIN record /\ DOMAIN record \subseteq ClockRequests
    BY <2>1 DEF AttendanceInv, AttendanceType
  <2>6. AttendanceType'
    BY <2>1, <2>2, <2>4 DEF AttendanceInv, AttendanceType
  <2>7. \A s \in DOMAIN record' : clock'[s].pc = "done"
    BY <2>3, <2>4, <2>5 DEF AttendanceInv
  <2>8. ASSUME NEW s \in ClockRequests, clock'[s].pc = "out"
        PROVE  clock'[s].rec \in DOMAIN record'
               /\ DayOf(record'[clock'[s].rec].clockIn) = DayOf(clock'[s].now)
    BY <2>3, <2>4, <2>5, <2>8 DEF AttendanceInv
  <2>9. \A d : Calls(d)' = Calls(d) \ {r}
    BY <2>3 DEF Calls
  <2>10. \A d : Outs(d)' = Outs(d)
    BY <2>1 DEF Outs
  <2>11. \A d : OfDay(d)' = IF d = DayOf(clock[r].now) THEN OfDay(d) \cup {r} ELSE OfDay(d)
    BY <2>2, <2>4, <2>5 DEF OfDay
  <2>12. ASSUME NEW d \in 0..DayOf(Hours) \ entangled', d = DayOf(clock[r].now)
         PROVE  Calls(d)' = {} /\ Outs(d)' = {} /\ OfDay(d)' = {r}
    <3>1. r \in Calls(d)
      BY <2>1, <2>12 DEF Calls
    <3>2. OfDay(d) = {} /\ Outs(d) = {} /\ Calls(d) = {r}
      BY <2>1, <2>12, <3>1 DEF AttendanceInv, DayInv
    <3> QED BY <2>9, <2>10, <2>11, <2>12, <3>2
  <2>13. ASSUME NEW d \in 0..DayOf(Hours) \ entangled', d # DayOf(clock[r].now)
         PROVE  /\ \A s \in Calls(d)' : s # r /\ clock'[s] = clock[s]
                /\ \A s \in OfDay(d)' : record'[s] = record[s]
                /\ OfDay(d)' = OfDay(d)
                /\ \A s \in Calls(d)' : clock[s].pc = "out" =>
                     record'[clock'[s].rec].clockOut = record[clock[s].rec].clockOut
    <3>1. \A s \in Calls(d)' : s # r /\ clock'[s] = clock[s] /\ s \in ClockRequests
      BY <2>3, <2>9 DEF Calls
    <3>2. OfDay(d)' = OfDay(d)
      BY <2>11, <2>13
    <3>3. \A s \in OfDay(d)' : record'[s] = record[s]
      BY <2>4, <2>5, <3>2 DEF OfDay
    <3>4. \A s \in Calls(d)' : clock[s].pc = "out" =>
            record'[clock'[s].rec].clockOut = record[clock[s].rec].clockOut
      BY <2>4, <2>5, <3>1 DEF AttendanceInv
    <3> QED BY <3>1, <3>2, <3>3, <3>4
  <2>14. ASSUME NEW d \in 0..DayOf(Hours) \ entangled' PROVE DayInv(d)'
    <3>1. CASE d = DayOf(clock[r].now)
      BY <2>2, <2>4, <2>12, <2>14, <3>1 DEF DayInv
    <3>2. CASE d # DayOf(clock[r].now)
      <4>1. DayInv(d)
        BY <2>1, <2>14 DEF AttendanceInv
      <4> QED BY <2>9, <2>10, <2>13, <2>14, <3>2, <4>1 DEF DayInv
    <3> QED BY <3>1, <3>2
  <2> QED BY <2>6, <2>7, <2>8, <2>14 DEF AttendanceInv
<1>5. ASSUME NEW r \in ClockRequests, ClockOutWrite(r) PROVE AttendanceInv'
  <2>1. PICK q, now : /\ clock[r].pc = "out" /\ clock[r].rec = q /\ clock[r].now = now
                      /\ record' = [record EXCEPT ![q] = [@ EXCEPT
                           !.clockOut = now, !.overtime = Overtime(now - record[q].clockIn)]]
                      /\ clockedOut' = clockedOut \cup {now}
                      /\ clock' = [clock EXCEPT ![r] = [pc |-> "done"]]
                      /\ UNCHANGED <<hour, entangled>>
    BY <1>5 DEF ClockOutWrite
  <2>2. now \in Nat /\ now # Open /\ q \in DOMAIN record /\ record[q] \in AttendanceRecord
        /\ DayOf(record[q].clockIn) = DayOf(now) /\ r # q
    BY <2>1 DEF AttendanceInv, AttendanceType, NotCalled, ClockingIn, ClockingOut, Open
  <2>3. clock'[r].pc = "done" /\ \A s \in ClockRequests : s # r => clock'[s] = clock[s]
    BY <2>1 DEF AttendanceInv, AttendanceType
  <2>4. Overtime(now - record[q].clockIn) \in Int
    BY <2>2, OvertimeType DEF AttendanceRecord
  <2>5. /\ record'[q] \in AttendanceRecord
        /\ record'[q].clockIn = record[q].clockIn /\ record'[q].clockOut = now
        /\ record'[q].overtime = Overtime(now - record[q].clockIn)
        /\ DOMAIN record' = DOMAIN record
        /\ \A s \in DOMAIN record : s # q => record'[s] = record[s]
    <3>0. PICK o \in Int : o = Overtime(now - record[q].clockIn)
      BY <2>4
    <3> DEFINE w == [record[q] EXCEPT !.clockOut = now, !.overtime = o]
    <3>4. w = [clockIn |-> record[q].clockIn, clockOut |-> now, overtime |-> o]
      <4>1. PICK a, b, e \in Int : record[q] = [clockIn |-> a, clockOut |-> b, overtime |-> e]
        BY <2>2 DEF AttendanceRecord
      <4>2. [record[q] EXCEPT !.clockOut = now] = [clockIn |-> a, clockOut |-> now, overtime |-> e]
        BY <4>1
      <4>3. [[clockIn |-> a, clockOut |-> now, overtime |-> e] EXCEPT !.overtime = o]
            = [clockIn |-> a, clockOut |-> now, overtime |-> o]
        OBVIOUS
      <4>4. w = [[record[q] EXCEPT !.clockOut = now] EXCEPT !.overtime = o]
        OBVIOUS
      <4> QED BY <4>1, <4>2, <4>3, <4>4
    <3>5. now \in Int /\ record[q].clockIn \in Int
      BY <2>2 DEF AttendanceRecord
    <3>1. w \in AttendanceRecord /\ w.clockIn = record[q].clockIn /\ w.clockOut = now
          /\ w.overtime = o
      BY <3>4, <3>5 DEF AttendanceRecord
    <3>2. record' = [record EXCEPT ![q] = w]
      BY <2>1, <3>0
    <3>3. DOMAIN record' = DOMAIN record /\ record'[q] = w
          /\ \A s \in DOMAIN record : s # q => record'[s] = record[s]
      BY <2>2, <3>2
    <3> QED BY <3>0, <3>1, <3>3
  <2>6. AttendanceType'
    BY <2>1, <2>2, <2>5 DEF AttendanceInv, AttendanceType
  <2>7. \A s \in DOMAIN record' : clock'[s].pc = "done"
    BY <2>3, <2>5 DEF AttendanceInv, AttendanceType
  <2>8. ASSUME NEW s \in ClockRequests, clock'[s].pc = "out"
        PROVE  clock'[s].rec \in DOMAIN record'
               /\ DayOf(record'[clock'[s].rec].clockIn) = DayOf(clock'[s].now)
    BY <2>3, <2>5, <2>8 DEF AttendanceInv
  <2>9. \A d : Calls(d)' = Calls(d) \ {r}
    BY <2>3 DEF Calls
  <2>10. \A d : Outs(d)' = IF d = DayOf(now) THEN Outs(d) \cup {now} ELSE Outs(d)
    BY <2>1 DEF Outs
  <2>11. \A d : OfDay(d)' = OfDay(d)
    BY <2>5 DEF OfDay
  <2>12. ASSUME NEW d \in 0..DayOf(Hours) \ entangled' PROVE DayInv(d)'
    <3>1. DayInv(d)
      BY <2>1, <2>12 DEF AttendanceInv
    <3>2. CASE d = DayOf(now)
      <4>1. r \in Calls(d) /\ q \in OfDay(d)
        BY <2>1, <2>2, <3>2 DEF Calls, OfDay
      <4>2. Calls(d) = {r} /\ OfDay(d) = {q} /\ Outs(d) = {}
        BY <2>1, <3>1, <4>1 DEF DayInv
      <4>3. Calls(d)' = {} /\ OfDay(d)' = {q} /\ Outs(d)' = {now}
        BY <2>9, <2>10, <2>11, <3>2, <4>2
      <4> QED BY <2>2, <2>5, <4>3 DEF DayInv
    <3>3. CASE d # DayOf(now)
      <4>1. \A s \in OfDay(d) : s # q /\ record'[s] = record[s]
        BY <2>2, <2>5, <3>3 DEF OfDay
      <4>2. \A s \in Calls(d)' : s \in Calls(d) /\ clock'[s] = clock[s] /\ s \in ClockRequests
                                 /\ DayOf(clock[s].now) = d
        BY <2>3, <2>9 DEF Calls
      <4>3. \A s \in Calls(d)' : clock[s].pc = "out" =>
              clock[s].rec # q /\ record'[clock'[s].rec] = record[clock[s].rec]
        BY <2>2, <2>5, <3>3, <4>2 DEF AttendanceInv
      <4> QED BY <2>9, <2>10, <2>11, <3>1, <3>3, <4>1, <4>2, <4>3 DEF DayInv
    <3> QED BY <3>2, <3>3
  <2> QED BY <2>6, <2>7, <2>8, <2>12 DEF AttendanceInv
<1> QED BY <1>1, <1>2, <1>3, <1>4, <1>5 DEF AttendanceNext, HourPasses, attendanceVars, AttendanceInv, AttendanceType

\* clockIn and clockOut: for any number of calls and any length of the day and the
\* shift, a day whose calls did not overlap has one record, closed once, with
\* the overtime of the call that closed it.
THEOREM DayIsAlwaysCountedOnce == AttendanceSpec => []DayIsCountedOnce
<1>1. AttendanceInv => DayIsCountedOnce
  BY DEF AttendanceInv, DayInv, DayIsCountedOnce, Outs
<1> QED BY <1>1, AttendanceInitHolds, AttendanceStep, PTL DEF AttendanceSpec

-----------------------------------------------------------------------------
(***************************************************************************)
(* ProjectPlans.  A dependency is added only to a task that depends on     *)
(* less; a scan alerts once in each stretch of days.                       *)
(***************************************************************************)

-----------------------------------------------------------------------------
(* Project plans                                                           *)

TaskRow == [project : PlanProjects, milestone : PlanRequests \cup {NoMilestone}]
MilestoneRow == [project : PlanProjects, due : Nat, achieved : BOOLEAN]
TaskCall == [pc : {"task"}, project : PlanProjects, milestone : PlanRequests \cup {NoMilestone},
             prereqs : SUBSET PlanRequests]
MilestoneCall == [pc : {"milestone"}, project : PlanProjects, due : Nat]

PlanType ==
  /\ DOMAIN planTasks \subseteq PlanRequests /\ planTasks \in [DOMAIN planTasks -> TaskRow]
  /\ DOMAIN milestone \subseteq PlanRequests /\ milestone \in [DOMAIN milestone -> MilestoneRow]
  /\ alerts \in [DOMAIN milestone -> Nat]
  /\ late \subseteq DOMAIN milestone
  /\ planReq \in [PlanRequests -> {NotSent, Sent} \cup TaskCall \cup MilestoneCall]
  /\ tick \in Nat /\ scanned \in Nat

\* A row is that of a request which is over; what a call to createTask found is
\* deleted or still a task of the project.
DependInv ==
  /\ \A r \in DOMAIN planTasks : planReq[r] = Sent
  /\ \A d \in depends :
       /\ d = <<d[1], d[2]>> /\ d[1] \in DOMAIN planTasks /\ d[2] \in DOMAIN planTasks
       /\ planTasks[d[1]].project = planTasks[d[2]].project
  /\ \A t \in DOMAIN planTasks : planTasks[t].milestone \in DOMAIN milestone \cup {NoMilestone}
  /\ \A r \in PlanRequests : planReq[r].pc = "task" =>
       \A t \in planReq[r].prereqs :
         /\ planReq[t] = Sent
         /\ t \in DOMAIN planTasks => planTasks[t].project = planReq[r].project

\* The next scan is a whole day after the last one, and time does not pass it.
AlertInv ==
  /\ scanned <= tick /\ tick <= scanned + DayTicks
  /\ scanned % DayTicks = 0
  /\ OverdueIsAlertedOnce

LEMMA PlanInitHolds == PlanInit => PlanType /\ DependInv /\ AlertInv
<1> SUFFICES ASSUME PlanInit PROVE PlanType /\ DependInv /\ AlertInv
  OBVIOUS
<1>1. DOMAIN planTasks = {} /\ DOMAIN milestone = {} /\ DOMAIN alerts = {}
  BY DEF PlanInit
<1>2. PlanType
  BY <1>1 DEF PlanInit, PlanType
<1>3. DependInv
  BY <1>1 DEF PlanInit, DependInv, NotSent
<1>4. AlertInv
  BY <1>1, PlanAssumption DEF PlanInit, AlertInv, OverdueIsAlertedOnce
<1> QED BY <1>2, <1>3, <1>4

-----------------------------------------------------------------------------
LEMMA Whole == ASSUME NEW D \in Nat \ {0}, NEW x \in Nat, x % D = 0 PROVE x = D * (x \div D) /\ x \div D \in Nat
OBVIOUS

LEMMA Multiple == ASSUME NEW D \in Nat \ {0}, NEW a \in Nat PROVE (D * a) % D = 0
OBVIOUS

\* The multiple after a multiple.
LEMMA NextMultiple ==
  ASSUME NEW D \in Nat \ {0}, NEW x \in Nat, x % D = 0
  PROVE  /\ (x + D) % D = 0
         /\ \A y \in Nat : x < y /\ y <= x + D /\ y % D = 0 => y = x + D
<1>1. PICK a \in Nat : x = D * a
  BY Whole
<1>2. (x + D) % D = 0
  <2>1. x + D = D * (a + 1)
    BY <1>1
  <2>2. (D * (a + 1)) % D = 0
    BY Multiple
  <2> QED BY <2>1, <2>2
<1>3. ASSUME NEW y \in Nat, x < y, y <= x + D, y % D = 0 PROVE y = x + D
  <2>1. PICK b \in Nat : y = D * b
    BY <1>3, Whole
  <2>2. a < b
    BY <1>1, <1>3, <2>1
  <2>3. ASSUME b > a + 1 PROVE FALSE
    <3>1. PICK k \in Nat : b = a + 2 + k
      <4>1. b - a - 2 \in Nat /\ b = a + 2 + (b - a - 2)
        BY <2>3
      <4> QED BY <4>1
    <3>2. D * b = D * a + 2 * D + D * k
      BY <3>1
    <3>3. D * k >= 0
      OBVIOUS
    <3> QED BY <1>1, <1>3, <2>1, <3>2, <3>3
  <2>4. b = a + 1
    BY <2>2, <2>3
  <2> QED BY <1>1, <2>1, <2>4
<1> QED BY <1>2, <1>3

-----------------------------------------------------------------------------
LEMMA PlanTypeStep == PlanType /\ [PlanNext]_planVars => PlanType'
<1> SUFFICES ASSUME PlanType, [PlanNext]_planVars PROVE PlanType'
  OBVIOUS
<1> USE DEF PlanType, taskVars, dueVars, timeVars
<1>1. ASSUME NEW r \in PlanRequests, TaskInsert(r) PROVE PlanType'
  <2>1. planReq[r] \in TaskCall
    BY <1>1 DEF TaskInsert, NotSent, Sent, MilestoneCall
  <2>2. [project |-> planReq[r].project, milestone |-> planReq[r].milestone] \in TaskRow
    BY <2>1 DEF TaskCall, TaskRow
  <2>3. DOMAIN planTasks' \subseteq PlanRequests /\ planTasks' \in [DOMAIN planTasks' -> TaskRow]
    BY <1>1, <2>2 DEF TaskInsert, With
  <2> QED BY <1>1, <2>3 DEF TaskInsert
<1>2. ASSUME NEW r \in PlanRequests, MilestoneInsert(r) PROVE PlanType'
  <2>1. planReq[r] \in MilestoneCall
    BY <1>2 DEF MilestoneInsert, NotSent, Sent, TaskCall
  <2>2. [project |-> planReq[r].project, due |-> planReq[r].due, achieved |-> FALSE] \in MilestoneRow
    BY <2>1 DEF MilestoneCall, MilestoneRow
  <2>3. /\ DOMAIN milestone' = DOMAIN milestone \cup {r}
        /\ milestone' \in [DOMAIN milestone' -> MilestoneRow]
    BY <1>2, <2>2 DEF MilestoneInsert, With
  <2>4. alerts' \in [DOMAIN milestone' -> Nat]
    BY <1>2, <2>3 DEF MilestoneInsert, With
  <2> QED BY <1>2, <2>3, <2>4 DEF MilestoneInsert
<1>3. ASSUME NEW r \in PlanRequests, NEW p \in PlanProjects, NEW m \in DOMAIN milestone \cup {NoMilestone},
             NEW ds \in SUBSET DOMAIN planTasks, TaskCheck(r, p, m, ds)
      PROVE  PlanType'
  <2>1. [pc |-> "task", project |-> p, milestone |-> m, prereqs |-> ds] \in TaskCall
    BY DEF TaskCall
  <2> QED BY <1>3, <2>1 DEF TaskCheck
<1>4. ASSUME NEW r \in PlanRequests, NEW p \in PlanProjects, NEW due \in DueTicks, MilestoneCheck(r, p, due)
      PROVE  PlanType'
  <2>1. [pc |-> "milestone", project |-> p, due |-> due] \in MilestoneCall
    BY PlanAssumption DEF MilestoneCall
  <2> QED BY <1>4, <2>1 DEF MilestoneCheck
<1>5. ASSUME NEW t \in DOMAIN planTasks, DeleteTask(t) PROVE PlanType'
  BY <1>5 DEF DeleteTask, OnlyOf
<1>6. ASSUME NEW m \in DOMAIN milestone, AchieveMilestone(m) PROVE PlanType'
  <2>1. [milestone[m] EXCEPT !.achieved = TRUE] \in MilestoneRow
    BY DEF MilestoneRow
  <2>2. DOMAIN milestone' = DOMAIN milestone /\ milestone' \in [DOMAIN milestone -> MilestoneRow]
    BY <1>6, <2>1 DEF AchieveMilestone
  <2> QED BY <1>6, <2>2 DEF AchieveMilestone
<1>7. ASSUME NEW m \in DOMAIN milestone, NEW due \in DueTicks, MoveMilestone(m, due) PROVE PlanType'
  <2>1. [milestone[m] EXCEPT !.due = due] \in MilestoneRow
    BY PlanAssumption DEF MilestoneRow
  <2>2. DOMAIN milestone' = DOMAIN milestone /\ milestone' \in [DOMAIN milestone -> MilestoneRow]
    BY <1>7, <2>1 DEF MoveMilestone
  <2> QED BY <1>7, <2>2 DEF MoveMilestone
<1>8. ASSUME NEW m \in DOMAIN milestone, DeleteMilestone(m) PROVE PlanType'
  <2>1. /\ DOMAIN milestone' = DOMAIN milestone \ {m} /\ milestone' \in [DOMAIN milestone' -> MilestoneRow]
        /\ alerts' \in [DOMAIN milestone' -> Nat] /\ late' \subseteq DOMAIN milestone'
    BY <1>8 DEF DeleteMilestone, WithoutMilestones, OnlyOf
  <2>2. \A t \in DOMAIN planTasks : [planTasks[t] EXCEPT !.milestone = NoMilestone] \in TaskRow
    BY DEF TaskRow
  <2>3. DOMAIN planTasks' = DOMAIN planTasks /\ planTasks' \in [DOMAIN planTasks -> TaskRow]
    BY <1>8, <2>2 DEF DeleteMilestone
  <2> QED BY <1>8, <2>1, <2>3 DEF DeleteMilestone
<1>9. ASSUME NEW p \in PlanProjects, DeleteProject(p) PROVE PlanType'
  <2>1. /\ DOMAIN milestone' \subseteq DOMAIN milestone /\ milestone' \in [DOMAIN milestone' -> MilestoneRow]
        /\ alerts' \in [DOMAIN milestone' -> Nat] /\ late' \subseteq DOMAIN milestone'
    BY <1>9 DEF DeleteProject, WithoutMilestones, OnlyOf
  <2>2. \A t \in DOMAIN planTasks : [planTasks[t] EXCEPT !.milestone = NoMilestone] \in TaskRow
    BY DEF TaskRow
  <2>3. DOMAIN planTasks' \subseteq DOMAIN planTasks /\ planTasks' \in [DOMAIN planTasks' -> TaskRow]
    BY <1>9, <2>2 DEF DeleteProject
  <2> QED BY <1>9, <2>1, <2>3 DEF DeleteProject
<1>10. CASE Scan
  BY <1>10 DEF Scan
<1>11. CASE TickPasses
  BY <1>11 DEF TickPasses
<1>12. CASE UNCHANGED planVars
  BY <1>12 DEF planVars
<1> QED BY <1>1, <1>2, <1>3, <1>4, <1>5, <1>6, <1>7, <1>8, <1>9, <1>10, <1>11, <1>12 DEF PlanNext

-----------------------------------------------------------------------------
\* Deletions, and moves of milestones, leave of each table a part that refers to itself.
LEMMA DependsOnLess ==
  ASSUME PlanType, DependInv, planReq' = planReq,
         depends' \subseteq depends,
         DOMAIN planTasks' \subseteq DOMAIN planTasks,
         \A t \in DOMAIN planTasks' :
           /\ planTasks'[t].project = planTasks[t].project
           /\ planTasks'[t].milestone \in DOMAIN milestone' \cup {NoMilestone},
         \A d \in depends' : d[1] \in DOMAIN planTasks' /\ d[2] \in DOMAIN planTasks'
  PROVE  DependInv'
<1>1. ASSUME NEW d \in depends'
      PROVE  /\ d = <<d[1], d[2]>> /\ d[1] \in DOMAIN planTasks' /\ d[2] \in DOMAIN planTasks'
             /\ planTasks'[d[1]].project = planTasks'[d[2]].project
  BY <1>1 DEF DependInv
<1>2. ASSUME NEW r \in PlanRequests, planReq'[r].pc = "task", NEW t \in planReq'[r].prereqs
      PROVE  /\ planReq'[t] = Sent
             /\ t \in DOMAIN planTasks' => planTasks'[t].project = planReq'[r].project
  BY <1>2 DEF DependInv
<1>3. \A r \in DOMAIN planTasks' : planReq'[r] = Sent
  BY DEF DependInv
<1> QED BY <1>1, <1>2, <1>3 DEF DependInv

LEMMA DependStep == PlanType /\ DependInv /\ [PlanNext]_planVars => DependInv'
<1> SUFFICES ASSUME PlanType, DependInv, [PlanNext]_planVars PROVE DependInv'
  OBVIOUS
<1> USE DEF taskVars, dueVars, timeVars
<1>1. CASE UNCHANGED <<planTasks, depends, planReq>> /\ DOMAIN milestone' = DOMAIN milestone
  BY <1>1 DEF DependInv
<1>2. ASSUME NEW r \in PlanRequests, TaskInsert(r) PROVE DependInv'
  <2>1. /\ planReq[r].pc = "task" /\ planReq' = [planReq EXCEPT ![r] = Sent] /\ milestone' = milestone
        /\ planReq[r] \in TaskCall
    BY <1>2 DEF TaskInsert, PlanType, NotSent, Sent, MilestoneCall
  <2>2. planReq'[r] = Sent /\ \A s \in PlanRequests : s # r => planReq'[s] = planReq[s]
    BY <2>1 DEF PlanType
  <2>3. planReq[r] # Sent /\ Sent.pc # "task" /\ r \notin DOMAIN planTasks
    BY <2>1 DEF Sent, DependInv
  <2>4. \A s \in PlanRequests : planReq'[s].pc = "task" => s # r /\ planReq[s].pc = "task"
    BY <2>2, <2>3
  <2>5. \A s \in PlanRequests : planReq[s].pc = "task" => planReq[s].prereqs \subseteq PlanRequests
    BY DEF PlanType, NotSent, Sent, TaskCall, MilestoneCall
  <2>6. CASE UNCHANGED <<planTasks, depends>>
    <3>1. ASSUME NEW s \in PlanRequests, planReq'[s].pc = "task", NEW t \in planReq'[s].prereqs
          PROVE  /\ planReq'[t] = Sent
                 /\ t \in DOMAIN planTasks' => planTasks'[t].project = planReq'[s].project
      BY <2>2, <2>4, <2>5, <2>6, <3>1 DEF DependInv
    <3>2. \A s \in DOMAIN planTasks' : planReq'[s] = Sent
      BY <2>2, <2>6 DEF DependInv, PlanType
    <3> QED BY <2>1, <2>6, <3>1, <3>2 DEF DependInv
  <2>7. CASE /\ planReq[r].prereqs \subseteq DOMAIN planTasks
             /\ planReq[r].milestone \in DOMAIN milestone \cup {NoMilestone}
             /\ planTasks' = With(planTasks, r, [project |-> planReq[r].project,
                                                 milestone |-> planReq[r].milestone])
             /\ depends' = depends \cup {<<r, t>> : t \in planReq[r].prereqs}
    <3>1. /\ DOMAIN planTasks' = DOMAIN planTasks \cup {r}
          /\ planTasks'[r] = [project |-> planReq[r].project, milestone |-> planReq[r].milestone]
          /\ \A t \in DOMAIN planTasks : planTasks'[t] = planTasks[t]
      BY <2>3, <2>7 DEF With
    <3>2. \A t \in planReq[r].prereqs : t \in DOMAIN planTasks /\ planTasks[t].project = planReq[r].project
      BY <2>1, <2>7 DEF DependInv
    <3>3. ASSUME NEW d \in depends'
          PROVE  /\ d = <<d[1], d[2]>> /\ d[1] \in DOMAIN planTasks' /\ d[2] \in DOMAIN planTasks'
                 /\ planTasks'[d[1]].project = planTasks'[d[2]].project
      <4>1. CASE d \in depends
        BY <3>1, <4>1 DEF DependInv
      <4>2. CASE d \notin depends
        <5>1. PICK t \in planReq[r].prereqs : d = <<r, t>>
          BY <2>7, <4>2
        <5> QED BY <3>1, <3>2, <5>1
      <4> QED BY <4>1, <4>2
    <3>4. ASSUME NEW s \in PlanRequests, planReq'[s].pc = "task", NEW t \in planReq'[s].prereqs
          PROVE  /\ planReq'[t] = Sent
                 /\ t \in DOMAIN planTasks' => planTasks'[t].project = planReq'[s].project
      <4>1. /\ planReq'[s] = planReq[s] /\ planReq[s].pc = "task" /\ t \in PlanRequests
            /\ planReq[t] = Sent /\ t # r
        BY <2>2, <2>3, <2>4, <2>5, <3>4 DEF DependInv
      <4> QED BY <2>2, <3>1, <3>4, <4>1 DEF DependInv
    <3>5. \A s \in DOMAIN planTasks' : planReq'[s] = Sent
      BY <2>2, <3>1 DEF DependInv, PlanType
    <3>6. \A t \in DOMAIN planTasks' : planTasks'[t].milestone \in DOMAIN milestone' \cup {NoMilestone}
      BY <2>1, <2>7, <3>1 DEF DependInv
    <3> QED BY <3>3, <3>4, <3>5, <3>6 DEF DependInv
  <2> QED BY <1>2, <2>6, <2>7 DEF TaskInsert
<1>3. ASSUME NEW r \in PlanRequests, MilestoneInsert(r) PROVE DependInv'
  <2>1. /\ planReq[r].pc = "milestone" /\ planReq' = [planReq EXCEPT ![r] = Sent]
        /\ UNCHANGED <<planTasks, depends>> /\ DOMAIN milestone \subseteq DOMAIN milestone'
    BY <1>3 DEF MilestoneInsert, With
  <2>2. planReq'[r] = Sent /\ Sent.pc # "task" /\ \A s \in PlanRequests : s # r => planReq'[s] = planReq[s]
    BY <2>1 DEF PlanType, Sent
  <2>3. \A s \in PlanRequests : planReq[s].pc = "task" => planReq[s].prereqs \subseteq PlanRequests
    BY DEF PlanType, NotSent, Sent, TaskCall, MilestoneCall
  <2>4. ASSUME NEW s \in PlanRequests, planReq'[s].pc = "task", NEW t \in planReq'[s].prereqs
        PROVE  /\ planReq'[t] = Sent
               /\ t \in DOMAIN planTasks' => planTasks'[t].project = planReq'[s].project
    <3>1. planReq'[s] = planReq[s]
      BY <2>2, <2>4
    <3> QED BY <2>1, <2>2, <2>3, <2>4, <3>1 DEF DependInv
  <2>5. \A s \in DOMAIN planTasks' : planReq'[s] = Sent
    BY <2>1, <2>2 DEF DependInv, PlanType
  <2> QED BY <2>1, <2>4, <2>5 DEF DependInv
<1>4. ASSUME NEW r \in PlanRequests, planReq[r] = NotSent, UNCHANGED <<planTasks, depends, milestone>>,
             NEW q, planReq' = [planReq EXCEPT ![r] = q],
             q.pc = "task" => q.prereqs \subseteq TasksOf(q.project)
      PROVE  DependInv'
  <2>1. planReq'[r] = q /\ NotSent # Sent /\ \A s \in PlanRequests : s # r => planReq'[s] = planReq[s]
    BY <1>4 DEF PlanType, Sent, NotSent
  <2>2. \A s \in PlanRequests : planReq[s].pc = "task" => planReq[s].prereqs \subseteq PlanRequests
    BY DEF PlanType, NotSent, Sent, TaskCall, MilestoneCall
  <2>3. \A s \in DOMAIN planTasks' : s # r /\ planReq'[s] = Sent
    BY <1>4, <2>1 DEF DependInv, PlanType
  <2>4. ASSUME NEW s \in PlanRequests, planReq'[s].pc = "task", NEW t \in planReq'[s].prereqs
        PROVE  /\ planReq'[t] = Sent
               /\ t \in DOMAIN planTasks' => planTasks'[t].project = planReq'[s].project
    <3>1. CASE s = r
      BY <1>4, <2>1, <2>3, <2>4, <3>1 DEF TasksOf
    <3>2. CASE s # r
      BY <1>4, <2>1, <2>2, <2>4, <3>2 DEF DependInv
    <3> QED BY <3>1, <3>2
  <2> QED BY <1>4, <2>3, <2>4 DEF DependInv
<1>5. ASSUME NEW r \in PlanRequests, NEW p \in PlanProjects, NEW m \in DOMAIN milestone \cup {NoMilestone},
             NEW ds \in SUBSET DOMAIN planTasks, TaskCheck(r, p, m, ds)
      PROVE  DependInv'
  BY <1>4, <1>5 DEF TaskCheck
<1>6. ASSUME NEW r \in PlanRequests, NEW p \in PlanProjects, NEW due \in DueTicks, MilestoneCheck(r, p, due)
      PROVE  DependInv'
  BY <1>4, <1>6 DEF MilestoneCheck
<1>7. ASSUME NEW t \in DOMAIN planTasks, DeleteTask(t) PROVE DependInv'
  <2>1. /\ DOMAIN planTasks' = DOMAIN planTasks \ {t} /\ milestone' = milestone /\ planReq' = planReq
        /\ \A s \in DOMAIN planTasks' : planTasks'[s] = planTasks[s]
        /\ depends' = {d \in depends : t \notin {d[1], d[2]}}
    BY <1>7 DEF DeleteTask, OnlyOf
  <2>2. \A d \in depends' : d[1] \in DOMAIN planTasks' /\ d[2] \in DOMAIN planTasks'
    BY <2>1 DEF DependInv
  <2>3. \A s \in DOMAIN planTasks' : planTasks'[s].milestone \in DOMAIN milestone' \cup {NoMilestone}
    BY <2>1 DEF DependInv
  <2> QED BY <2>1, <2>2, <2>3, DependsOnLess
<1>8. ASSUME NEW m \in DOMAIN milestone, DeleteMilestone(m) PROVE DependInv'
  <2>1. /\ DOMAIN planTasks' = DOMAIN planTasks /\ depends' = depends /\ planReq' = planReq
        /\ DOMAIN milestone' = DOMAIN milestone \ {m}
        /\ \A s \in DOMAIN planTasks : planTasks'[s] =
             IF planTasks[s].milestone = m THEN [planTasks[s] EXCEPT !.milestone = NoMilestone]
             ELSE planTasks[s]
    BY <1>8 DEF DeleteMilestone, WithoutMilestones, OnlyOf
  <2>2. \A s \in DOMAIN planTasks :
          /\ [planTasks[s] EXCEPT !.milestone = NoMilestone].project = planTasks[s].project
          /\ [planTasks[s] EXCEPT !.milestone = NoMilestone].milestone = NoMilestone
    BY DEF PlanType, TaskRow
  <2>3. ASSUME NEW s \in DOMAIN planTasks'
        PROVE  /\ planTasks'[s].project = planTasks[s].project
               /\ planTasks'[s].milestone \in DOMAIN milestone' \cup {NoMilestone}
    BY <2>1, <2>2 DEF DependInv
  <2>4. \A d \in depends' : d[1] \in DOMAIN planTasks' /\ d[2] \in DOMAIN planTasks'
    BY <2>1 DEF DependInv
  <2> QED BY <2>1, <2>3, <2>4, DependsOnLess
<1>9. ASSUME NEW p \in PlanProjects, DeleteProject(p) PROVE DependInv'
  <2>1. /\ DOMAIN planTasks' = DOMAIN planTasks \ TasksOf(p) /\ planReq' = planReq
        /\ depends' = {d \in depends : {d[1], d[2]} \cap TasksOf(p) = {}}
        /\ DOMAIN milestone' = DOMAIN milestone \ MilestonesOf(p)
        /\ \A s \in DOMAIN planTasks' : planTasks'[s] =
             IF planTasks[s].milestone \in MilestonesOf(p)
             THEN [planTasks[s] EXCEPT !.milestone = NoMilestone] ELSE planTasks[s]
    BY <1>9 DEF DeleteProject, WithoutMilestones, OnlyOf
  <2>2. \A s \in DOMAIN planTasks :
          /\ [planTasks[s] EXCEPT !.milestone = NoMilestone].project = planTasks[s].project
          /\ [planTasks[s] EXCEPT !.milestone = NoMilestone].milestone = NoMilestone
    BY DEF PlanType, TaskRow
  <2>3. ASSUME NEW s \in DOMAIN planTasks'
        PROVE  /\ planTasks'[s].project = planTasks[s].project
               /\ planTasks'[s].milestone \in DOMAIN milestone' \cup {NoMilestone}
    BY <2>1, <2>2 DEF DependInv
  <2>4. \A d \in depends' : d[1] \in DOMAIN planTasks' /\ d[2] \in DOMAIN planTasks'
    BY <2>1 DEF DependInv
  <2> QED BY <2>1, <2>3, <2>4, DependsOnLess
<1>10. ASSUME NEW m \in DOMAIN milestone, AchieveMilestone(m) \/ \E due \in DueTicks : MoveMilestone(m, due)
       PROVE  UNCHANGED <<planTasks, depends, planReq>> /\ DOMAIN milestone' = DOMAIN milestone
  BY <1>10 DEF AchieveMilestone, MoveMilestone, PlanType
<1> QED BY <1>1, <1>2, <1>3, <1>5, <1>6, <1>7, <1>8, <1>9, <1>10
    DEF PlanNext, Scan, TickPasses, planVars

-----------------------------------------------------------------------------
\* What OverdueIsAlertedOnce says of one milestone.
Alerted(m) ==
  m \notin late /\ ~milestone[m].achieved => alerts[m] = IF milestone[m].due < scanned THEN 1 ELSE 0

LEMMA AlertParts ==
  /\ OverdueIsAlertedOnce <=> \A m \in DOMAIN milestone : Alerted(m)
  /\ OverdueIsAlertedOnce' <=> \A m \in DOMAIN milestone' : Alerted(m)'
BY DEF OverdueIsAlertedOnce, Alerted

LEMMA AlertStep == PlanType /\ AlertInv /\ [PlanNext]_planVars => AlertInv'
<1> SUFFICES ASSUME PlanType, AlertInv, [PlanNext]_planVars PROVE AlertInv'
  OBVIOUS
<1> USE DEF taskVars, dueVars, timeVars
<1>1. DayTicks \in Nat \ {0} /\ tick \in Nat /\ scanned \in Nat /\ DueTicks \subseteq Nat
  BY PlanAssumption DEF PlanType
<1>2. CASE UNCHANGED <<milestone, alerts, late, tick, scanned>>
  BY <1>2 DEF AlertInv, OverdueIsAlertedOnce
<1>3. ASSUME NEW r \in PlanRequests, MilestoneInsert(r) PROVE AlertInv'
  <2>1. planReq[r] \in MilestoneCall
    BY <1>3 DEF MilestoneInsert, PlanType, NotSent, Sent, TaskCall
  <2>2. PICK due \in Nat : planReq[r].due = due
    BY <2>1 DEF MilestoneCall
  <2>3. /\ DOMAIN milestone' = DOMAIN milestone \cup {r} /\ milestone'[r].due = due
        /\ alerts'[r] = IF due < tick THEN 1 ELSE 0
        /\ \A m \in DOMAIN milestone : m # r => milestone'[m] = milestone[m] /\ alerts'[m] = alerts[m]
        /\ UNCHANGED <<tick, scanned>> /\ late' = IF due < tick THEN late \cup {r} ELSE late
    BY <1>3, <2>2 DEF MilestoneInsert, With, PlanType
  <2>4. ASSUME NEW m \in DOMAIN milestone' PROVE Alerted(m)'
    <3>1. CASE m = r
      BY <1>1, <2>3, <3>1 DEF Alerted, AlertInv
    <3>2. CASE m # r
      BY <2>3, <3>2, AlertParts DEF Alerted, AlertInv
    <3> QED BY <3>1, <3>2
  <2> QED BY <2>3, <2>4, AlertParts DEF AlertInv
<1>4. ASSUME NEW m \in DOMAIN milestone, NEW due \in DueTicks, MoveMilestone(m, due) PROVE AlertInv'
  <2>1. due \in Nat /\ milestone[m] \in MilestoneRow
    BY <1>1 DEF PlanType
  <2>2. /\ DOMAIN milestone' = DOMAIN milestone /\ milestone'[m].due = due
        /\ alerts'[m] = 0
        /\ \A k \in DOMAIN milestone : k # m => milestone'[k] = milestone[k] /\ alerts'[k] = alerts[k]
        /\ UNCHANGED <<tick, scanned>> /\ late' = IF due < tick THEN late \cup {m} ELSE late \ {m}
    BY <1>4, <2>1 DEF MoveMilestone, PlanType, MilestoneRow
  <2>3. ASSUME NEW k \in DOMAIN milestone' PROVE Alerted(k)'
    <3>1. CASE k = m
      BY <1>1, <2>1, <2>2, <3>1 DEF Alerted, AlertInv
    <3>2. CASE k # m
      BY <2>2, <3>2, AlertParts DEF Alerted, AlertInv
    <3> QED BY <3>1, <3>2
  <2> QED BY <2>2, <2>3, AlertParts DEF AlertInv
<1>5. ASSUME NEW m \in DOMAIN milestone, AchieveMilestone(m) PROVE AlertInv'
  <2>1. /\ DOMAIN milestone' = DOMAIN milestone /\ milestone'[m].achieved
        /\ \A k \in DOMAIN milestone : k # m => milestone'[k] = milestone[k]
        /\ UNCHANGED <<alerts, late, tick, scanned>>
    BY <1>5 DEF AchieveMilestone, PlanType, MilestoneRow
  <2>2. ASSUME NEW k \in DOMAIN milestone' PROVE Alerted(k)'
    BY <2>1, AlertParts DEF Alerted, AlertInv
  <2> QED BY <2>1, <2>2, AlertParts DEF AlertInv
<1>6. ASSUME NEW ms, WithoutMilestones(ms), UNCHANGED <<tick, scanned>> PROVE AlertInv'
  <2>1. /\ DOMAIN milestone' = DOMAIN milestone \ ms /\ late' = late \ ms
        /\ \A k \in DOMAIN milestone' : milestone'[k] = milestone[k] /\ alerts'[k] = alerts[k]
    BY <1>6 DEF WithoutMilestones, OnlyOf
  <2>2. ASSUME NEW k \in DOMAIN milestone' PROVE Alerted(k)'
    BY <1>6, <2>1, AlertParts DEF Alerted, AlertInv
  <2> QED BY <1>6, <2>1, <2>2, AlertParts DEF AlertInv
<1>7. CASE Scan
  <2>1. /\ scanned # tick /\ tick % DayTicks = 0 /\ scanned' = tick /\ tick' = tick
        /\ UNCHANGED <<milestone, late>>
        /\ alerts' = [m \in DOMAIN alerts |->
             IF ~milestone[m].achieved /\ NewlyOverdue(milestone[m].due)
             THEN alerts[m] + 1 ELSE alerts[m]]
    BY <1>7 DEF Scan, ScanDue
  <2>2. tick = scanned + DayTicks
    <3>1. scanned < tick /\ tick <= scanned + DayTicks /\ scanned % DayTicks = 0
      BY <1>1, <2>1 DEF AlertInv
    <3>2. \A y \in Nat : scanned < y /\ y <= scanned + DayTicks /\ y % DayTicks = 0 =>
            y = scanned + DayTicks
      BY <1>1, <3>1, NextMultiple
    <3> QED BY <1>1, <2>1, <3>1, <3>2
  <2>3. ASSUME NEW m \in DOMAIN milestone PROVE Alerted(m)'
    <3>1. milestone[m].due \in Nat /\ alerts[m] \in Nat /\ Alerted(m)
      BY AlertParts DEF PlanType, MilestoneRow, AlertInv
    <3>2. NewlyOverdue(milestone[m].due) <=> milestone[m].due < tick /\ milestone[m].due >= scanned
      BY <1>1, <2>2, <3>1 DEF NewlyOverdue
    <3>3. alerts'[m] = IF ~milestone[m].achieved /\ NewlyOverdue(milestone[m].due)
                       THEN alerts[m] + 1 ELSE alerts[m]
      BY <2>1 DEF PlanType
    <3> QED BY <1>1, <2>1, <2>2, <3>1, <3>2, <3>3 DEF Alerted
  <2> QED BY <1>1, <2>1, <2>3, AlertParts DEF AlertInv
<1>8. CASE TickPasses
  <2>1. /\ scanned = tick \/ tick % DayTicks # 0
        /\ tick' = tick + 1 /\ UNCHANGED <<milestone, alerts, late, scanned>>
    BY <1>8 DEF TickPasses, ScanDue
  <2>2. tick # scanned + DayTicks
    <3>1. (scanned + DayTicks) % DayTicks = 0 /\ scanned # scanned + DayTicks
      <4>1. scanned % DayTicks = 0
        BY DEF AlertInv
      <4>2. (scanned + DayTicks) % DayTicks = 0
        BY <1>1, <4>1, NextMultiple
      <4> QED BY <1>1, <4>2
    <3> QED BY <2>1, <3>1
  <2>3. scanned' <= tick' /\ tick' <= scanned' + DayTicks
    BY <1>1, <2>1, <2>2 DEF AlertInv
  <2>4. OverdueIsAlertedOnce'
    BY <2>1 DEF AlertInv, OverdueIsAlertedOnce
  <2> QED BY <2>1, <2>3, <2>4 DEF AlertInv
<1> QED BY <1>2, <1>3, <1>4, <1>5, <1>6, <1>7, <1>8
    DEF PlanNext, TaskInsert, TaskCheck, MilestoneCheck, DeleteTask, DeleteMilestone, DeleteProject,
        planVars

\* ProjectService and MilestoneOverdueScheduler: for any number of requests, any
\* due dates and any length of the day, dependencies join existing tasks of one
\* project, a task's milestone exists, and a milestone is announced by one scan.
THEOREM PlansAlwaysHold == PlanSpec => []PlansHold
<1>1. PlanType /\ DependInv /\ AlertInv => PlansHold
  BY DEF PlanType, TaskRow, DependInv, AlertInv, PlansHold, DependenciesHold, TasksOf
<1> QED BY <1>1, PlanInitHolds, PlanTypeStep, DependStep, AlertStep, PTL DEF PlanSpec

-----------------------------------------------------------------------------
(***************************************************************************)
(* Employment.  A person no request works on is at rest; one that a        *)
(* request works on is at rest but for what the request has in hand.       *)
(***************************************************************************)

-----------------------------------------------------------------------------
(* Employees and their accounts                                            *)

RolePcs == {"clear", "role", "admins", "map", "strip", "grant"}
NeedsRole == RolePcs \cup {"oldAdmins", "oldMap", "account", "password", "user"}
HrPcs == NeedsRole \cup {"balances", "contract", "link", "unaccount", "unbalance", "uncontract",
                         "unhire", "current", "close", "revise"}

HrCalls == [pc : HrPcs, who : People, of : {"hire", "update"}, role : ErpRoles \cup {NoRole},
            paid : BOOLEAN, admins : SUBSET People, current : Nat]
HrIdle == {Free, Done}
HrRows == [status : {"none", "active", "terminated"}, linked : BOOLEAN]

HrType ==
  /\ hr \in [HrRequests -> HrIdle \cup HrCalls]
  /\ \A r \in HrRequests : hr[r].pc \in NeedsRole => hr[r].role \in ErpRoles

EmploymentType ==
  /\ employee \in [People -> HrRows]
  /\ balances \subseteq People /\ account \subseteq People
  /\ contracts \in [People -> Seq({"open", "closed"})]
  /\ realmRoles \in [People -> SUBSET ErpRoles]
  /\ user \in [People -> {"none", "live", "dead"}]
  /\ userRoles \in [People -> SUBSET ErpRoles]
  /\ HrType
  /\ hrFaults \in Nat

OneRole(p) == \E role \in ErpRoles : userRoles[p] = {role} /\ realmRoles[p] = {role}

\* A person no request works on.
AtRest(p) ==
  /\ employee[p] = NoRow => p \notin balances /\ contracts[p] = <<>>
  /\ employee[p].linked => user[p] = "live"
  /\ user[p] = "live" => p \in account /\ OneRole(p)
  /\ user[p] # "live" => realmRoles[p] = {}

\* A person one request works on, which stands at s.
InHand(p, s) ==
  /\ employee[p] # NoRow
  /\ user[p] = "live" => p \in account
  /\ employee[p].linked => user[p] = "live" \/ s.pc \in {"unbalance", "uncontract", "unhire"}
  /\ user[p] = "live" => OneRole(p) \/ s.pc \in RolePcs \cup {"unaccount"}
  /\ user[p] # "live" => realmRoles[p] = {}
  /\ s.pc \in {"password", "user"} => p \in account /\ user[p] # "live"
  /\ s.pc \in RolePcs \cup {"link"} => user[p] = "live"
  /\ s.pc = "role" => userRoles[p] = {}
  /\ s.pc \in {"admins", "map", "strip", "grant"} => userRoles[p] = {s.role}
  /\ s.pc = "grant" => realmRoles[p] \subseteq {s.role}
  /\ s.pc \in {"uncontract", "unhire"} => p \notin balances
  /\ s.pc = "unhire" => contracts[p] = <<>>

PersonInv(p) ==
  \/ Working(p) = {} /\ AtRest(p)
  \/ \E r \in HrRequests : Working(p) = {r} /\ InHand(p, hr[r])

PeopleInv == \A p \in People \ unsettled : PersonInv(p)

IsOpen(p) == \E k \in 1..Len(contracts[p]) : contracts[p][k] = "open"

\* Whoever closed the contract in force is about to open another.
OpenInv ==
  hrFaults = 0 => \A p \in People :
    contracts[p] # <<>> => IsOpen(p) \/ \E r \in Working(p) : HrAt(r, "revise")

EmploymentInv == EmploymentType /\ PeopleInv /\ OpenInv

-----------------------------------------------------------------------------
LEMMA EmploymentInitHolds == EmploymentInit => EmploymentInv
<1> SUFFICES ASSUME EmploymentInit PROVE EmploymentInv
  OBVIOUS
<1>1. \A p \in People : Working(p) = {} /\ employee[p] = NoRow /\ ~employee[p].linked
  BY DEF EmploymentInit, Working, Busy, NoRow
<1>2. EmploymentType
  <2>1. NoRow \in HrRows /\ Free.pc \notin NeedsRole
    BY DEF NoRow, HrRows, Free, NeedsRole, RolePcs
  <2> QED BY <2>1 DEF EmploymentInit, EmploymentType, HrType, HrIdle
<1>3. PeopleInv
  BY <1>1 DEF EmploymentInit, PeopleInv, PersonInv, AtRest
<1>4. OpenInv
  BY DEF EmploymentInit, OpenInv
<1> QED BY <1>2, <1>3, <1>4 DEF EmploymentInv

-----------------------------------------------------------------------------
(* Where a request goes                                                    *)

\* A request that moves carries what it carried.
Carries(s, t) == t.who = s.who /\ t.of = s.of /\ t.role = s.role /\ t.paid = s.paid

LEMMA Moved ==
  ASSUME NEW s \in HrCalls, NEW pc \in HrPcs
  PROVE  LET t == [s EXCEPT !.pc = pc] IN t \in HrCalls /\ t.pc = pc /\ Carries(s, t)
BY DEF HrCalls, Carries

LEMMA AdminsSeen ==
  ASSUME NEW s \in HrCalls, NEW seen \in SUBSET People
  PROVE  LET t == [s EXCEPT !.admins = seen] IN t \in HrCalls /\ t.pc = s.pc /\ Carries(s, t)
BY DEF HrCalls, Carries

LEMMA CurrentFound ==
  ASSUME NEW s \in HrCalls, NEW k \in Nat
  PROVE  LET t == [s EXCEPT !.current = k] IN t \in HrCalls /\ t.pc = s.pc /\ Carries(s, t)
BY DEF HrCalls, Carries

LEMMA RoleGiven ==
  ASSUME NEW s \in HrCalls
  PROVE  LET t == [s EXCEPT !.role = NoRole] IN t \in HrCalls /\ t.pc = s.pc /\ t.who = s.who
BY DEF HrCalls

LEMMA AtWorkIsCall ==
  ASSUME EmploymentType, NEW r \in HrRequests
  PROVE  /\ hr[r].pc \in HrPcs => hr[r] \in HrCalls /\ hr[r].who \in People
         /\ r \in Busy <=> hr[r] \in HrCalls
         /\ Free.pc \notin HrPcs /\ Done.pc \notin HrPcs /\ Free \notin HrCalls /\ Done \notin HrCalls
<1>1. Free.pc \notin HrPcs /\ Done.pc \notin HrPcs
  BY DEF Free, Done, HrPcs, NeedsRole, RolePcs
<1>2. \A s \in HrCalls : s.pc \in HrPcs /\ s.who \in People
  BY DEF HrCalls
<1> QED BY <1>1, <1>2 DEF EmploymentType, HrType, HrIdle, Busy

\* Where a request stands after GoTo.
Went(r, pc) ==
  /\ \A q \in HrRequests : q # r => hr'[q] = hr[q]
  /\ hr' \in [HrRequests -> HrIdle \cup HrCalls]
  /\ IF pc = "done" THEN hr'[r] = Done
     ELSE hr'[r] \in HrCalls /\ hr'[r].pc = pc /\ Carries(hr[r], hr'[r])

LEMMA GoToWent ==
  ASSUME EmploymentType, NEW r \in HrRequests, hr[r] \in HrCalls, NEW pc \in HrPcs \cup {"done"},
         GoTo(r, pc)
  PROVE  Went(r, pc)
<1>1. CASE pc = "done"
  BY <1>1 DEF GoTo, Went, EmploymentType, HrType, HrIdle
<1>2. CASE pc # "done"
  <2>1. hr' = [hr EXCEPT ![r] = [hr[r] EXCEPT !.pc = pc]]
    BY <1>2 DEF GoTo
  <2>2. [hr[r] EXCEPT !.pc = pc] \in HrCalls /\ [hr[r] EXCEPT !.pc = pc].pc = pc
        /\ Carries(hr[r], [hr[r] EXCEPT !.pc = pc])
    BY <1>2, Moved
  <2> QED BY <1>2, <2>1, <2>2 DEF Went, EmploymentType, HrType
<1> QED BY <1>1, <1>2

LEMMA AfterGrantWent ==
  ASSUME EmploymentType, NEW r \in HrRequests, hr[r] \in HrCalls, AfterGrant(r)
  PROVE  /\ \A q \in HrRequests : q # r => hr'[q] = hr[q]
         /\ hr' \in [HrRequests -> HrIdle \cup HrCalls]
         /\ \/ hr'[r] = Done
            \/ hr'[r] \in HrCalls /\ hr'[r].pc \in {"link", "current"} /\ hr'[r].who = hr[r].who
<1>1. CASE hr[r].of = "hire"
  <2>1. hr' = [hr EXCEPT ![r] = [hr[r] EXCEPT !.pc = "link"]]
    BY <1>1 DEF AfterGrant
  <2>2. [hr[r] EXCEPT !.pc = "link"] \in HrCalls /\ [hr[r] EXCEPT !.pc = "link"].pc = "link"
        /\ [hr[r] EXCEPT !.pc = "link"].who = hr[r].who
    BY Moved DEF HrPcs, Carries
  <2> QED BY <2>1, <2>2 DEF EmploymentType, HrType
<1>2. CASE hr[r].of # "hire" /\ hr[r].paid
  <2>1. hr' = [hr EXCEPT ![r] = [hr[r] EXCEPT !.pc = "current", !.role = NoRole]]
    BY <1>2 DEF AfterGrant
  <2> DEFINE s == [hr[r] EXCEPT !.pc = "current"]
             t == [s EXCEPT !.role = NoRole]
  <2>2. s \in HrCalls /\ s.pc = "current" /\ s.who = hr[r].who
    BY Moved DEF HrPcs, Carries
  <2>3. t \in HrCalls /\ t.pc = "current" /\ t.who = hr[r].who
    BY <2>2, RoleGiven
  <2>4. t = [hr[r] EXCEPT !.pc = "current", !.role = NoRole]
    OBVIOUS
  <2> HIDE DEF s, t
  <2> QED BY <2>1, <2>3, <2>4 DEF EmploymentType, HrType
<1>3. CASE hr[r].of # "hire" /\ ~hr[r].paid
  <2>1. hr' = [hr EXCEPT ![r] = Done]
    BY <1>3 DEF AfterGrant
  <2> QED BY <2>1 DEF EmploymentType, HrType, HrIdle
<1> QED BY <1>1, <1>2, <1>3

-----------------------------------------------------------------------------
(* What a step of one request does to the people of others                 *)

\* Roles that another request's mapping leaves as they are, or adds the
\* administrator's to an administrator.
RolesStay(p) ==
  \/ realmRoles'[p] = realmRoles[p]
  \/ realmRoles'[p] = realmRoles[p] \cup {Admin} /\ Admin \in userRoles[p] /\ user[p] = "live"

OthersStay(p) ==
  /\ employee'[p] = employee[p] /\ (p \in balances' <=> p \in balances)
  /\ contracts'[p] = contracts[p] /\ (p \in account' <=> p \in account)
  /\ user'[p] = user[p] /\ userRoles'[p] = userRoles[p]
  /\ RolesStay(p)

LEMMA OneRoleStays ==
  ASSUME NEW p, userRoles'[p] = userRoles[p], RolesStay(p), OneRole(p) PROVE OneRole(p)'
BY DEF OneRole, RolesStay

LEMMA InHandStays ==
  ASSUME NEW p, OthersStay(p), NEW s, InHand(p, s) PROVE InHand(p, s)'
<1>1. OneRole(p) => OneRole(p)'
  BY OneRoleStays DEF OthersStay
<1>2. s.pc = "grant" => realmRoles'[p] \subseteq {s.role}
  BY DEF OthersStay, InHand, RolesStay
<1>3. user'[p] # "live" => realmRoles'[p] = {}
  BY DEF OthersStay, InHand, RolesStay
<1> QED BY <1>1, <1>2, <1>3 DEF OthersStay, InHand

LEMMA AtRestStays ==
  ASSUME NEW p, OthersStay(p), AtRest(p) PROVE AtRest(p)'
<1>1. OneRole(p) => OneRole(p)'
  BY OneRoleStays DEF OthersStay
<1>2. user'[p] # "live" => realmRoles'[p] = {}
  BY DEF OthersStay, AtRest, RolesStay
<1> QED BY <1>1, <1>2 DEF OthersStay, AtRest

LEMMA PersonStays ==
  ASSUME NEW p, OthersStay(p), PersonInv(p),
         \A q \in HrRequests : hr'[q] = hr[q] \/ (q \notin Working(p) /\ q \notin Working(p)')
  PROVE  PersonInv(p)'
<1>1. Working(p)' = Working(p)
  BY DEF Working, Busy
<1>2. \A q \in Working(p) : hr'[q] = hr[q] /\ q \in HrRequests
  BY <1>1 DEF Working, Busy
<1>3. CASE Working(p) = {} /\ AtRest(p)
  BY <1>1, <1>3, AtRestStays DEF PersonInv
<1>4. ASSUME NEW r \in HrRequests, Working(p) = {r}, InHand(p, hr[r]) PROVE PersonInv(p)'
  <2>1. InHand(p, hr[r])'
    <3>1. PICK s : s = hr[r]
      OBVIOUS
    <3>2. InHand(p, s)'
      BY <1>4, <3>1, InHandStays
    <3>3. hr'[r] = s
      BY <1>2, <1>4, <3>1
    <3> QED BY <3>2, <3>3 DEF InHand
  <2> QED BY <1>1, <1>4, <2>1 DEF PersonInv
<1> QED BY <1>3, <1>4 DEF PersonInv

\* A step of a request on the person it works on.
LEMMA StepOn ==
  ASSUME EmploymentType, PeopleInv, NEW r \in HrRequests, NEW p \in People,
         hr[r] \in HrCalls, hr[r].who = p,
         \A q \in HrRequests : q # r => hr'[q] = hr[q],
         hr'[r] = Done \/ (hr'[r] \in HrCalls /\ hr'[r].who = p),
         unsettled \subseteq unsettled',
         \A x \in People \ unsettled' : x # p => OthersStay(x),
         (p \notin unsettled' /\ InHand(p, hr[r])) =>
            IF hr'[r] = Done THEN AtRest(p)' ELSE InHand(p, hr[r])'
  PROVE  PeopleInv'
<1>1. r \in Working(p) /\ \A x \in People : x # p => r \notin Working(x)
  BY AtWorkIsCall DEF Working
<1>2. \A x \in People : x # p => r \notin Working(x)'
  BY DEF Working, Busy
<1>3. ASSUME NEW x \in People \ unsettled', x # p PROVE PersonInv(x)'
  BY <1>1, <1>2, <1>3, PersonStays DEF PeopleInv
<1>4. ASSUME p \notin unsettled' PROVE PersonInv(p)'
  <2>1. PersonInv(p)
    BY <1>4 DEF PeopleInv
  <2>2. Working(p) = {r} /\ InHand(p, hr[r])
    BY <1>1, <2>1 DEF PersonInv
  <2>3. CASE hr'[r] = Done
    <3>1. Working(p)' = {}
      BY <2>2, <2>3 DEF Working, Busy
    <3> QED BY <1>4, <2>2, <2>3, <3>1 DEF PersonInv
  <2>4. CASE hr'[r] # Done
    <3>1. hr'[r] \in HrCalls /\ hr'[r].who = p /\ hr'[r] \notin {Free, Done}
      BY <2>4, AtWorkIsCall
    <3>2. Working(p)' = {r}
      BY <2>2, <3>1 DEF Working, Busy
    <3> QED BY <1>4, <2>2, <2>4, <3>2 DEF PersonInv
  <2> QED BY <2>3, <2>4
<1> QED BY <1>3, <1>4 DEF PeopleInv

\* A step that is no request's.
LEMMA StepAside ==
  ASSUME PeopleInv, unsettled \subseteq unsettled', NEW p \in People,
         \A q \in HrRequests : hr'[q] = hr[q] \/ (hr[q] \in HrIdle /\ hr'[q] \in HrIdle),
         \A x \in People \ unsettled' : x # p => OthersStay(x),
         p \notin unsettled' => (AtRest(p) => AtRest(p)'),
         p \notin unsettled' => \A s : InHand(p, s) => InHand(p, s)'
  PROVE  PeopleInv'
<1>1. \A x \in People, q \in HrRequests :
        hr'[q] = hr[q] \/ (q \notin Working(x) /\ q \notin Working(x)')
  BY DEF Working, Busy, HrIdle
<1>2. ASSUME NEW x \in People \ unsettled', x # p PROVE PersonInv(x)'
  BY <1>1, <1>2, PersonStays DEF PeopleInv
<1>3. ASSUME p \notin unsettled' PROVE PersonInv(p)'
  <2>1. PersonInv(p)
    BY <1>3 DEF PeopleInv
  <2>2. Working(p)' = Working(p) /\ \A q \in Working(p) : hr'[q] = hr[q]
    BY <1>1 DEF Working, Busy
  <2>3. CASE Working(p) = {} /\ AtRest(p)
    BY <1>3, <2>2, <2>3 DEF PersonInv
  <2>4. ASSUME NEW r \in HrRequests, Working(p) = {r}, InHand(p, hr[r]) PROVE PersonInv(p)'
    <3>1. PICK s : s = hr[r]
      OBVIOUS
    <3>2. InHand(p, s)'
      BY <1>3, <2>4, <3>1
    <3>3. hr'[r] = s
      BY <2>2, <2>4, <3>1
    <3>4. InHand(p, hr[r])'
      BY <3>2, <3>3 DEF InHand
    <3> QED BY <2>2, <2>4, <3>4 DEF PersonInv
  <2> QED BY <2>1, <2>3, <2>4 DEF PersonInv
<1> QED BY <1>2, <1>3 DEF PeopleInv

-----------------------------------------------------------------------------
(* Hiring                                                                  *)

LEMMA WentType ==
  ASSUME EmploymentType, NEW r \in HrRequests, hr[r] \in HrCalls, NEW pc, Went(r, pc),
         pc \in NeedsRole => hr[r].role \in ErpRoles
  PROVE  HrType'
<1>1. "done" \notin NeedsRole /\ Done.pc \notin NeedsRole
  BY DEF NeedsRole, RolePcs, Done
<1>2. ASSUME NEW q \in HrRequests, hr'[q].pc \in NeedsRole PROVE hr'[q].role \in ErpRoles
  <2>1. CASE q = r
    BY <1>1, <1>2, <2>1 DEF Went, Carries
  <2>2. CASE q # r
    BY <1>2, <2>2 DEF Went, EmploymentType, HrType
  <2> QED BY <2>1, <2>2
<1> QED BY <1>2 DEF Went, HrType

\* A step of r that goes to pc, and changes at most the state of its person p.
LEMMA StepWent ==
  ASSUME EmploymentType, PeopleInv, NEW r \in HrRequests, hr[r] \in HrCalls,
         NEW p \in People, hr[r].who = p,
         NEW pc \in HrPcs \cup {"done"}, Went(r, pc), unsettled \subseteq unsettled',
         \A x \in People \ unsettled' : x # p => OthersStay(x),
         \A t : p \notin unsettled' /\ InHand(p, hr[r]) /\ t.pc = pc /\ t.role = hr[r].role =>
                  IF pc = "done" THEN AtRest(p)' ELSE InHand(p, t)'
  PROVE  PeopleInv'
<1>1. CASE pc = "done"
  <2>1. hr'[r] = Done
    BY <1>1 DEF Went
  <2>2. p \notin unsettled' /\ InHand(p, hr[r]) => AtRest(p)'
    <3>1. PICK t : t = [pc |-> pc, role |-> hr[r].role]
      OBVIOUS
    <3>2. t.pc = pc /\ t.role = hr[r].role
      BY <3>1
    <3> QED BY <1>1, <3>2
  <2> QED BY <2>1, <2>2, StepOn DEF Went
<1>2. CASE pc # "done"
  <2>1. hr'[r] \in HrCalls /\ hr'[r].pc = pc /\ hr'[r].who = p /\ hr'[r].role = hr[r].role
        /\ hr'[r] # Done
    BY <1>2, AtWorkIsCall DEF Went, Carries
  <2>2. p \notin unsettled' /\ InHand(p, hr[r]) => InHand(p, hr[r])'
    <3>1. PICK t : t = hr'[r]
      OBVIOUS
    <3>2. p \notin unsettled' /\ InHand(p, hr[r]) => InHand(p, t)'
      BY <1>2, <2>1, <3>1
    <3> QED BY <3>1, <3>2 DEF InHand
  <2> QED BY <2>1, <2>2, StepOn DEF Went
<1> QED BY <1>1, <1>2

LEMMA StepTo ==
  ASSUME EmploymentType, PeopleInv, NEW r \in HrRequests, hr[r] \in HrCalls,
         NEW p \in People, hr[r].who = p,
         NEW pc \in HrPcs \cup {"done"}, GoTo(r, pc), unsettled \subseteq unsettled',
         \A x \in People \ unsettled' : x # p => OthersStay(x),
         \A t : p \notin unsettled' /\ InHand(p, hr[r]) /\ t.pc = pc /\ t.role = hr[r].role =>
                  IF pc = "done" THEN AtRest(p)' ELSE InHand(p, t)'
  PROVE  PeopleInv'
BY GoToWent, StepWent

LEMMA SeedBalancesKeeps ==
  ASSUME EmploymentType, PeopleInv, NEW r \in HrRequests, SeedBalances(r)
  PROVE  EmploymentType' /\ PeopleInv'
<1>1. hr[r].pc = "balances" /\ hr[r] \in HrCalls /\ "balances" \in HrPcs
  BY AtWorkIsCall DEF SeedBalances, HrAt, HrPcs
<1>2. PICK p \in People : hr[r].who = p
  BY <1>1 DEF HrCalls
<1>3. PICK pc : /\ pc \in {"contract", "done", "oldAdmins"} /\ GoTo(r, pc)
                /\ pc = "oldAdmins" => hr[r].role # NoRole
  BY <1>1 DEF SeedBalances, AfterContract
<1>4. pc \in HrPcs \cup {"done"}
  BY <1>3 DEF HrPcs, NeedsRole
<1>5. /\ balances' = balances \cup {p}
      /\ UNCHANGED <<employee, contracts, account, realmRoles, user, userRoles, hrFaults, unsettled>>
  BY <1>2 DEF SeedBalances
<1>6. pc \in NeedsRole => hr[r].role \in ErpRoles
  BY <1>1, <1>3 DEF NeedsRole, RolePcs, HrCalls
<1>7. HrType'
  BY <1>1, <1>4, <1>3, <1>6, GoToWent, WentType
<1>8. \A x \in People : x # p => OthersStay(x)
  BY <1>5 DEF OthersStay, RolesStay
<1>9. \A t : InHand(p, hr[r]) /\ t.pc = pc /\ t.role = hr[r].role =>
              IF pc = "done" THEN AtRest(p)' ELSE InHand(p, t)'
  BY <1>1, <1>3, <1>5 DEF InHand, AtRest, OneRole, RolePcs
<1> QED BY <1>1, <1>2, <1>3, <1>4, <1>5, <1>7, <1>8, <1>9, StepTo DEF EmploymentType

LEMMA FirstContractKeeps ==
  ASSUME EmploymentType, PeopleInv, NEW r \in HrRequests, FirstContract(r)
  PROVE  EmploymentType' /\ PeopleInv'
<1>1. hr[r].pc = "contract" /\ hr[r] \in HrCalls /\ "contract" \in HrPcs
  BY AtWorkIsCall DEF FirstContract, HrAt, HrPcs, NeedsRole, RolePcs
<1>2. PICK p \in People : hr[r].who = p
  BY <1>1 DEF HrCalls
<1>3. PICK pc : /\ pc \in {"done", "oldAdmins"} /\ GoTo(r, pc)
                /\ pc = "oldAdmins" => hr[r].role # NoRole
  BY <1>1, <1>2 DEF FirstContract, AfterContract
<1>4. pc \in HrPcs \cup {"done"}
  BY <1>3 DEF HrPcs, NeedsRole, RolePcs
<1>5. /\ contracts' = [contracts EXCEPT ![p] = Append(@, "open")]
      /\ UNCHANGED <<employee, balances, account, realmRoles, user, userRoles, hrFaults, unsettled>>
  BY <1>2 DEF FirstContract
<1>6. pc \in NeedsRole => hr[r].role \in ErpRoles
  BY <1>1, <1>3 DEF EmploymentType, HrType, NeedsRole, RolePcs, HrCalls
<1>7. HrType'
  BY <1>1, <1>3, <1>4, <1>6, GoToWent, WentType
<1>8. \A x \in People : x # p => OthersStay(x)
  BY <1>3, <1>5 DEF OthersStay, RolesStay, EmploymentType
<1>9. \A t : InHand(p, hr[r]) /\ t.pc = pc /\ t.role = hr[r].role =>
              IF pc = "done" THEN AtRest(p)' ELSE InHand(p, t)'
  BY <1>1, <1>3, <1>5, <1>6 DEF InHand, AtRest, OneRole, RolePcs, NeedsRole, EmploymentType
<1>10. contracts' \in [People -> Seq({"open", "closed"})]
  <2>1. contracts[p] \in Seq({"open", "closed"})
    BY DEF EmploymentType
  <2>2. Append(contracts[p], "open") \in Seq({"open", "closed"})
    BY <2>1
  <2> QED BY <1>5, <2>2 DEF EmploymentType
<1> QED BY <1>1, <1>2, <1>3, <1>4, <1>5, <1>7, <1>8, <1>9, <1>10, StepTo DEF EmploymentType

\* Two fields of a request change in one step.
LEMMA AdminsWent ==
  ASSUME EmploymentType, NEW r \in HrRequests, hr[r] \in HrCalls, NEW pc \in HrPcs,
         NEW seen \in SUBSET People, hr' = [hr EXCEPT ![r].pc = pc, ![r].admins = seen]
  PROVE  Went(r, pc)
<1>1. PICK s : s = [hr[r] EXCEPT !.pc = pc]
  OBVIOUS
<1>2. s \in HrCalls /\ s.pc = pc /\ Carries(hr[r], s)
  BY <1>1, Moved
<1>3. PICK t : t = [s EXCEPT !.admins = seen]
  OBVIOUS
<1>4. t \in HrCalls /\ t.pc = pc /\ Carries(hr[r], t)
  BY <1>2, <1>3, AdminsSeen DEF Carries
<1>5. hr' = [hr EXCEPT ![r] = t]
  BY <1>1, <1>3 DEF EmploymentType, HrType
<1>6. pc # "done"
  BY DEF HrPcs, NeedsRole, RolePcs
<1> QED BY <1>4, <1>5, <1>6 DEF Went, EmploymentType, HrType

LEMMA ReadAdminsKeeps ==
  ASSUME EmploymentType, PeopleInv, NEW r \in HrRequests, ReadAdmins(r)
  PROVE  EmploymentType' /\ PeopleInv'
<1>1. hr[r].pc \in {"oldAdmins", "admins"} /\ hr[r] \in HrCalls
  BY AtWorkIsCall DEF ReadAdmins, HrPcs, NeedsRole, RolePcs
<1>2. PICK p \in People : hr[r].who = p
  BY <1>1 DEF HrCalls
<1>3. PICK pc : pc = IF hr[r].pc = "admins" THEN "map" ELSE "oldMap"
  OBVIOUS
<1>4. pc \in HrPcs
  BY <1>3 DEF HrPcs, NeedsRole, RolePcs
<1>5. PICK seen \in SUBSET People :
        seen = {x \in People : user[x] # "none" /\ Admin \in userRoles[x]}
  OBVIOUS
<1>6. hr' = [hr EXCEPT ![r].pc = pc, ![r].admins = seen]
  BY <1>3, <1>5 DEF ReadAdmins
<1>7. Went(r, pc)
  BY <1>1, <1>4, <1>6, AdminsWent
<1>8. UNCHANGED <<employee, balances, contracts, account, realmRoles, user, userRoles, hrFaults, unsettled>>
  BY DEF ReadAdmins
<1>9. hr[r].role \in ErpRoles
  BY <1>1 DEF EmploymentType, HrType, NeedsRole, RolePcs
<1>10. HrType'
  BY <1>1, <1>7, <1>9, WentType
<1>11. \A x \in People : x # p => OthersStay(x)
  BY <1>8 DEF OthersStay, RolesStay
<1>12. \A t : InHand(p, hr[r]) /\ t.pc = pc /\ t.role = hr[r].role =>
              IF pc = "done" THEN AtRest(p)' ELSE InHand(p, t)'
  BY <1>1, <1>3, <1>8 DEF InHand, OneRole, RolePcs
<1> QED BY <1>1, <1>2, <1>4, <1>7, <1>8, <1>10, <1>11, <1>12, StepWent DEF EmploymentType

LEMMA MapAdminsKeeps ==
  ASSUME EmploymentType, PeopleInv, NEW r \in HrRequests, MapAdmins(r)
  PROVE  EmploymentType' /\ PeopleInv'
<1>1. hr[r].pc \in {"oldMap", "map"} /\ hr[r] \in HrCalls
  BY AtWorkIsCall DEF MapAdmins, HrPcs, NeedsRole, RolePcs
<1>2. PICK p \in People : hr[r].who = p
  BY <1>1 DEF HrCalls
<1>3. PICK pc : pc = IF hr[r].pc = "map" THEN "strip" ELSE "account"
  OBVIOUS
<1>4. pc \in HrPcs
  BY <1>3 DEF HrPcs, NeedsRole, RolePcs
<1>5. hr' = [hr EXCEPT ![r].pc = pc, ![r].admins = {}]
  BY <1>3 DEF MapAdmins
<1>6. Went(r, pc)
  <2>1. {} \in SUBSET People
    OBVIOUS
  <2> QED BY <1>1, <1>4, <1>5, <2>1, AdminsWent
<1>7. UNCHANGED <<employee, balances, contracts, account, user, userRoles, hrFaults>>
  BY DEF MapAdmins
<1>8. unsettled' = unsettled \cup {x \in hr[r].admins : Admin \notin userRoles[x]}
  BY DEF MapAdmins
<1>9. realmRoles' \in [People -> SUBSET ErpRoles]
  BY EmploymentAssumption DEF MapAdmins, EmploymentType
<1>10. \A x \in People \ unsettled' : OthersStay(x)
  <2>1. ASSUME NEW x \in People \ unsettled' PROVE RolesStay(x)
    <3>1. CASE x \in hr[r].admins /\ user[x] = "live"
      BY <1>8, <2>1, <3>1 DEF MapAdmins, RolesStay
    <3>2. CASE ~(x \in hr[r].admins /\ user[x] = "live")
      BY <2>1, <3>2 DEF MapAdmins, RolesStay, EmploymentType
    <3> QED BY <3>1, <3>2
  <2> QED BY <1>7, <2>1 DEF OthersStay
<1>11. hr[r].role \in ErpRoles
  BY <1>1 DEF EmploymentType, HrType, NeedsRole, RolePcs
<1>12. HrType'
  BY <1>1, <1>6, <1>11, WentType
<1>13. \A t : p \notin unsettled' /\ InHand(p, hr[r]) /\ t.pc = pc /\ t.role = hr[r].role =>
              IF pc = "done" THEN AtRest(p)' ELSE InHand(p, t)'
  <2> SUFFICES ASSUME NEW t, p \notin unsettled', InHand(p, hr[r]), t.pc = pc, t.role = hr[r].role
               PROVE  InHand(p, t)'
    BY <1>3
  <2>1. OneRole(p) => OneRole(p)'
    BY <1>10, OneRoleStays DEF OthersStay
  <2>2. user'[p] # "live" => realmRoles'[p] = {}
    BY <1>7 DEF MapAdmins, InHand
  <2> QED BY <1>1, <1>3, <1>7, <2>1, <2>2 DEF InHand, RolePcs
<1> QED BY <1>1, <1>2, <1>4, <1>6, <1>7, <1>8, <1>9, <1>10, <1>12, <1>13, StepWent DEF EmploymentType

LEMMA CreateAccountKeeps ==
  ASSUME EmploymentType, PeopleInv, NEW r \in HrRequests, CreateAccount(r)
  PROVE  EmploymentType' /\ PeopleInv'
<1>1. hr[r].pc = "account" /\ hr[r] \in HrCalls /\ "account" \in HrPcs
  BY AtWorkIsCall DEF CreateAccount, HrAt, HrPcs, NeedsRole, RolePcs
<1>2. PICK p \in People : hr[r].who = p
  BY <1>1 DEF HrCalls
<1>3. PICK pc : /\ pc \in {"unbalance", "password"} /\ GoTo(r, pc)
                /\ IF p \in account THEN pc = "unbalance" /\ account' = account
                   ELSE pc = "password" /\ account' = account \cup {p}
  BY <1>1, <1>2 DEF CreateAccount
<1>4. pc \in HrPcs \cup {"done"}
  BY <1>3 DEF HrPcs, NeedsRole, RolePcs
<1>5. UNCHANGED <<employee, balances, contracts, realmRoles, user, userRoles, hrFaults, unsettled>>
  BY <1>2 DEF CreateAccount
<1>6. pc \in NeedsRole => hr[r].role \in ErpRoles
  BY <1>1, <1>3 DEF EmploymentType, HrType, NeedsRole, RolePcs, HrCalls
<1>7. HrType'
  BY <1>1, <1>3, <1>4, <1>6, GoToWent, WentType
<1>8. \A x \in People : x # p => OthersStay(x)
  BY <1>3, <1>5 DEF OthersStay, RolesStay, EmploymentType
<1>9. \A t : InHand(p, hr[r]) /\ t.pc = pc /\ t.role = hr[r].role =>
              IF pc = "done" THEN AtRest(p)' ELSE InHand(p, t)'
  BY <1>1, <1>3, <1>5, <1>6 DEF InHand, AtRest, OneRole, RolePcs, NeedsRole, EmploymentType
<1> QED BY <1>1, <1>2, <1>3, <1>4, <1>5, <1>7, <1>8, <1>9, StepTo DEF EmploymentType

LEMMA SetPasswordKeeps ==
  ASSUME EmploymentType, PeopleInv, NEW r \in HrRequests, SetPassword(r)
  PROVE  EmploymentType' /\ PeopleInv'
<1>1. hr[r].pc = "password" /\ hr[r] \in HrCalls /\ "password" \in HrPcs
  BY AtWorkIsCall DEF SetPassword, HrAt, HrPcs, NeedsRole, RolePcs
<1>2. PICK p \in People : hr[r].who = p
  BY <1>1 DEF HrCalls
<1>3. GoTo(r, "user")
  BY DEF SetPassword
<1>4. "user" \in HrPcs \cup {"done"}
  BY DEF HrPcs, NeedsRole, RolePcs
<1>5. UNCHANGED <<employee, balances, contracts, account, realmRoles, user, userRoles, hrFaults, unsettled>>
  BY <1>2 DEF SetPassword
<1>6. "user" \in NeedsRole => hr[r].role \in ErpRoles
  BY <1>1, <1>3 DEF EmploymentType, HrType, NeedsRole, RolePcs, HrCalls
<1>7. HrType'
  BY <1>1, <1>3, <1>4, <1>6, GoToWent, WentType
<1>8. \A x \in People : x # p => OthersStay(x)
  BY <1>3, <1>5 DEF OthersStay, RolesStay, EmploymentType
<1>9. \A t : InHand(p, hr[r]) /\ t.pc = "user" /\ t.role = hr[r].role =>
              IF "user" = "done" THEN AtRest(p)' ELSE InHand(p, t)'
  BY <1>1, <1>3, <1>5, <1>6 DEF InHand, AtRest, OneRole, RolePcs, NeedsRole, EmploymentType
<1> QED BY <1>1, <1>2, <1>3, <1>4, <1>5, <1>7, <1>8, <1>9, StepTo DEF EmploymentType

LEMMA CreateUserKeeps ==
  ASSUME EmploymentType, PeopleInv, NEW r \in HrRequests, CreateUser(r)
  PROVE  EmploymentType' /\ PeopleInv'
<1>1. hr[r].pc = "user" /\ hr[r] \in HrCalls /\ "user" \in HrPcs
  BY AtWorkIsCall DEF CreateUser, HrAt, HrPcs, NeedsRole, RolePcs
<1>2. PICK p \in People : hr[r].who = p
  BY <1>1 DEF HrCalls
<1>3. PICK pc : /\ pc \in {"unaccount", "clear"} /\ GoTo(r, pc)
                /\ IF user[p] # "none" THEN pc = "unaccount" /\ user' = user
                   ELSE pc = "clear" /\ user' = [user EXCEPT ![p] = "live"]
  BY <1>1, <1>2 DEF CreateUser
<1>4. pc \in HrPcs \cup {"done"}
  BY <1>3 DEF HrPcs, NeedsRole, RolePcs
<1>5. UNCHANGED <<employee, balances, contracts, account, realmRoles, userRoles, hrFaults, unsettled>>
  BY <1>2 DEF CreateUser
<1>6. pc \in NeedsRole => hr[r].role \in ErpRoles
  BY <1>1, <1>3 DEF EmploymentType, HrType, NeedsRole, RolePcs, HrCalls
<1>7. HrType'
  BY <1>1, <1>3, <1>4, <1>6, GoToWent, WentType
<1>8. \A x \in People : x # p => OthersStay(x)
  BY <1>3, <1>5 DEF OthersStay, RolesStay, EmploymentType
<1>9. \A t : InHand(p, hr[r]) /\ t.pc = pc /\ t.role = hr[r].role =>
              IF pc = "done" THEN AtRest(p)' ELSE InHand(p, t)'
  BY <1>1, <1>3, <1>5, <1>6 DEF InHand, AtRest, OneRole, RolePcs, NeedsRole, EmploymentType
<1> QED BY <1>1, <1>2, <1>3, <1>4, <1>5, <1>7, <1>8, <1>9, StepTo DEF EmploymentType

LEMMA LinkEmployeeKeeps ==
  ASSUME EmploymentType, PeopleInv, NEW r \in HrRequests, LinkEmployee(r)
  PROVE  EmploymentType' /\ PeopleInv'
<1>1. hr[r].pc = "link" /\ hr[r] \in HrCalls /\ "link" \in HrPcs
  BY AtWorkIsCall DEF LinkEmployee, HrAt, HrPcs, NeedsRole, RolePcs
<1>2. PICK p \in People : hr[r].who = p
  BY <1>1 DEF HrCalls
<1>3. GoTo(r, "done")
  BY DEF LinkEmployee
<1>4. "done" \in HrPcs \cup {"done"}
  BY DEF HrPcs, NeedsRole, RolePcs
<1>5. /\ employee' = [employee EXCEPT ![p].linked = TRUE]
      /\ UNCHANGED <<balances, contracts, account, realmRoles, user, userRoles, hrFaults, unsettled>>
  BY <1>2 DEF LinkEmployee
<1>6. "done" \in NeedsRole => hr[r].role \in ErpRoles
  BY <1>1, <1>3 DEF EmploymentType, HrType, NeedsRole, RolePcs, HrCalls
<1>7. HrType'
  BY <1>1, <1>3, <1>4, <1>6, GoToWent, WentType
<1>8. \A x \in People : x # p => OthersStay(x)
  BY <1>3, <1>5 DEF OthersStay, RolesStay, EmploymentType
<1>9. \A t : InHand(p, hr[r]) /\ t.pc = "done" /\ t.role = hr[r].role =>
              IF "done" = "done" THEN AtRest(p)' ELSE InHand(p, t)'
  <2>1. employee'[p].linked = TRUE /\ NoRow.linked = FALSE
    BY <1>5 DEF EmploymentType, HrRows, NoRow
  <2>2. employee'[p] # NoRow
    BY <2>1, Zenon
  <2>3. InHand(p, hr[r]) => user[p] = "live" /\ p \in account /\ OneRole(p)
    BY <1>1 DEF InHand, RolePcs
  <2>4. OneRole(p)' = OneRole(p)
    BY <1>5 DEF OneRole
  <2> QED BY <1>5, <2>2, <2>3, <2>4 DEF AtRest
<1>10. employee' \in [People -> HrRows]
  <2>1. [employee[p] EXCEPT !.linked = TRUE] \in HrRows
    BY DEF EmploymentType, HrRows
  <2> QED BY <1>5, <2>1 DEF EmploymentType
<1> QED BY <1>1, <1>2, <1>3, <1>4, <1>5, <1>7, <1>8, <1>9, <1>10, StepTo DEF EmploymentType

-----------------------------------------------------------------------------
(* Roles                                                                   *)

LEMMA ClearRolesKeeps ==
  ASSUME EmploymentType, PeopleInv, NEW r \in HrRequests, ClearRoles(r)
  PROVE  EmploymentType' /\ PeopleInv'
<1>1. hr[r].pc = "clear" /\ hr[r] \in HrCalls /\ "clear" \in HrPcs
  BY AtWorkIsCall DEF ClearRoles, HrAt, HrPcs, NeedsRole, RolePcs
<1>2. PICK p \in People : hr[r].who = p
  BY <1>1 DEF HrCalls
<1>3. GoTo(r, "role")
  BY DEF ClearRoles
<1>4. "role" \in HrPcs \cup {"done"}
  BY DEF HrPcs, NeedsRole, RolePcs
<1>5. /\ userRoles' = [userRoles EXCEPT ![p] = {}]
      /\ UNCHANGED <<employee, balances, contracts, account, realmRoles, user, hrFaults, unsettled>>
  BY <1>2 DEF ClearRoles
<1>6. "role" \in NeedsRole => hr[r].role \in ErpRoles
  BY <1>1, <1>3 DEF EmploymentType, HrType, NeedsRole, RolePcs, HrCalls
<1>7. HrType'
  BY <1>1, <1>3, <1>4, <1>6, GoToWent, WentType
<1>8. \A x \in People : x # p => OthersStay(x)
  BY <1>3, <1>5 DEF OthersStay, RolesStay, EmploymentType
<1>9. \A t : InHand(p, hr[r]) /\ t.pc = "role" /\ t.role = hr[r].role =>
              IF "role" = "done" THEN AtRest(p)' ELSE InHand(p, t)'
  BY <1>1, <1>3, <1>5, <1>6 DEF InHand, AtRest, OneRole, RolePcs, NeedsRole, EmploymentType
<1> QED BY <1>1, <1>2, <1>3, <1>4, <1>5, <1>7, <1>8, <1>9, StepTo DEF EmploymentType

LEMMA AddRoleKeeps ==
  ASSUME EmploymentType, PeopleInv, NEW r \in HrRequests, AddRole(r)
  PROVE  EmploymentType' /\ PeopleInv'
<1>1. hr[r].pc = "role" /\ hr[r] \in HrCalls /\ "role" \in HrPcs
  BY AtWorkIsCall DEF AddRole, HrAt, HrPcs, NeedsRole, RolePcs
<1>2. PICK p \in People : hr[r].who = p
  BY <1>1 DEF HrCalls
<1>3. GoTo(r, "admins")
  BY DEF AddRole
<1>4. "admins" \in HrPcs \cup {"done"}
  BY DEF HrPcs, NeedsRole, RolePcs
<1>5. /\ userRoles' = [userRoles EXCEPT ![p] = @ \cup {hr[r].role}]
      /\ UNCHANGED <<employee, balances, contracts, account, realmRoles, user, hrFaults, unsettled>>
  BY <1>2 DEF AddRole
<1>6. "admins" \in NeedsRole => hr[r].role \in ErpRoles
  BY <1>1, <1>3 DEF EmploymentType, HrType, NeedsRole, RolePcs, HrCalls
<1>7. HrType'
  BY <1>1, <1>3, <1>4, <1>6, GoToWent, WentType
<1>8. \A x \in People : x # p => OthersStay(x)
  BY <1>3, <1>5 DEF OthersStay, RolesStay, EmploymentType
<1>9. \A t : InHand(p, hr[r]) /\ t.pc = "admins" /\ t.role = hr[r].role =>
              IF "admins" = "done" THEN AtRest(p)' ELSE InHand(p, t)'
  BY <1>1, <1>3, <1>5, <1>6 DEF InHand, AtRest, OneRole, RolePcs, NeedsRole, EmploymentType
<1>10. userRoles' \in [People -> SUBSET ErpRoles]
  <2>1. hr[r].role \in ErpRoles
    BY <1>6 DEF NeedsRole, RolePcs
  <2> QED BY <1>5, <2>1 DEF EmploymentType
<1> QED BY <1>1, <1>2, <1>3, <1>4, <1>5, <1>7, <1>8, <1>9, <1>10, StepTo DEF EmploymentType

LEMMA StripRolesKeeps ==
  ASSUME EmploymentType, PeopleInv, NEW r \in HrRequests, StripRoles(r)
  PROVE  EmploymentType' /\ PeopleInv'
<1>1. hr[r].pc = "strip" /\ hr[r] \in HrCalls /\ "strip" \in HrPcs
  BY AtWorkIsCall DEF StripRoles, HrAt, HrPcs, NeedsRole, RolePcs
<1>2. PICK p \in People : hr[r].who = p
  BY <1>1 DEF HrCalls
<1>3. GoTo(r, "grant")
  BY DEF StripRoles
<1>4. "grant" \in HrPcs \cup {"done"}
  BY DEF HrPcs, NeedsRole, RolePcs
<1>5. /\ realmRoles' = [realmRoles EXCEPT ![p] = @ \cap {hr[r].role}]
      /\ UNCHANGED <<employee, balances, contracts, account, user, userRoles, hrFaults, unsettled>>
  BY <1>2 DEF StripRoles
<1>6. "grant" \in NeedsRole => hr[r].role \in ErpRoles
  BY <1>1, <1>3 DEF EmploymentType, HrType, NeedsRole, RolePcs, HrCalls
<1>7. HrType'
  BY <1>1, <1>3, <1>4, <1>6, GoToWent, WentType
<1>8. \A x \in People : x # p => OthersStay(x)
  BY <1>3, <1>5 DEF OthersStay, RolesStay, EmploymentType
<1>9. \A t : InHand(p, hr[r]) /\ t.pc = "grant" /\ t.role = hr[r].role =>
              IF "grant" = "done" THEN AtRest(p)' ELSE InHand(p, t)'
  BY <1>1, <1>3, <1>5, <1>6 DEF InHand, AtRest, OneRole, RolePcs, NeedsRole, EmploymentType
<1> QED BY <1>1, <1>2, <1>3, <1>4, <1>5, <1>7, <1>8, <1>9, StepTo DEF EmploymentType

LEMMA GrantRoleKeeps ==
  ASSUME EmploymentType, PeopleInv, NEW r \in HrRequests, GrantRole(r)
  PROVE  EmploymentType' /\ PeopleInv'
<1>1. hr[r].pc = "grant" /\ hr[r] \in HrCalls
  BY AtWorkIsCall DEF GrantRole, HrAt, HrPcs, NeedsRole, RolePcs
<1>2. PICK p \in People : hr[r].who = p
  BY <1>1 DEF HrCalls
<1>3. PICK role \in ErpRoles : hr[r].role = role
  BY <1>1 DEF EmploymentType, HrType, NeedsRole, RolePcs
<1>4. /\ realmRoles' = [realmRoles EXCEPT ![p] = @ \cup IF user[p] = "live" THEN {role} ELSE {}]
      /\ AfterGrant(r)
      /\ UNCHANGED <<employee, balances, contracts, account, user, userRoles, hrFaults, unsettled>>
  BY <1>2, <1>3 DEF GrantRole
<1>5. /\ \A q \in HrRequests : q # r => hr'[q] = hr[q]
      /\ hr' \in [HrRequests -> HrIdle \cup HrCalls]
      /\ hr'[r] = Done \/ (hr'[r] \in HrCalls /\ hr'[r].pc \in {"link", "current"} /\ hr'[r].who = p)
  BY <1>1, <1>2, <1>4, AfterGrantWent
<1>6. HrType'
  <2>1. Done.pc \notin NeedsRole /\ "link" \notin NeedsRole /\ "current" \notin NeedsRole
    BY DEF Done, NeedsRole, RolePcs
  <2>2. hr'[r].pc \notin NeedsRole
    BY <1>5, <2>1
  <2> QED BY <1>5, <2>2 DEF EmploymentType, HrType
<1>7. realmRoles' \in [People -> SUBSET ErpRoles]
  BY <1>4 DEF EmploymentType
<1>8. \A x \in People : x # p => OthersStay(x)
  BY <1>4 DEF OthersStay, RolesStay, EmploymentType
<1>9. InHand(p, hr[r]) => user[p] = "live" /\ OneRole(p)'
  <2> SUFFICES ASSUME InHand(p, hr[r]) PROVE user[p] = "live" /\ OneRole(p)'
    OBVIOUS
  <2>1. user[p] = "live" /\ userRoles[p] = {role} /\ realmRoles[p] \subseteq {role}
    BY <1>1, <1>3 DEF InHand, RolePcs
  <2>2. realmRoles'[p] = {role}
    BY <1>4, <2>1 DEF EmploymentType
  <2> QED BY <1>4, <2>1, <2>2 DEF OneRole
<1>10. InHand(p, hr[r]) => IF hr'[r] = Done THEN AtRest(p)' ELSE InHand(p, hr[r])'
  <2> SUFFICES ASSUME InHand(p, hr[r])
               PROVE  IF hr'[r] = Done THEN AtRest(p)' ELSE InHand(p, hr[r])'
    OBVIOUS
  <2>1. user[p] = "live" /\ p \in account /\ employee[p] # NoRow /\ OneRole(p)'
    BY <1>9 DEF InHand
  <2>2. AtRest(p)'
    BY <1>4, <2>1 DEF AtRest
  <2>3. CASE hr'[r] # Done
    <3>1. PICK t : t = hr'[r]
      OBVIOUS
    <3>2. t.pc \in {"link", "current"}
      BY <1>5, <2>3, <3>1
    <3>3. InHand(p, t)'
      BY <1>4, <2>1, <3>2 DEF InHand, RolePcs
    <3> QED BY <2>3, <3>1, <3>3 DEF InHand
  <2> QED BY <2>2, <2>3
<1> QED BY <1>1, <1>2, <1>4, <1>5, <1>6, <1>7, <1>8, <1>10, StepOn DEF EmploymentType

-----------------------------------------------------------------------------
(* Contracts                                                               *)

LEMMA ReviseContractKeeps ==
  ASSUME EmploymentType, PeopleInv, NEW r \in HrRequests, ReviseContract(r)
  PROVE  EmploymentType' /\ PeopleInv'
<1>1. hr[r].pc = "revise" /\ hr[r] \in HrCalls /\ "revise" \in HrPcs
  BY AtWorkIsCall DEF ReviseContract, HrAt, HrPcs, NeedsRole, RolePcs
<1>2. PICK p \in People : hr[r].who = p
  BY <1>1 DEF HrCalls
<1>3. GoTo(r, "done")
  BY DEF ReviseContract
<1>4. "done" \in HrPcs \cup {"done"}
  BY DEF HrPcs, NeedsRole, RolePcs
<1>5. /\ contracts' = [contracts EXCEPT ![p] = Append(@, "open")]
      /\ UNCHANGED <<employee, balances, account, realmRoles, user, userRoles, hrFaults, unsettled>>
  BY <1>2 DEF ReviseContract
<1>6. "done" \in NeedsRole => hr[r].role \in ErpRoles
  BY <1>1, <1>3 DEF EmploymentType, HrType, NeedsRole, RolePcs, HrCalls
<1>7. HrType'
  BY <1>1, <1>3, <1>4, <1>6, GoToWent, WentType
<1>8. \A x \in People : x # p => OthersStay(x)
  BY <1>3, <1>5 DEF OthersStay, RolesStay, EmploymentType
<1>9. \A t : InHand(p, hr[r]) /\ t.pc = "done" /\ t.role = hr[r].role =>
              IF "done" = "done" THEN AtRest(p)' ELSE InHand(p, t)'
  BY <1>1, <1>3, <1>5, <1>6 DEF InHand, AtRest, OneRole, RolePcs, NeedsRole, EmploymentType
<1>10. contracts' \in [People -> Seq({"open", "closed"})]
  <2>1. contracts[p] \in Seq({"open", "closed"})
    BY DEF EmploymentType
  <2>2. Append(contracts[p], "open") \in Seq({"open", "closed"})
    BY <2>1
  <2> QED BY <1>5, <2>2 DEF EmploymentType
<1> QED BY <1>1, <1>2, <1>3, <1>4, <1>5, <1>7, <1>8, <1>9, <1>10, StepTo DEF EmploymentType

LEMMA ChangedInPlace ==
  ASSUME NEW S, NEW s \in Seq(S), NEW k, NEW x \in S PROVE [s EXCEPT ![k] = x] \in Seq(S)
<1>1. CASE k \in 1..Len(s)
  BY <1>1, ExceptSeq
<1>2. CASE k \notin 1..Len(s)
  <2>1. s \in [1..Len(s) -> S]
    BY LenProperties
  <2>2. [s EXCEPT ![k] = x] = s
    BY <1>2, <2>1
  <2> QED BY <2>2
<1> QED BY <1>1, <1>2

LEMMA CloseContractKeeps ==
  ASSUME EmploymentType, PeopleInv, NEW r \in HrRequests, CloseContract(r)
  PROVE  EmploymentType' /\ PeopleInv'
<1>1. hr[r].pc = "close" /\ hr[r] \in HrCalls /\ "close" \in HrPcs
  BY AtWorkIsCall DEF CloseContract, HrAt, HrPcs, NeedsRole, RolePcs
<1>2. PICK p \in People : hr[r].who = p
  BY <1>1 DEF HrCalls
<1>3. GoTo(r, "revise")
  BY DEF CloseContract
<1>4. "revise" \in HrPcs \cup {"done"}
  BY DEF HrPcs, NeedsRole, RolePcs
<1>5. /\ contracts' = [contracts EXCEPT ![p][hr[r].current] = "closed"]
      /\ UNCHANGED <<employee, balances, account, realmRoles, user, userRoles, hrFaults, unsettled>>
  BY <1>2 DEF CloseContract
<1>6. "revise" \in NeedsRole => hr[r].role \in ErpRoles
  BY <1>1, <1>3 DEF EmploymentType, HrType, NeedsRole, RolePcs, HrCalls
<1>7. HrType'
  BY <1>1, <1>3, <1>4, <1>6, GoToWent, WentType
<1>8. \A x \in People : x # p => OthersStay(x)
  BY <1>3, <1>5 DEF OthersStay, RolesStay, EmploymentType
<1>9. \A t : InHand(p, hr[r]) /\ t.pc = "revise" /\ t.role = hr[r].role =>
              IF "revise" = "done" THEN AtRest(p)' ELSE InHand(p, t)'
  BY <1>1, <1>3, <1>5, <1>6 DEF InHand, AtRest, OneRole, RolePcs, NeedsRole, EmploymentType
<1>10. contracts' \in [People -> Seq({"open", "closed"})]
  <2>1. contracts[p] \in Seq({"open", "closed"})
    BY DEF EmploymentType
  <2>2. [contracts[p] EXCEPT ![hr[r].current] = "closed"] \in Seq({"open", "closed"})
    BY <2>1, ChangedInPlace
  <2> QED BY <1>5, <2>2 DEF EmploymentType
<1> QED BY <1>1, <1>2, <1>3, <1>4, <1>5, <1>7, <1>8, <1>9, <1>10, StepTo DEF EmploymentType

-----------------------------------------------------------------------------
(* Compensation                                                            *)

LEMMA UnaccountKeeps ==
  ASSUME EmploymentType, PeopleInv, NEW r \in HrRequests, Unaccount(r)
  PROVE  EmploymentType' /\ PeopleInv'
<1>1. hr[r].pc = "unaccount" /\ hr[r] \in HrCalls /\ "unaccount" \in HrPcs
  BY AtWorkIsCall DEF Unaccount, HrAt, HrPcs, NeedsRole, RolePcs
<1>2. PICK p \in People : hr[r].who = p
  BY <1>1 DEF HrCalls
<1>3. GoTo(r, "unbalance")
  BY DEF Unaccount
<1>4. "unbalance" \in HrPcs \cup {"done"}
  BY DEF HrPcs, NeedsRole, RolePcs
<1>5. /\ account' = account \ {p}
      /\ realmRoles' = [realmRoles EXCEPT ![p] = {}]
      /\ user' = [user EXCEPT ![p] = IF @ = "live" THEN "dead" ELSE @]
      /\ UNCHANGED <<employee, balances, contracts, userRoles, hrFaults, unsettled>>
  BY <1>2 DEF Unaccount
<1>6. "unbalance" \in NeedsRole => hr[r].role \in ErpRoles
  BY <1>1, <1>3 DEF EmploymentType, HrType, NeedsRole, RolePcs, HrCalls
<1>7. HrType'
  BY <1>1, <1>3, <1>4, <1>6, GoToWent, WentType
<1>8. \A x \in People : x # p => OthersStay(x)
  BY <1>3, <1>5 DEF OthersStay, RolesStay, EmploymentType
<1>9. \A t : InHand(p, hr[r]) /\ t.pc = "unbalance" /\ t.role = hr[r].role =>
              IF "unbalance" = "done" THEN AtRest(p)' ELSE InHand(p, t)'
  BY <1>1, <1>3, <1>5, <1>6 DEF InHand, AtRest, OneRole, RolePcs, NeedsRole, EmploymentType
<1> QED BY <1>1, <1>2, <1>3, <1>4, <1>5, <1>7, <1>8, <1>9, StepTo DEF EmploymentType

LEMMA UnbalanceKeeps ==
  ASSUME EmploymentType, PeopleInv, NEW r \in HrRequests, Unbalance(r)
  PROVE  EmploymentType' /\ PeopleInv'
<1>1. hr[r].pc = "unbalance" /\ hr[r] \in HrCalls /\ "unbalance" \in HrPcs
  BY AtWorkIsCall DEF Unbalance, HrAt, HrPcs, NeedsRole, RolePcs
<1>2. PICK p \in People : hr[r].who = p
  BY <1>1 DEF HrCalls
<1>3. GoTo(r, "uncontract")
  BY DEF Unbalance
<1>4. "uncontract" \in HrPcs \cup {"done"}
  BY DEF HrPcs, NeedsRole, RolePcs
<1>5. /\ balances' = balances \ {p}
      /\ UNCHANGED <<employee, contracts, account, realmRoles, user, userRoles, hrFaults, unsettled>>
  BY <1>2 DEF Unbalance
<1>6. "uncontract" \in NeedsRole => hr[r].role \in ErpRoles
  BY <1>1, <1>3 DEF EmploymentType, HrType, NeedsRole, RolePcs, HrCalls
<1>7. HrType'
  BY <1>1, <1>3, <1>4, <1>6, GoToWent, WentType
<1>8. \A x \in People : x # p => OthersStay(x)
  BY <1>3, <1>5 DEF OthersStay, RolesStay, EmploymentType
<1>9. \A t : InHand(p, hr[r]) /\ t.pc = "uncontract" /\ t.role = hr[r].role =>
              IF "uncontract" = "done" THEN AtRest(p)' ELSE InHand(p, t)'
  BY <1>1, <1>3, <1>5, <1>6 DEF InHand, AtRest, OneRole, RolePcs, NeedsRole, EmploymentType
<1> QED BY <1>1, <1>2, <1>3, <1>4, <1>5, <1>7, <1>8, <1>9, StepTo DEF EmploymentType

LEMMA UncontractKeeps ==
  ASSUME EmploymentType, PeopleInv, NEW r \in HrRequests, Uncontract(r)
  PROVE  EmploymentType' /\ PeopleInv'
<1>1. hr[r].pc = "uncontract" /\ hr[r] \in HrCalls /\ "uncontract" \in HrPcs
  BY AtWorkIsCall DEF Uncontract, HrAt, HrPcs, NeedsRole, RolePcs
<1>2. PICK p \in People : hr[r].who = p
  BY <1>1 DEF HrCalls
<1>3. GoTo(r, "unhire")
  BY DEF Uncontract
<1>4. "unhire" \in HrPcs \cup {"done"}
  BY DEF HrPcs, NeedsRole, RolePcs
<1>5. /\ contracts' = [contracts EXCEPT ![p] = <<>>]
      /\ UNCHANGED <<employee, balances, account, realmRoles, user, userRoles, hrFaults, unsettled>>
  BY <1>2 DEF Uncontract
<1>6. "unhire" \in NeedsRole => hr[r].role \in ErpRoles
  BY <1>1, <1>3 DEF EmploymentType, HrType, NeedsRole, RolePcs, HrCalls
<1>7. HrType'
  BY <1>1, <1>3, <1>4, <1>6, GoToWent, WentType
<1>8. \A x \in People : x # p => OthersStay(x)
  BY <1>3, <1>5 DEF OthersStay, RolesStay, EmploymentType
<1>9. \A t : InHand(p, hr[r]) /\ t.pc = "unhire" /\ t.role = hr[r].role =>
              IF "unhire" = "done" THEN AtRest(p)' ELSE InHand(p, t)'
  BY <1>1, <1>3, <1>5, <1>6 DEF InHand, AtRest, OneRole, RolePcs, NeedsRole, EmploymentType
<1>10. contracts' \in [People -> Seq({"open", "closed"})]
  BY <1>5 DEF EmploymentType
<1> QED BY <1>1, <1>2, <1>3, <1>4, <1>5, <1>7, <1>8, <1>9, <1>10, StepTo DEF EmploymentType

LEMMA UnhireKeeps ==
  ASSUME EmploymentType, PeopleInv, NEW r \in HrRequests, Unhire(r)
  PROVE  EmploymentType' /\ PeopleInv'
<1>1. hr[r].pc = "unhire" /\ hr[r] \in HrCalls /\ "unhire" \in HrPcs
  BY AtWorkIsCall DEF Unhire, HrAt, HrPcs, NeedsRole, RolePcs
<1>2. PICK p \in People : hr[r].who = p
  BY <1>1 DEF HrCalls
<1>3. GoTo(r, "done")
  BY DEF Unhire
<1>4. "done" \in HrPcs \cup {"done"}
  BY DEF HrPcs, NeedsRole, RolePcs
<1>5. /\ employee' = [employee EXCEPT ![p] = NoRow]
      /\ UNCHANGED <<balances, contracts, account, realmRoles, user, userRoles, hrFaults, unsettled>>
  BY <1>2 DEF Unhire
<1>6. "done" \in NeedsRole => hr[r].role \in ErpRoles
  BY <1>1, <1>3 DEF EmploymentType, HrType, NeedsRole, RolePcs, HrCalls
<1>7. HrType'
  BY <1>1, <1>3, <1>4, <1>6, GoToWent, WentType
<1>8. \A x \in People : x # p => OthersStay(x)
  BY <1>3, <1>5 DEF OthersStay, RolesStay, EmploymentType
<1>9. \A t : InHand(p, hr[r]) /\ t.pc = "done" /\ t.role = hr[r].role =>
              IF "done" = "done" THEN AtRest(p)' ELSE InHand(p, t)'
  <2>1. employee'[p] = NoRow /\ NoRow.linked = FALSE
    BY <1>5 DEF EmploymentType, NoRow
  <2>2. ~employee'[p].linked
    BY <2>1, Zenon
  <2>3. InHand(p, hr[r]) => p \notin balances /\ contracts[p] = <<>> /\ (user[p] = "live" => p \in account)
                            /\ (user[p] = "live" => OneRole(p)) /\ (user[p] # "live" => realmRoles[p] = {})
    BY <1>1 DEF InHand, RolePcs
  <2>4. OneRole(p)' = OneRole(p)
    BY <1>5 DEF OneRole
  <2> QED BY <1>5, <2>2, <2>3, <2>4 DEF AtRest
<1>10. employee' \in [People -> HrRows]
  BY <1>5 DEF EmploymentType, HrRows, NoRow
<1> QED BY <1>1, <1>2, <1>3, <1>4, <1>5, <1>7, <1>8, <1>9, <1>10, StepTo DEF EmploymentType

LEMMA ReadContractKeeps ==
  ASSUME EmploymentType, PeopleInv, NEW r \in HrRequests, ReadContract(r)
  PROVE  EmploymentType' /\ PeopleInv'
<1>1. hr[r].pc = "current" /\ hr[r] \in HrCalls
  BY AtWorkIsCall DEF ReadContract, HrAt, HrPcs, NeedsRole, RolePcs
<1>2. PICK p \in People : hr[r].who = p
  BY <1>1 DEF HrCalls
<1>3. {"close", "revise"} \subseteq HrPcs /\ "close" \notin NeedsRole /\ "revise" \notin NeedsRole
  BY DEF HrPcs, NeedsRole, RolePcs
<1>4. PICK pc \in {"close", "revise"} : Went(r, pc)
  <2> DEFINE open == {k \in 1..Len(contracts[p]) : contracts[p][k] = "open"}
             last == CHOOSE k \in open : \A j \in open : j <= k
  <2>1. CASE open = {}
    BY <1>1, <1>2, <1>3, <2>1, GoToWent DEF ReadContract
  <2>2. CASE open # {}
    <3>1. last \in Nat
      <4>1. Len(contracts[p]) \in Nat
        BY LenProperties DEF EmploymentType
      <4>2. \E k \in open : \A j \in open : j <= k
        BY <2>2, <4>1, LastOfSet
      <4>3. last \in open
        BY <4>2
      <4> QED BY <4>3
    <3>2. hr' = [hr EXCEPT ![r] = [hr[r] EXCEPT !.pc = "close", !.current = last]]
      BY <1>2, <2>2 DEF ReadContract
    <3> HIDE DEF last
    <3>3. PICK s : s = [hr[r] EXCEPT !.pc = "close"]
      OBVIOUS
    <3>4. s \in HrCalls /\ s.pc = "close" /\ Carries(hr[r], s)
      BY <1>1, <1>3, <3>3, Moved
    <3>5. PICK t : t = [s EXCEPT !.current = last]
      OBVIOUS
    <3>6. t \in HrCalls /\ t.pc = "close" /\ Carries(hr[r], t)
      BY <3>1, <3>4, <3>5, CurrentFound DEF Carries
    <3>7. hr' = [hr EXCEPT ![r] = t]
      BY <3>2, <3>3, <3>5
    <3> QED BY <3>6, <3>7 DEF Went, EmploymentType, HrType
  <2> QED BY <2>1, <2>2
<1>5. UNCHANGED <<employee, balances, contracts, account, realmRoles, user, userRoles, hrFaults, unsettled>>
  BY DEF ReadContract
<1>6. HrType'
  BY <1>1, <1>3, <1>4, WentType
<1>7. \A x \in People : x # p => OthersStay(x)
  BY <1>5 DEF OthersStay, RolesStay
<1>8. \A t : InHand(p, hr[r]) /\ t.pc = pc /\ t.role = hr[r].role =>
              IF pc = "done" THEN AtRest(p)' ELSE InHand(p, t)'
  BY <1>1, <1>4, <1>5 DEF InHand, OneRole, RolePcs
<1> QED BY <1>1, <1>2, <1>3, <1>4, <1>5, <1>6, <1>7, <1>8, StepWent DEF EmploymentType

-----------------------------------------------------------------------------
(* Failures                                                                *)

LEMMA RoleCallFailsKeeps ==
  ASSUME EmploymentType, PeopleInv, NEW r \in HrRequests, RoleCallFails(r)
  PROVE  EmploymentType' /\ PeopleInv'
<1>1. hr[r].pc \in {"strip", "grant"} /\ hr[r] \in HrCalls /\ hr[r].role \in ErpRoles
  BY AtWorkIsCall DEF RoleCallFails, HrAt, HrPcs, NeedsRole, RolePcs, EmploymentType, HrType
<1>2. PICK p \in People : hr[r].who = p
  BY <1>1 DEF HrCalls
<1>3. /\ \A q \in HrRequests : q # r => hr'[q] = hr[q]
      /\ hr' \in [HrRequests -> HrIdle \cup HrCalls]
      /\ hr'[r] = Done \/ (hr'[r] \in HrCalls /\ hr'[r].who = p)
      /\ hr'[r].pc \in NeedsRole => hr'[r].role \in ErpRoles
  <2>1. CASE GoTo(r, "grant")
    <3>1. "grant" \in HrPcs /\ "grant" # "done"
      BY DEF HrPcs, NeedsRole, RolePcs
    <3>2. Went(r, "grant")
      BY <1>1, <2>1, <3>1, GoToWent
    <3> QED BY <1>1, <1>2, <3>1, <3>2 DEF Went, Carries
  <2>2. CASE AfterGrant(r)
    <3>1. Done.pc \notin NeedsRole /\ "link" \notin NeedsRole /\ "current" \notin NeedsRole
      BY DEF Done, NeedsRole, RolePcs
    <3> QED BY <1>1, <1>2, <2>2, <3>1, AfterGrantWent
  <2> QED BY <2>1, <2>2 DEF RoleCallFails
<1>4. /\ unsettled' = unsettled \cup {p}
      /\ hrFaults' = hrFaults + 1
      /\ UNCHANGED <<employee, balances, contracts, account, realmRoles, user, userRoles>>
  BY <1>2 DEF RoleCallFails
<1>5. HrType'
  BY <1>3 DEF EmploymentType, HrType
<1>6. \A x \in People : OthersStay(x)
  BY <1>4 DEF OthersStay, RolesStay
<1>7. p \in unsettled' /\ unsettled \subseteq unsettled'
  BY <1>4
<1>8. PeopleInv'
  BY <1>1, <1>2, <1>3, <1>6, <1>7, StepOn
<1> QED BY <1>4, <1>5, <1>8 DEF EmploymentType

LEMMA HrFailsKeeps ==
  ASSUME EmploymentType, PeopleInv, NEW r \in HrRequests, HrFails(r)
  PROVE  EmploymentType' /\ PeopleInv'
<1>1. hr[r] \in HrCalls
  BY AtWorkIsCall DEF HrFails
<1>2. PICK p \in People : hr[r].who = p
  BY <1>1 DEF HrCalls
<1>3. PICK pc : pc = OnError(hr[r])
  OBVIOUS
<1>4. /\ pc \in {"unaccount", "unbalance", "done"}
      /\ pc = "unaccount" => hr[r].pc \in {"user", "clear", "role", "admins", "map", "grant"}
      /\ pc = "unbalance" => hr[r].pc \in {"oldAdmins", "oldMap", "account", "password", "link", "unaccount"}
  BY <1>3 DEF OnError
<1>5. pc \in HrPcs \cup {"done"} /\ pc \notin NeedsRole
  BY <1>4 DEF HrPcs, NeedsRole, RolePcs
<1>6. /\ GoTo(r, pc)
      /\ unsettled' = IF pc = "done" \/ hr[r].pc = "unaccount" THEN unsettled \cup {p} ELSE unsettled
      /\ hrFaults' = hrFaults + 1
      /\ UNCHANGED <<employee, balances, contracts, account, realmRoles, user, userRoles>>
  BY <1>2, <1>3 DEF HrFails, HrAt
<1>7. HrType'
  BY <1>1, <1>5, <1>6, GoToWent, WentType
<1>8. \A x \in People : OthersStay(x)
  BY <1>6 DEF OthersStay, RolesStay
<1>9. \A t : p \notin unsettled' /\ InHand(p, hr[r]) /\ t.pc = pc /\ t.role = hr[r].role =>
              IF pc = "done" THEN AtRest(p)' ELSE InHand(p, t)'
  <2> SUFFICES ASSUME NEW t, p \notin unsettled', InHand(p, hr[r]), t.pc = pc
               PROVE  IF pc = "done" THEN AtRest(p)' ELSE InHand(p, t)'
    OBVIOUS
  <2>1. OneRole(p)' = OneRole(p)
    BY <1>6 DEF OneRole
  <2>2. CASE pc = "done"
    BY <1>6, <2>2
  <2>3. CASE pc # "done"
    BY <1>4, <1>6, <2>1, <2>3 DEF InHand, RolePcs
  <2> QED BY <2>2, <2>3
<1>10. PeopleInv'
  BY <1>1, <1>2, <1>5, <1>6, <1>8, <1>9, StepTo
<1> QED BY <1>6, <1>7, <1>10 DEF EmploymentType

LEMMA HrCrashKeeps ==
  ASSUME EmploymentType, PeopleInv, HrCrash
  PROVE  EmploymentType' /\ PeopleInv'
<1>1. /\ hr' \in [HrRequests -> HrIdle]
      /\ unsettled \subseteq unsettled' /\ \A x \in People \ unsettled' : Working(x) = {}
      /\ hrFaults' = hrFaults + 1
      /\ UNCHANGED <<employee, balances, contracts, account, realmRoles, user, userRoles>>
  BY DEF HrCrash, HrIdle
<1>2. HrType'
  <2>1. Free.pc \notin NeedsRole /\ Done.pc \notin NeedsRole
    BY DEF Free, Done, NeedsRole, RolePcs
  <2> QED BY <1>1, <2>1 DEF HrType, HrIdle
<1>3. ASSUME NEW x \in People \ unsettled' PROVE PersonInv(x)'
  <2>1. OthersStay(x)
    BY <1>1 DEF OthersStay, RolesStay
  <2>2. Working(x) = {} /\ PersonInv(x)
    BY <1>1, <1>3 DEF PeopleInv
  <2>3. AtRest(x)
    BY <2>2 DEF PersonInv
  <2>4. AtRest(x)'
    BY <2>1, <2>3, AtRestStays
  <2>5. Working(x)' = {}
    BY <1>1 DEF Working, Busy, HrIdle
  <2> QED BY <2>4, <2>5 DEF PersonInv
<1> QED BY <1>1, <1>2, <1>3 DEF EmploymentType, PeopleInv

-----------------------------------------------------------------------------
(* Requests                                                                *)

\* A request begins on p, and changes at most the state of p.
LEMMA StepIn ==
  ASSUME EmploymentType, PeopleInv, NEW r \in HrRequests, NEW p \in People,
         NEW s \in HrCalls, s.who = p, s.pc \in NeedsRole => s.role \in ErpRoles, Begin(r, s),
         \A x \in People : x # p => OthersStay(x),
         AtRest(p) => InHand(p, s)'
  PROVE  HrType' /\ PeopleInv'
<1>1. /\ hr[r] = Free
      /\ hr' = [hr EXCEPT ![r] = s]
      /\ unsettled' = IF Working(p) = {} THEN unsettled ELSE unsettled \cup {p}
  BY DEF Begin
<1>2. HrType'
  BY <1>1 DEF EmploymentType, HrType
<1>3. hr'[r] = s /\ \A q \in HrRequests : q # r => hr'[q] = hr[q]
  BY <1>1 DEF EmploymentType, HrType
<1>4. s \notin {Free, Done}
  BY AtWorkIsCall
<1>5. ASSUME NEW x \in People \ unsettled', x # p PROVE PersonInv(x)'
  <2>1. \A q \in HrRequests : hr'[q] = hr[q] \/ (q \notin Working(x) /\ q \notin Working(x)')
    BY <1>1, <1>3, <1>5 DEF Working, Busy
  <2>2. PersonInv(x)
    BY <1>1, <1>5 DEF PeopleInv
  <2> QED BY <1>5, <2>1, <2>2, PersonStays
<1>6. ASSUME p \notin unsettled' PROVE PersonInv(p)'
  <2>1. Working(p) = {} /\ AtRest(p)
    BY <1>1, <1>6 DEF PeopleInv, PersonInv
  <2>2. Working(p)' = {r}
    BY <1>1, <1>3, <1>4, <2>1 DEF Working, Busy
  <2>3. InHand(p, hr[r])'
    BY <1>3, <2>1 DEF InHand
  <2> QED BY <2>2, <2>3 DEF PersonInv
<1> QED BY <1>2, <1>5, <1>6 DEF PeopleInv

LEMMA HireKeeps ==
  ASSUME EmploymentType, PeopleInv, NEW r \in HrRequests, NEW p \in People,
         NEW role \in ErpRoles \cup {NoRole}, NEW paid \in BOOLEAN, Hire(r, p, role, paid)
  PROVE  EmploymentType' /\ PeopleInv'
<1>1. PICK s : s = HrRequest(p, "hire", "balances", role, paid)
  OBVIOUS
<1>2. s \in HrCalls /\ s.who = p /\ s.pc = "balances"
  BY <1>1 DEF HrRequest, HrCalls, HrPcs
<1>3. "balances" \notin NeedsRole
  BY DEF NeedsRole, RolePcs
<1>4. /\ Begin(r, s) /\ employee[p] = NoRow
      /\ employee' = [employee EXCEPT ![p].status = "active"]
      /\ UNCHANGED <<balances, contracts, account, realmRoles, user, userRoles, hrFaults>>
  BY <1>1 DEF Hire
<1>5. PICK row \in HrRows : /\ row.status = "active" /\ row.linked = NoRow.linked
                            /\ employee' = [employee EXCEPT ![p] = row]
  <2>1. [employee[p] EXCEPT !.status = "active"] \in HrRows
        /\ [employee[p] EXCEPT !.status = "active"].status = "active"
        /\ [employee[p] EXCEPT !.status = "active"].linked = employee[p].linked
    BY DEF EmploymentType, HrRows
  <2> QED BY <1>4, <2>1
<1>6. employee' \in [People -> HrRows] /\ employee'[p] = row
  BY <1>5 DEF EmploymentType
<1>7. \A x \in People : x # p => OthersStay(x)
  BY <1>4, <1>5 DEF OthersStay, RolesStay, EmploymentType
<1>8. AtRest(p) => InHand(p, s)'
  <2>1. employee'[p].linked = FALSE /\ employee'[p].status = "active" /\ NoRow.status = "none"
    BY <1>5, <1>6 DEF NoRow
  <2>2. ~employee'[p].linked
    BY <2>1, Zenon
  <2>3. employee'[p] # NoRow
    BY <2>1
  <2>4. OneRole(p)' = OneRole(p)
    BY <1>4 DEF OneRole
  <2> QED BY <1>2, <1>4, <2>2, <2>3, <2>4 DEF AtRest, InHand, RolePcs
<1>9. HrType' /\ PeopleInv'
  BY <1>2, <1>3, <1>4, <1>7, <1>8, StepIn
<1> QED BY <1>4, <1>6, <1>9 DEF EmploymentType

LEMMA UpdateKeeps ==
  ASSUME EmploymentType, PeopleInv, NEW r \in HrRequests, NEW p \in People,
         NEW role \in ErpRoles \cup {NoRole}, NEW paid \in BOOLEAN, Update(r, p, role, paid)
  PROVE  EmploymentType' /\ PeopleInv'
<1>1. PICK s : s = HrRequest(p, "update", IF role = NoRole THEN "current" ELSE "clear", role, paid)
  OBVIOUS
<1>2. s \in HrCalls /\ s.who = p /\ s.pc = (IF role = NoRole THEN "current" ELSE "clear")
      /\ s.role = role
  BY <1>1 DEF HrRequest, HrCalls, HrPcs, NeedsRole, RolePcs
<1>3. s.pc \in NeedsRole => s.role \in ErpRoles
  BY <1>2 DEF NeedsRole, RolePcs
<1>4. /\ Begin(r, s) /\ employee[p] # NoRow
      /\ role # NoRole => employee[p].linked
      /\ UNCHANGED <<employee, balances, contracts, account, realmRoles, user, userRoles, hrFaults>>
  BY <1>1 DEF Update
<1>5. \A x \in People : x # p => OthersStay(x)
  BY <1>4 DEF OthersStay, RolesStay
<1>6. AtRest(p) => InHand(p, s)'
  <2>1. OneRole(p)' = OneRole(p)
    BY <1>4 DEF OneRole
  <2> QED BY <1>2, <1>4, <2>1 DEF AtRest, InHand, RolePcs
<1>7. HrType' /\ PeopleInv'
  BY <1>2, <1>3, <1>4, <1>5, <1>6, StepIn
<1> QED BY <1>4, <1>7 DEF EmploymentType

LEMMA RemoveOrRestoreKeeps ==
  ASSUME EmploymentType, PeopleInv, NEW r \in HrRequests, NEW p \in People, RemoveOrRestore(r, p)
  PROVE  EmploymentType' /\ PeopleInv'
<1>1. PICK st : st = IF employee[p].status = "active" THEN "terminated" ELSE "active"
  OBVIOUS
<1>2. PICK row : row = [employee[p] EXCEPT !.status = st]
  OBVIOUS
<1>3. /\ hr[r] = Free /\ hr' = [hr EXCEPT ![r] = Done] /\ employee[p] # NoRow
      /\ UNCHANGED <<balances, contracts, account, realmRoles, user, userRoles, hrFaults, unsettled>>
  BY DEF RemoveOrRestore, GoTo
<1>4. row \in HrRows /\ row.status = st /\ row.linked = employee[p].linked
  BY <1>1, <1>2 DEF EmploymentType, HrRows
<1>5. employee' = [employee EXCEPT ![p] = row]
  BY <1>1, <1>2 DEF RemoveOrRestore
<1>6. row # NoRow
  BY <1>1, <1>4 DEF NoRow
<1>7. HrType'
  <2>1. Done.pc \notin NeedsRole
    BY DEF Done, NeedsRole, RolePcs
  <2> QED BY <1>3, <2>1 DEF EmploymentType, HrType, HrIdle
<1>8. \A x \in People : x # p => OthersStay(x)
  BY <1>3, <1>5 DEF OthersStay, RolesStay, EmploymentType
<1>9. \A q \in HrRequests : hr'[q] = hr[q] \/ (hr[q] \in HrIdle /\ hr'[q] \in HrIdle)
  BY <1>3 DEF HrIdle, EmploymentType, HrType
<1>10. OneRole(p)' = OneRole(p) /\ employee'[p] = row
  BY <1>3, <1>5 DEF OneRole, EmploymentType
<1>11. AtRest(p) => AtRest(p)'
  BY <1>3, <1>4, <1>6, <1>10 DEF AtRest
<1>12. \A s : InHand(p, s) => InHand(p, s)'
  BY <1>3, <1>4, <1>6, <1>10 DEF InHand
<1> QED BY <1>3, <1>4, <1>5, <1>7, <1>8, <1>9, <1>11, <1>12, StepAside DEF EmploymentType

LEMMA FindMeKeeps ==
  ASSUME EmploymentType, PeopleInv, NEW p \in People, FindMe(p)
  PROVE  EmploymentType' /\ PeopleInv'
<1>1. PICK row : row = [employee[p] EXCEPT !.linked = TRUE]
  OBVIOUS
<1>2. row \in HrRows /\ row # NoRow /\ employee[p] # NoRow
  <2>1. employee[p] \in HrRows /\ employee[p].status = "active"
    <3>1. employee[p] \in HrRows
      BY DEF EmploymentType
    <3>2. employee[p] = [status |-> "active", linked |-> FALSE]
      BY DEF FindMe
    <3>3. [status |-> "active", linked |-> FALSE].status = "active"
      OBVIOUS
    <3> QED BY <3>1, <3>2, <3>3, Zenon
  <2>2. row \in HrRows /\ row.status = "active"
    BY <1>1, <2>1 DEF HrRows
  <2> QED BY <2>1, <2>2 DEF NoRow
<1>3. /\ user[p] = "live" /\ p \in account
      /\ UNCHANGED <<balances, contracts, account, realmRoles, user, userRoles, hr, hrFaults, unsettled>>
  BY DEF FindMe
<1>4. employee' = [employee EXCEPT ![p] = row]
  BY <1>1 DEF FindMe
<1>5. HrType'
  BY <1>3 DEF EmploymentType, HrType
<1>6. \A x \in People : x # p => OthersStay(x)
  BY <1>3, <1>4 DEF OthersStay, RolesStay, EmploymentType
<1>7. OneRole(p)' = OneRole(p) /\ employee'[p] = row
  BY <1>3, <1>4 DEF OneRole, EmploymentType
<1>8. AtRest(p) => AtRest(p)'
  BY <1>2, <1>3, <1>7 DEF AtRest
<1>9. \A s : InHand(p, s) => InHand(p, s)'
  BY <1>2, <1>3, <1>7 DEF InHand
<1> QED BY <1>2, <1>3, <1>4, <1>5, <1>6, <1>8, <1>9, StepAside DEF EmploymentType

LEMMA HrStuttering ==
  ASSUME EmploymentType, PeopleInv, UNCHANGED employmentVars
  PROVE  EmploymentType' /\ PeopleInv'
<1>1. EmploymentType'
  BY DEF employmentVars, EmploymentType, HrType
<1>2. ASSUME NEW x \in People \ unsettled' PROVE PersonInv(x)'
  <2>1. OthersStay(x) /\ PersonInv(x)
    BY <1>2 DEF OthersStay, RolesStay, employmentVars, PeopleInv
  <2> QED BY <2>1, PersonStays DEF employmentVars
<1> QED BY <1>1, <1>2 DEF PeopleInv

-----------------------------------------------------------------------------
(* The contract in force                                                   *)

\* A step that changes no contract and moves no request that is to open one.
LEMMA OpenStays ==
  ASSUME OpenInv, contracts' = contracts, hrFaults' = hrFaults,
         \A q \in HrRequests : hr'[q] = hr[q] \/ ~HrAt(q, "revise")
  PROVE  OpenInv'
<1> SUFFICES ASSUME hrFaults = 0, NEW p \in People, contracts[p] # <<>>
             PROVE  IsOpen(p)' \/ \E r \in Working(p)' : HrAt(r, "revise")'
  BY DEF OpenInv
<1>1. CASE IsOpen(p)
  BY <1>1 DEF IsOpen
<1>2. ASSUME NEW r \in Working(p), HrAt(r, "revise") PROVE r \in Working(p)' /\ HrAt(r, "revise")'
  BY <1>2 DEF Working, Busy, HrAt
<1> QED BY <1>1, <1>2 DEF OpenInv

\* A step of r that changes the contracts of its person p.
LEMMA OpenChanges ==
  ASSUME OpenInv, hrFaults' = hrFaults, NEW r \in HrRequests, NEW p \in People, hr[r].who = p,
         \A q \in HrRequests : q # r => hr'[q] = hr[q],
         \A x \in People : x # p => contracts'[x] = contracts[x],
         \/ contracts'[p] = <<>>
         \/ IsOpen(p)'
         \/ r \in Working(p)' /\ HrAt(r, "revise")'
  PROVE  OpenInv'
<1> SUFFICES ASSUME hrFaults = 0, NEW x \in People, contracts'[x] # <<>>
             PROVE  IsOpen(x)' \/ \E q \in Working(x)' : HrAt(q, "revise")'
  BY DEF OpenInv
<1>1. CASE x = p
  BY <1>1
<1>2. CASE x # p
  <2>1. contracts'[x] = contracts[x]
    BY <1>2
  <2>2. CASE IsOpen(x)
    BY <2>1, <2>2 DEF IsOpen
  <2>3. ASSUME NEW q \in Working(x), HrAt(q, "revise") PROVE q \in Working(x)' /\ HrAt(q, "revise")'
    BY <1>2, <2>3 DEF Working, Busy, HrAt
  <2> QED BY <2>1, <2>2, <2>3 DEF OpenInv
<1> QED BY <1>1, <1>2

LEMMA Appended ==
  ASSUME EmploymentType, NEW p \in People,
         contracts' = [contracts EXCEPT ![p] = Append(@, "open")]
  PROVE  IsOpen(p)'
<1>1. PICK s \in Seq({"open", "closed"}) : s = contracts[p]
  BY DEF EmploymentType
<1>2. contracts'[p] = Append(s, "open")
  BY <1>1 DEF EmploymentType
<1>3. Len(s) + 1 \in 1..Len(Append(s, "open")) /\ Append(s, "open")[Len(s) + 1] = "open"
  BY <1>1
<1> QED BY <1>2, <1>3 DEF IsOpen

LEMMA OpenStep == EmploymentInv /\ [EmploymentNext]_employmentVars => OpenInv'
<1> SUFFICES ASSUME EmploymentInv, [EmploymentNext]_employmentVars PROVE OpenInv'
  OBVIOUS
<1> USE DEF EmploymentInv
<1>1. ASSUME NEW r \in HrRequests, HrAt(r, "revise") PROVE hr[r] # Free
  BY <1>1 DEF HrAt, Free
<1>2. ASSUME NEW r \in HrRequests, NEW p \in People, NEW role, NEW paid,
             Hire(r, p, role, paid) \/ Update(r, p, role, paid)
      PROVE  OpenInv'
  <2>1. PICK s : Begin(r, s)
    BY <1>2 DEF Hire, Update
  <2>2. \A q \in HrRequests : hr'[q] = hr[q] \/ ~HrAt(q, "revise")
    BY <1>1, <2>1 DEF Begin, EmploymentType, HrType
  <2>3. contracts' = contracts /\ hrFaults' = hrFaults
    BY <1>2 DEF Hire, Update
  <2> QED BY <2>2, <2>3, OpenStays
<1>3. ASSUME NEW r \in HrRequests, NEW p \in People, RemoveOrRestore(r, p) PROVE OpenInv'
  <2>1. \A q \in HrRequests : hr'[q] = hr[q] \/ ~HrAt(q, "revise")
    BY <1>1, <1>3 DEF RemoveOrRestore, GoTo, EmploymentType, HrType
  <2>2. contracts' = contracts /\ hrFaults' = hrFaults
    BY <1>3 DEF RemoveOrRestore
  <2> QED BY <2>1, <2>2, OpenStays
<1>4. ASSUME NEW p \in People, FindMe(p) PROVE OpenInv'
  BY <1>4, OpenStays DEF FindMe
<1>5. CASE UNCHANGED employmentVars
  BY <1>5, OpenStays DEF employmentVars
<1>6. ASSUME NEW r \in HrRequests, HrFails(r) \/ RoleCallFails(r) PROVE OpenInv'
  <2>1. hrFaults \in Nat /\ hrFaults' = hrFaults + 1
    BY <1>6 DEF HrFails, RoleCallFails, EmploymentType
  <2>2. hrFaults' # 0
    BY <2>1
  <2> QED BY <2>2 DEF OpenInv
<1>7. CASE HrCrash
  <2>1. hrFaults \in Nat /\ hrFaults' = hrFaults + 1
    BY <1>7 DEF HrCrash, EmploymentType
  <2>2. hrFaults' # 0
    BY <2>1
  <2> QED BY <2>2 DEF OpenInv
<1>8. ASSUME NEW r \in HrRequests,
             \/ SeedBalances(r) \/ CreateAccount(r) \/ SetPassword(r) \/ CreateUser(r)
             \/ LinkEmployee(r) \/ Unaccount(r) \/ Unbalance(r) \/ Unhire(r)
             \/ ClearRoles(r) \/ AddRole(r) \/ StripRoles(r)
      PROVE  OpenInv'
  <2>1. contracts' = contracts /\ hrFaults' = hrFaults /\ ~HrAt(r, "revise")
    BY <1>8 DEF SeedBalances, CreateAccount, SetPassword, CreateUser, LinkEmployee, Unaccount,
                Unbalance, Unhire, ClearRoles, AddRole, StripRoles, HrAt
  <2>2. PICK pc : GoTo(r, pc)
    BY <1>8 DEF SeedBalances, CreateAccount, SetPassword, CreateUser, LinkEmployee, Unaccount,
                Unbalance, Unhire, ClearRoles, AddRole, StripRoles
  <2>3. \A q \in HrRequests : q # r => hr'[q] = hr[q]
    BY <2>2 DEF GoTo, EmploymentType, HrType
  <2> QED BY <2>1, <2>3, OpenStays
<1>9. ASSUME NEW r \in HrRequests,
             ReadAdmins(r) \/ MapAdmins(r) \/ GrantRole(r) \/ ReadContract(r)
      PROVE  OpenInv'
  <2>1. contracts' = contracts /\ hrFaults' = hrFaults /\ ~HrAt(r, "revise")
    BY <1>9 DEF ReadAdmins, MapAdmins, GrantRole, ReadContract, HrAt
  <2>2. \A q \in HrRequests : q # r => hr'[q] = hr[q]
    BY <1>9 DEF ReadAdmins, MapAdmins, GrantRole, AfterGrant, ReadContract, GoTo, EmploymentType, HrType
  <2> QED BY <2>1, <2>2, OpenStays
<1>10. ASSUME NEW r \in HrRequests, NEW pc \in {"balances", "contract", "close", "revise", "uncontract"},
              HrAt(r, pc)
       PROVE  hr[r] \in HrCalls /\ hr[r].who \in People
  <2>1. pc \in HrPcs
    BY <1>10 DEF HrPcs
  <2> QED BY <1>10, <2>1, AtWorkIsCall DEF HrAt
<1>11. ASSUME NEW r \in HrRequests, FirstContract(r) \/ ReviseContract(r) \/ Uncontract(r)
       PROVE  OpenInv'
  <2>1. PICK p \in People : hr[r].who = p
    BY <1>10, <1>11 DEF FirstContract, ReviseContract, Uncontract
  <2>2. \A q \in HrRequests : q # r => hr'[q] = hr[q]
    BY <1>11 DEF FirstContract, ReviseContract, Uncontract, GoTo, EmploymentType, HrType
  <2>3. /\ hrFaults' = hrFaults
        /\ \/ contracts' = [contracts EXCEPT ![p] = <<>>]
           \/ contracts' = [contracts EXCEPT ![p] = Append(@, "open")]
    BY <1>11, <2>1 DEF FirstContract, ReviseContract, Uncontract
  <2>4. contracts'[p] = <<>> \/ IsOpen(p)'
    BY <2>3, Appended DEF EmploymentType
  <2>5. \A x \in People : x # p => contracts'[x] = contracts[x]
    BY <2>3 DEF EmploymentType
  <2> QED BY <2>1, <2>2, <2>3, <2>4, <2>5, OpenChanges
<1>12. ASSUME NEW r \in HrRequests, CloseContract(r) PROVE OpenInv'
  <2>1. PICK p \in People : hr[r].who = p /\ hr[r] \in HrCalls
    BY <1>10, <1>12 DEF CloseContract
  <2>2. Went(r, "revise")
    <3>1. "revise" \in HrPcs \cup {"done"}
      BY DEF HrPcs
    <3> QED BY <1>12, <2>1, <3>1, GoToWent DEF CloseContract
  <2>3. r \in Working(p)' /\ HrAt(r, "revise")'
    <3>1. hr'[r] \in HrCalls /\ hr'[r].pc = "revise" /\ hr'[r].who = p
      BY <2>1, <2>2 DEF Went, Carries
    <3>2. hr'[r] \notin {Free, Done}
      BY <3>1, AtWorkIsCall
    <3> QED BY <3>1, <3>2 DEF Working, Busy, HrAt
  <2>4. hrFaults' = hrFaults /\ \A x \in People : x # p => contracts'[x] = contracts[x]
    BY <1>12, <2>1 DEF CloseContract, EmploymentType
  <2> QED BY <2>1, <2>2, <2>3, <2>4, OpenChanges DEF Went
<1> QED
  BY <1>2, <1>3, <1>4, <1>5, <1>6, <1>7, <1>8, <1>9, <1>11, <1>12
     DEF EmploymentNext, HireSteps, UpdateSteps

LEMMA EmploymentStep == EmploymentInv /\ [EmploymentNext]_employmentVars => EmploymentInv'
<1> SUFFICES ASSUME EmploymentInv, [EmploymentNext]_employmentVars PROVE EmploymentInv'
  OBVIOUS
<1>1. EmploymentType /\ PeopleInv
  BY DEF EmploymentInv
<1>2. ASSUME NEW r \in HrRequests, NEW p \in People, NEW role \in ErpRoles \cup {NoRole},
             NEW paid \in {FALSE, (p \in Salaried)},
             Hire(r, p, role, paid) \/ Update(r, p, role, paid)
      PROVE  EmploymentType' /\ PeopleInv'
  <2>1. paid \in BOOLEAN
    <3>1. (p \in Salaried) = TRUE \/ (p \in Salaried) = FALSE
      OBVIOUS
    <3>2. paid = FALSE \/ paid = (p \in Salaried)
      OBVIOUS
    <3>3. paid = TRUE \/ paid = FALSE
      BY <3>1, <3>2, Zenon
    <3> QED BY <3>3
  <2> QED BY <1>1, <1>2, <2>1, HireKeeps, UpdateKeeps
<1>3. ASSUME NEW r \in HrRequests, NEW p \in People, RemoveOrRestore(r, p)
      PROVE  EmploymentType' /\ PeopleInv'
  BY <1>1, <1>3, RemoveOrRestoreKeeps
<1>4. ASSUME NEW r \in HrRequests, HireSteps(r) PROVE EmploymentType' /\ PeopleInv'
  BY <1>1, <1>4, SeedBalancesKeeps, FirstContractKeeps, ReadAdminsKeeps, MapAdminsKeeps,
     CreateAccountKeeps, SetPasswordKeeps, CreateUserKeeps, LinkEmployeeKeeps, UnaccountKeeps,
     UnbalanceKeeps, UncontractKeeps, UnhireKeeps DEF HireSteps
<1>5. ASSUME NEW r \in HrRequests, UpdateSteps(r) PROVE EmploymentType' /\ PeopleInv'
  BY <1>1, <1>5, ClearRolesKeeps, AddRoleKeeps, StripRolesKeeps, GrantRoleKeeps,
     ReadContractKeeps, CloseContractKeeps, ReviseContractKeeps DEF UpdateSteps
<1>6. ASSUME NEW r \in HrRequests, HrFails(r) \/ RoleCallFails(r)
      PROVE  EmploymentType' /\ PeopleInv'
  BY <1>1, <1>6, HrFailsKeeps, RoleCallFailsKeeps
<1>7. ASSUME NEW p \in People, FindMe(p) PROVE EmploymentType' /\ PeopleInv'
  BY <1>1, <1>7, FindMeKeeps
<1>8. HrCrash \/ UNCHANGED employmentVars => EmploymentType' /\ PeopleInv'
  BY <1>1, HrCrashKeeps, HrStuttering
<1>9. EmploymentType' /\ PeopleInv'
  BY <1>2, <1>3, <1>4, <1>5, <1>6, <1>7, <1>8 DEF EmploymentNext
<1> QED BY <1>9, OpenStep DEF EmploymentInv

LEMMA EmploymentInvariant == EmploymentSpec => []EmploymentInv
BY EmploymentInitHolds, EmploymentStep, PTL DEF EmploymentSpec

LEMMA WholeWhenSettled == EmploymentInv => HiresAreWhole
<1> SUFFICES ASSUME EmploymentInv PROVE HiresAreWhole
  OBVIOUS
<1>1. \A p \in People : Settled(p) => AtRest(p)
  BY DEF EmploymentInv, PeopleInv, PersonInv, Settled
<1>2. LinkedCanLogIn /\ GivenUpLeavesNoRow /\ RolesAgree
  BY <1>1 DEF LinkedCanLogIn, GivenUpLeavesNoRow, RolesAgree, AtRest, OneRole
<1>3. ContractIsOpen
  BY DEF ContractIsOpen, EmploymentInv, OpenInv, IsOpen
<1> QED BY <1>2, <1>3 DEF HiresAreWhole

\* EmployeeService.create, update, remove and findMe with provisionEmployeeUser
\* and assignUserRole: whatever statement of whatever request fails, a person no
\* request works on is whole.  One who is linked can log in, and holds one role, the
\* same in the database and in Keycloak; one whose hire was given up is in neither
\* the balances nor the contracts; and while nothing has failed payroll finds an
\* open contract of everyone who has any.
THEOREM HiresAreAlwaysWhole == EmploymentSpec => []HiresAreWhole
BY EmploymentInvariant, WholeWhenSettled, PTL

-----------------------------------------------------------------------------
(***************************************************************************)
(* MFA enforcement.  While requests come one after another, a request that *)
(* is at work is the only one, and setMfaEnforcement has done what lies    *)
(* before its place: the users of the pages it has read, those of its page *)
(* it has been to, the providers it has updated.  The users still to come  *)
(* have a place in the list behind it.  Nobody at work: all are done.      *)
(***************************************************************************)

\* What setMfaEnforcement has left to do, and what createIdentityProvider has.
PassTodos ==
  {<<"default", "post-broker-mfa", "list", "idps", "page">>, <<"default", "list", "idps", "page">>,
   <<"post-broker-mfa", "list", "idps", "page">>, <<"fill-post-broker-mfa", "list", "idps", "page">>,
   <<"list", "idps", "page">>, <<"idps", "page">>, <<"page">>, <<"flag", "page">>, <<"flag">>}
CreateTodos ==
  {<<"auto-link", "enforced", "create">>, <<"fill-auto-link", "enforced", "create">>,
   <<"enforced", "create">>, <<"create">>}

RealmCalls == [todo : PassTodos \cup CreateTodos, on : BOOLEAN, first : Nat, page : Seq(Nat),
          seen : SUBSET KcUsers, idps : SUBSET Idps]

RealmType ==
  /\ totpDefault \in BOOLEAN
  /\ flow \in [Flows -> {"absent", "partial", "complete"}]
  /\ idp \in [Idps -> {"none", "plain", "otp"}]
  /\ IsFiniteSet(kcUsers) /\ kcUsers \subseteq KcUsers
  /\ pending \subseteq kcUsers /\ otp \subseteq kcUsers
  /\ call \in [RealmRequests -> {Uncalled, Over} \cup RealmCalls]
  /\ enforcement \in {"never", "on", "off"}

\* Nothing is asked of anybody, or of everybody.
Enforced ==
  /\ enforcement = "on" =>
       /\ totpDefault = TRUE /\ kcUsers \subseteq pending \cup otp
       /\ \A i \in Idps : idp[i] \in {"none", "otp"}
       /\ flow["post-broker-mfa"] = "complete"
  /\ enforcement = "off" =>
       /\ totpDefault = FALSE /\ pending = {}
       /\ \A i \in Idps : idp[i] \in {"none", "plain"}

\* Users of the pages that are still to come.
Ahead(c, u) == Place(u) > c.first /\ c.todo # <<"flag">>

\* How far a call of setMfaEnforcement has got: the users before its place in the
\* list are done, those of its page it has read as they are.
Passing(c) ==
  /\ enforcement = IF c.on = TRUE THEN "on" ELSE "off"
  /\ Head(c.todo) = "default" => (c.todo[2] = "post-broker-mfa" <=> c.on = TRUE)
  /\ Head(c.todo) # "default" => totpDefault = c.on
  /\ Head(c.todo) \in {"post-broker-mfa", "fill-post-broker-mfa"} => c.on = TRUE
  /\ Head(c.todo) \in {"list", "idps", "page", "flag"} /\ c.on = TRUE =>
       flow["post-broker-mfa"] = "complete"
  /\ Head(c.todo) \in {"default", "post-broker-mfa", "fill-post-broker-mfa", "list", "idps"} =>
       c.first = 0 /\ c.page = <<>>
  /\ c.first = 0 => c.seen = {}
  /\ Head(c.todo) = "idps" => \A i \in Idps \ c.idps :
       idp[i] \in {"none", IF c.on = TRUE THEN "otp" ELSE "plain"}
  /\ Head(c.todo) \in {"page", "flag"} => \A i \in Idps :
       idp[i] \in {"none", IF c.on = TRUE THEN "otp" ELSE "plain"}
  /\ Head(c.todo) = "page" => c.page = <<>> /\ c.first <= Cardinality(kcUsers)
  /\ c.todo = <<"flag", "page">> => c.first <= Cardinality(kcUsers)
  /\ c.on = TRUE =>
       /\ c.seen \subseteq pending \cup otp
       /\ \A u \in kcUsers : u \in pending \cup otp \cup ToSet(c.page) \/ Ahead(c, u)
  /\ c.on = FALSE =>
       \A u \in pending : u \in ToSet(c.page) \cap c.seen \/ Ahead(c, u)

\* Requests that come one after another.
SerialInv ==
  /\ \A r, q \in AtWork : r = q
  /\ \A f \in Flows : flow[f] = "partial" => \E r \in AtWork : Head(call[r].todo) = Filling(f)
  /\ AtWork = {} => Enforced
  /\ \A r \in AtWork : call[r].todo \in CreateTodos =>
       Enforced /\ (call[r].todo = <<"create">> => call[r].on = totpDefault)
  /\ \A r \in AtWork : call[r].todo \in PassTodos => Passing(call[r])

RealmInv == muddled \in BOOLEAN /\ (muddled = FALSE => RealmType /\ SerialInv)

-----------------------------------------------------------------------------
\* Users in the order of their names have the places from the first to the last.
LEMMA PlacesAre ==
  ASSUME NEW S \in SUBSET Nat, IsFiniteSet(S)
  PROVE  /\ Cardinality(S) \in Nat
         /\ \A u \in S : Cardinality({v \in S : v <= u}) \in 1 .. Cardinality(S)
         /\ \A u, w \in S :
              Cardinality({v \in S : v <= u}) = Cardinality({v \in S : v <= w}) => u = w
         /\ \A k \in 1 .. Cardinality(S) : \E u \in S : Cardinality({v \in S : v <= u}) = k
<1>1. PICK n \in Nat : n = Cardinality(S)
  BY FS_CardinalityType
<1>2. PICK P : P = [u \in S |-> Cardinality({v \in S : v <= u})]
  OBVIOUS
<1>3. ASSUME NEW u \in S PROVE P[u] \in 1 .. n
  <2>1. PICK T : T = {v \in S : v <= u}
    OBVIOUS
  <2>2. T \in SUBSET S /\ u \in T
    BY <2>1
  <2>3. IsFiniteSet(T) /\ Cardinality(T) \in Nat /\ Cardinality(T) <= n /\ T # {}
    BY <1>1, <2>2, FS_Subset, FS_CardinalityType
  <2>4. Cardinality(T) # 0
    BY <2>3, FS_EmptySet
  <2> QED BY <1>2, <2>1, <2>3, <2>4
<1>4. ASSUME NEW u \in S, NEW w \in S, u < w PROVE P[u] < P[w]
  <2>1. PICK T : T = {v \in S : v <= u}
    OBVIOUS
  <2>2. PICK U : U = {v \in S : v <= w}
    OBVIOUS
  <2>3. T \in SUBSET U /\ w \in U /\ w \notin T /\ U \in SUBSET S
    <3>1. u \in Nat /\ w \in Nat /\ \A v \in S : v \in Nat
      OBVIOUS
    <3>2. \A v \in T : v \in S /\ v <= u /\ v <= w /\ v \in U
      BY <1>4, <2>1, <2>2, <3>1
    <3>3. w \in U /\ w \notin T
      BY <1>4, <2>1, <2>2, <3>1
    <3> QED BY <2>2, <3>2, <3>3
  <2>4. IsFiniteSet(U) /\ IsFiniteSet(T) /\ Cardinality(T) \in Nat /\ Cardinality(U) \in Nat
    BY <2>3, FS_Subset, FS_CardinalityType
  <2>5. Cardinality(T) <= Cardinality(U) /\ Cardinality(T) # Cardinality(U)
    BY <2>3, <2>4, FS_Subset
  <2> QED BY <1>2, <2>1, <2>2, <2>4, <2>5
<1>5. P \in [S -> 1 .. n]
  BY <1>2, <1>3
<1>6. \A u, w \in S : P[u] = P[w] => u = w
  <2>1. ASSUME NEW u \in S, NEW w \in S, P[u] = P[w], u # w PROVE FALSE
    <3>1. u < w \/ w < u
      BY <2>1
    <3>2. P[u] \in Int /\ P[w] \in Int
      BY <1>3
    <3> QED BY <1>4, <2>1, <3>1, <3>2
  <2> QED BY <2>1
<1>7. P \in Injection(S, 1 .. n)
  BY <1>5, <1>6 DEF Injection, IsInjective
<1>8. IsFiniteSet(1 .. n) /\ Cardinality(1 .. n) = n
  BY FS_Interval
<1>9. P \in Surjection(S, 1 .. n)
  BY <1>1, <1>7, <1>8, FS_Injection
<1>10. \A k \in 1 .. n : \E u \in S : P[u] = k
  BY <1>9 DEF Surjection
<1> QED BY <1>1, <1>2, <1>3, <1>6, <1>10

\* A page has the users whose places come next, and is full unless it is the last.
LEMMA PageIs ==
  ASSUME RealmType, NEW first \in Nat, first <= Cardinality(kcUsers)
  PROVE  /\ Page(first) \in Seq(Nat)
         /\ Cardinality(kcUsers) \in Nat
         /\ \A u \in kcUsers : Place(u) \in 1 .. Cardinality(kcUsers)
         /\ \A u \in kcUsers : Place(u) > first =>
              u \in ToSet(Page(first)) \/ (Place(u) > first + PageSize /\ ~LastPage(Page(first)))
         /\ ~LastPage(Page(first)) => first + PageSize <= Cardinality(kcUsers)
<1>1. PICK n \in Nat : n = Cardinality(kcUsers)
  BY FS_CardinalityType DEF RealmType
<1>2. PICK P : P = [u \in kcUsers |-> Place(u)]
  OBVIOUS
<1>3. kcUsers \in SUBSET Nat /\ IsFiniteSet(kcUsers) /\ PageSize \in Nat \ {0}
  BY RealmsAssumption DEF RealmType
<1>4. /\ \A u \in kcUsers : P[u] = Place(u) /\ P[u] \in 1 .. n
      /\ \A u, w \in kcUsers : P[u] = P[w] => u = w
      /\ \A k \in 1 .. n : \E u \in kcUsers : P[u] = k
  BY <1>1, <1>2, <1>3, PlacesAre DEF Place
<1>5. PICK last \in Nat : last = IF first + PageSize < n THEN first + PageSize ELSE n
  BY <1>3
<1>6. last - first \in Nat /\ last <= n
  BY <1>1, <1>3, <1>5
<1>7. PICK m \in Nat : m = last - first
  BY <1>6
<1>8. Page(first) = [k \in 1 .. m |-> CHOOSE u \in kcUsers : Place(u) = first + k]
  BY <1>1, <1>5, <1>7 DEF Page
<1>9. ASSUME NEW k \in 1 .. m PROVE Page(first)[k] \in kcUsers /\ P[Page(first)[k]] = first + k
  <2>1. first + k \in 1 .. n
    BY <1>6, <1>7
  <2>2. \E u \in kcUsers : Place(u) = first + k
    BY <1>4, <2>1
  <2>3. Page(first)[k] = CHOOSE u \in kcUsers : Place(u) = first + k
    BY <1>8
  <2> HIDE DEF Place
  <2> QED BY <1>4, <2>2, <2>3
<1>10. Page(first) \in Seq(Nat) /\ Len(Page(first)) = m /\ DOMAIN Page(first) = 1 .. m
  <2>1. Page(first) \in [1 .. m -> Nat]
    BY <1>3, <1>8, <1>9
  <2>2. PICK s \in [1 .. m -> Nat] : s = Page(first)
    BY <2>1
  <2>3. s \in Seq(Nat) /\ Len(s) = m /\ DOMAIN s = 1 .. m
    OBVIOUS
  <2> QED BY <2>2, <2>3
<1>11. ASSUME NEW u \in kcUsers, Place(u) > first, Place(u) <= last
       PROVE  u \in ToSet(Page(first))
  <2>1. PICK k \in 1 .. m : Place(u) = first + k
    <3>1. P[u] = Place(u) /\ P[u] \in Nat
      BY <1>4
    <3>2. P[u] - first \in 1 .. m /\ P[u] = first + (P[u] - first)
      BY <1>7, <1>11, <3>1
    <3> QED BY <3>1, <3>2
  <2>2. Page(first)[k] \in kcUsers /\ P[Page(first)[k]] = P[u]
    BY <1>4, <1>9, <2>1
  <2>3. Page(first)[k] = u
    BY <1>4, <2>2
  <2> QED BY <1>10, <2>3 DEF ToSet
<1>12. LastPage(Page(first)) <=> m < PageSize
  BY <1>10 DEF LastPage
<1>13. \A u \in kcUsers : Place(u) \in 1 .. n
  BY <1>4
<1>14. (last = n /\ m <= PageSize) \/ (last = first + PageSize /\ m = PageSize /\ last < n)
  BY <1>1, <1>3, <1>5, <1>7
<1>15. ASSUME NEW u \in kcUsers, Place(u) > first, Place(u) > last
       PROVE  Place(u) > first + PageSize /\ m >= PageSize
  BY <1>3, <1>13, <1>14, <1>15
<1>16. m >= PageSize => first + PageSize <= n
  BY <1>3, <1>5, <1>7
<1>17. \A u \in kcUsers : Place(u) > first =>
         u \in ToSet(Page(first)) \/ (Place(u) > first + PageSize /\ ~LastPage(Page(first)))
  <2>1. ASSUME NEW u \in kcUsers, Place(u) > first
        PROVE  u \in ToSet(Page(first)) \/ (Place(u) > first + PageSize /\ ~LastPage(Page(first)))
    <3>1. Place(u) <= last \/ Place(u) > last
      BY <1>13
    <3> QED BY <1>3, <1>11, <1>12, <1>15, <2>1, <3>1
  <2> QED BY <2>1
<1> QED BY <1>1, <1>3, <1>10, <1>12, <1>13, <1>16, <1>17

-----------------------------------------------------------------------------
\* A call under way is none that has not begun or is over.
LEMMA CallKinds ==
  /\ Uncalled # Over
  /\ \A c \in RealmCalls : c # Uncalled /\ c # Over
<1>1. Uncalled.todo # Over.todo
  BY DEF Uncalled, Over
<1>2. DOMAIN Uncalled = {"todo"} /\ DOMAIN Over = {"todo"}
  BY DEF Uncalled, Over
<1>3. \A c \in RealmCalls : "on" \in DOMAIN c
  BY DEF RealmCalls
<1> QED BY <1>1, <1>2, <1>3

LEMMA CallAtWork ==
  ASSUME RealmType, NEW r \in AtWork
  PROVE  call[r] \in RealmCalls /\ call[r].todo \in PassTodos \cup CreateTodos /\ r \in RealmRequests
BY DEF RealmType, AtWork, RealmCalls

\* The steps of a call in their order.
LEMMA PassSteps ==
  ASSUME NEW t \in PassTodos
  PROVE  /\ t # <<>>
         /\ Head(t) = "default" =>
              /\ t[2] = "post-broker-mfa" =>
                   Tail(t) = <<"post-broker-mfa", "list", "idps", "page">>
              /\ t[2] # "post-broker-mfa" => Tail(t) = <<"list", "idps", "page">>
         /\ Head(t) = "post-broker-mfa" => Tail(t) = <<"list", "idps", "page">>
         /\ Head(t) = "fill-post-broker-mfa" => Tail(t) = <<"list", "idps", "page">>
         /\ Head(t) = "list" => Tail(t) = <<"idps", "page">>
         /\ Head(t) = "idps" => Tail(t) = <<"page">>
         /\ Head(t) = "page" => t = <<"page">>
         /\ Head(t) = "flag" => t = <<"flag">> \/ t = <<"flag", "page">>
         /\ Head(t) \in {"default", "post-broker-mfa", "fill-post-broker-mfa", "list", "idps",
                         "page", "flag"}
<1>1. CASE t = <<"default", "post-broker-mfa", "list", "idps", "page">>
  BY <1>1
<1>2. CASE t = <<"default", "list", "idps", "page">>
  BY <1>2
<1>3. CASE t = <<"post-broker-mfa", "list", "idps", "page">>
  BY <1>3
<1>4. CASE t = <<"fill-post-broker-mfa", "list", "idps", "page">>
  BY <1>4
<1>5. CASE t = <<"list", "idps", "page">>
  BY <1>5
<1>6. CASE t = <<"idps", "page">>
  BY <1>6
<1>7. CASE t = <<"page">>
  BY <1>7
<1>8. CASE t = <<"flag", "page">>
  BY <1>8
<1>9. CASE t = <<"flag">>
  BY <1>9
<1> QED BY <1>1, <1>2, <1>3, <1>4, <1>5, <1>6, <1>7, <1>8, <1>9 DEF PassTodos

LEMMA CreateSteps ==
  ASSUME NEW t \in CreateTodos
  PROVE  /\ t # <<>>
         /\ Head(t) = "auto-link" => Tail(t) = <<"enforced", "create">>
         /\ Head(t) = "fill-auto-link" => Tail(t) = <<"enforced", "create">>
         /\ Head(t) = "enforced" => Tail(t) = <<"create">>
         /\ Head(t) = "create" => t = <<"create">>
         /\ Head(t) \in {"auto-link", "fill-auto-link", "enforced", "create"}
<1>1. CASE t = <<"auto-link", "enforced", "create">>
  BY <1>1
<1>2. CASE t = <<"fill-auto-link", "enforced", "create">>
  BY <1>2
<1>3. CASE t = <<"enforced", "create">>
  BY <1>3
<1>4. CASE t = <<"create">>
  BY <1>4
<1> QED BY <1>1, <1>2, <1>3, <1>4 DEF CreateTodos

\* What a step leaves to do.
LEMMA TodoSteps ==
  /\ <<"default", "post-broker-mfa", "list", "idps", "page">> \in PassTodos
  /\ Head(<<"default", "post-broker-mfa", "list", "idps", "page">>) = "default"
  /\ <<"default", "list", "idps", "page">> \in PassTodos
  /\ Head(<<"default", "list", "idps", "page">>) = "default"
  /\ <<"post-broker-mfa", "list", "idps", "page">> \in PassTodos
  /\ Head(<<"post-broker-mfa", "list", "idps", "page">>) = "post-broker-mfa"
  /\ <<"fill-post-broker-mfa", "list", "idps", "page">> \in PassTodos
  /\ Head(<<"fill-post-broker-mfa", "list", "idps", "page">>) = "fill-post-broker-mfa"
  /\ <<"list", "idps", "page">> \in PassTodos /\ Head(<<"list", "idps", "page">>) = "list"
  /\ <<"idps", "page">> \in PassTodos /\ Head(<<"idps", "page">>) = "idps"
  /\ <<"page">> \in PassTodos /\ Head(<<"page">>) = "page" /\ Tail(<<"page">>) = <<>>
  /\ <<"flag", "page">> \in PassTodos /\ Head(<<"flag", "page">>) = "flag"
  /\ Tail(<<"flag", "page">>) = <<"page">>
  /\ <<"flag">> \in PassTodos /\ Head(<<"flag">>) = "flag" /\ Tail(<<"flag">>) = <<>>
  /\ <<"auto-link", "enforced", "create">> \in CreateTodos
  /\ <<"fill-auto-link", "enforced", "create">> \in CreateTodos
  /\ Head(<<"fill-auto-link", "enforced", "create">>) = "fill-auto-link"
  /\ <<"enforced", "create">> \in CreateTodos /\ Head(<<"enforced", "create">>) = "enforced"
  /\ <<"create">> \in CreateTodos /\ Head(<<"create">>) = "create" /\ Tail(<<"create">>) = <<>>
BY DEF PassTodos, CreateTodos

\* A call that goes on is the only one at work; one that ends leaves nobody.
LEMMA GoesOn ==
  ASSUME RealmType, SerialInv, NEW r \in AtWork, NEW c \in RealmCalls,
         Goes(r, c)
  PROVE  /\ call' \in [RealmRequests -> {Uncalled, Over} \cup RealmCalls]
         /\ AtWork' = {r} /\ call'[r] = c
<1>1. c.todo # <<>>
  BY PassSteps, CreateSteps DEF RealmCalls
<1>2. r \in RealmRequests /\ AtWork = {r}
  BY DEF SerialInv, AtWork
<1>3. call' = [call EXCEPT ![r] = c]
  BY <1>1 DEF Goes
<1> QED BY <1>2, <1>3, CallKinds DEF RealmType, AtWork

LEMMA GoesHome ==
  ASSUME RealmType, SerialInv, NEW r \in AtWork, NEW c, c.todo = <<>>, Goes(r, c)
  PROVE  /\ call' \in [RealmRequests -> {Uncalled, Over} \cup RealmCalls]
         /\ AtWork' = {}
<1>2. r \in RealmRequests /\ AtWork = {r}
  BY DEF SerialInv, AtWork
<1>3. call' = [call EXCEPT ![r] = Over]
  BY DEF Goes
<1> QED BY <1>2, <1>3, CallKinds DEF RealmType, AtWork

LEMMA Fillings == Filling("auto-link") = "fill-auto-link"
                  /\ Filling("post-broker-mfa") = "fill-post-broker-mfa"
BY DEF Filling

LEMMA Apart == PassTodos \cap CreateTodos = {}
<1> SUFFICES ASSUME NEW t \in PassTodos, t \in CreateTodos PROVE FALSE
  OBVIOUS
<1> QED BY PassSteps, CreateSteps

LEMMA NoFilling == ASSUME NEW f \in Flows
                   PROVE  Filling(f) \in {"fill-auto-link", "fill-post-broker-mfa"}
BY DEF Filling

\* What is left to show of a step of the call r, which goes on as c.
LEMMA PassGoesOn ==
  ASSUME RealmType, SerialInv, NEW r \in AtWork, NEW c \in RealmCalls, Goes(r, c),
         c.todo \in PassTodos, Passing(c)',
         \A f \in Flows : flow'[f] = "partial" => Head(c.todo) = Filling(f)
  PROVE  SerialInv'
<1>1. AtWork' = {r} /\ call'[r] = c
  BY GoesOn
<1>2. c.todo \notin CreateTodos
  BY Apart
<1>3. Passing(call[r])'
  BY <1>1 DEF Passing, Ahead, Place
<1>4. \A q \in AtWork' : q = r
  BY <1>1
<1>5. \A q \in AtWork' : call'[q].todo \in CreateTodos => FALSE
  BY <1>1, <1>2
<1>6. \A q \in AtWork' : call'[q].todo \in PassTodos => Passing(call[q])'
  BY <1>3, <1>4
<1> HIDE DEF Passing, AtWork
<1> QED BY <1>1, <1>4, <1>5, <1>6 DEF SerialInv

LEMMA CreateGoesOn ==
  ASSUME RealmType, SerialInv, NEW r \in AtWork, NEW c \in RealmCalls, Goes(r, c),
         c.todo \in CreateTodos, Enforced', c.todo = <<"create">> => c.on = totpDefault',
         \A f \in Flows : flow'[f] = "partial" => Head(c.todo) = Filling(f)
  PROVE  SerialInv'
<1>1. AtWork' = {r} /\ call'[r] = c
  BY GoesOn
<1>2. c.todo \notin PassTodos
  BY Apart
<1> HIDE DEF Passing, AtWork, Enforced
<1> QED BY <1>1, <1>2 DEF SerialInv

LEMMA CallGoesHome ==
  ASSUME RealmType, SerialInv, NEW r \in AtWork, NEW c, c.todo = <<>>, Goes(r, c), Enforced',
         \A f \in Flows : flow'[f] # "partial"
  PROVE  SerialInv'
<1>1. AtWork' = {}
  BY GoesHome
<1> HIDE DEF Passing, AtWork, Enforced
<1> QED BY <1>1 DEF SerialInv

\* A flow that is half built is being built by the call at work.
LEMMA NoneHalfBuilt ==
  ASSUME SerialInv, NEW r \in AtWork,
         Head(call[r].todo) \notin {"fill-auto-link", "fill-post-broker-mfa"}
  PROVE  \A f \in Flows : flow[f] # "partial"
<1>1. \A q \in AtWork : q = r
  BY DEF SerialInv
<1> QED BY <1>1, NoFilling DEF SerialInv

LEMMA PlaceIs == ASSUME RealmType, NEW u \in kcUsers PROVE Place(u) \in Nat /\ Place(u) > 0
<1>1. kcUsers \in SUBSET Nat /\ IsFiniteSet(kcUsers)
  BY RealmsAssumption DEF RealmType
<1> QED BY <1>1, PlacesAre DEF Place

-----------------------------------------------------------------------------
\* Step by step.
LEMMA BeginsCall ==
  ASSUME RealmType, SerialInv, NEW r \in RealmRequests, NEW c \in RealmCalls, BeginCall(r, c), ~muddled'
  PROVE  /\ AtWork = {} /\ AtWork' = {r} /\ call'[r] = c
         /\ call' \in [RealmRequests -> {Uncalled, Over} \cup RealmCalls]
         /\ \A f \in Flows : flow[f] # "partial"
<1>1. AtWork = {} /\ call' = [call EXCEPT ![r] = c]
  BY DEF BeginCall
<1>2. AtWork' = {r} /\ call'[r] = c /\ call' \in [RealmRequests -> {Uncalled, Over} \cup RealmCalls]
  BY <1>1, CallKinds DEF RealmType, AtWork
<1> QED BY <1>1, <1>2 DEF SerialInv

LEMMA SetMfaStep ==
  ASSUME RealmType, SerialInv, ~muddled', NEW r \in RealmRequests, NEW on \in BOOLEAN,
         SetMfaEnforcement(r, on)
  PROVE  RealmType' /\ SerialInv'
<1>1. PICK todo : todo = IF on THEN <<"default", "post-broker-mfa", "list", "idps", "page">>
                         ELSE <<"default", "list", "idps", "page">>
  OBVIOUS
<1>2. todo = IF on = TRUE THEN <<"default", "post-broker-mfa", "list", "idps", "page">>
             ELSE <<"default", "list", "idps", "page">>
  BY <1>1
<1>3. todo \in PassTodos /\ Head(todo) = "default" /\ (todo[2] = "post-broker-mfa" <=> on = TRUE)
  BY <1>2, TodoSteps
<1>4. PICK c : c = Steps(todo, on)
  OBVIOUS
<1>5. /\ c \in RealmCalls /\ c.todo = todo /\ c.on = on /\ c.first = 0 /\ c.page = <<>>
      /\ c.seen = {} /\ c.idps = {}
  BY <1>3, <1>4 DEF Steps, RealmCalls
<1>6. /\ BeginCall(r, c) /\ enforcement' = IF on = TRUE THEN "on" ELSE "off"
      /\ UNCHANGED <<totpDefault, flow, idp, kcUsers, pending, otp>>
  BY <1>1, <1>4 DEF SetMfaEnforcement, BeginCall
<1>7. /\ AtWork' = {r} /\ call'[r] = c
      /\ call' \in [RealmRequests -> {Uncalled, Over} \cup RealmCalls]
      /\ \A f \in Flows : flow[f] # "partial"
  BY <1>5, <1>6, BeginsCall
<1>8. RealmType'
  BY <1>6, <1>7 DEF RealmType
<1>9. \A u \in kcUsers : Place(u)' \in Nat /\ Place(u)' > 0
  BY <1>6, PlaceIs DEF Place
<1>10. todo # <<"flag">>
  BY <1>3, TodoSteps
<1>11. Passing(c)'
  BY <1>3, <1>5, <1>6, <1>9, <1>10 DEF Passing, Ahead, RealmType
<1>12. todo \notin CreateTodos
  BY <1>3, Apart
<1>13. \A q \in AtWork' : q = r
  BY <1>7
<1>14. \A q \in AtWork' : Passing(call[q])'
  BY <1>7, <1>11, <1>13
<1> HIDE DEF Passing, AtWork
<1>15. SerialInv'
  BY <1>3, <1>5, <1>6, <1>7, <1>12, <1>13, <1>14 DEF SerialInv
<1> QED BY <1>8, <1>15

LEMMA CreateIdpStep ==
  ASSUME RealmType, SerialInv, ~muddled', NEW r \in RealmRequests, CreateIdentityProvider(r)
  PROVE  RealmType' /\ SerialInv'
<1>1. PICK c : c = Steps(<<"auto-link", "enforced", "create">>, FALSE)
  OBVIOUS
<1>2. c \in RealmCalls /\ c.todo = <<"auto-link", "enforced", "create">>
  BY <1>1, TodoSteps DEF Steps, RealmCalls
<1>3. /\ BeginCall(r, c) /\ UNCHANGED <<totpDefault, flow, idp, kcUsers, pending, otp, enforcement>>
  BY <1>1 DEF CreateIdentityProvider, BeginCall
<1>4. /\ AtWork = {} /\ AtWork' = {r} /\ call'[r] = c
      /\ call' \in [RealmRequests -> {Uncalled, Over} \cup RealmCalls]
      /\ \A f \in Flows : flow[f] # "partial"
  BY <1>2, <1>3, BeginsCall
<1>5. RealmType'
  BY <1>3, <1>4 DEF RealmType
<1>6. c.todo \in CreateTodos /\ c.todo \notin PassTodos /\ c.todo # <<"create">>
  BY <1>2, TodoSteps, Apart
<1>7. Enforced'
  BY <1>3, <1>4 DEF SerialInv, Enforced
<1> HIDE DEF Passing, AtWork, Enforced
<1>8. SerialInv'
  BY <1>3, <1>4, <1>6, <1>7 DEF SerialInv
<1> QED BY <1>5, <1>8

\* A step of a call leaves the rest of it.
LEMMA RestOf ==
  ASSUME RealmType, NEW r \in AtWork, Tail(call[r].todo) \in PassTodos \cup CreateTodos
  PROVE  /\ Rest(r) \in RealmCalls /\ Rest(r).todo = Tail(call[r].todo)
         /\ Rest(r).on = call[r].on /\ Rest(r).first = call[r].first
         /\ Rest(r).page = call[r].page /\ Rest(r).seen = call[r].seen
         /\ Rest(r).idps = call[r].idps
BY CallAtWork DEF Rest, RealmCalls

LEMMA SetDefaultStep ==
  ASSUME RealmType, SerialInv, ~muddled', NEW r \in RealmRequests, SetDefaultAction(r)
  PROVE  RealmType' /\ SerialInv'
<1>1. /\ r \in AtWork /\ Head(call[r].todo) = "default" /\ totpDefault' = call[r].on
      /\ Goes(r, Rest(r))
      /\ UNCHANGED <<flow, idp, kcUsers, pending, otp, enforcement, muddled>>
  BY DEF SetDefaultAction, Next1
<1>2. PICK c \in RealmCalls : c = call[r]
  BY <1>1, CallAtWork
<1>3. c.todo \in PassTodos /\ Passing(c)
  BY <1>1, <1>2, CallAtWork, CreateSteps DEF SerialInv
<1>4. PICK d : d = Rest(r)
  OBVIOUS
<1>5. Tail(c.todo) = IF c.on = TRUE THEN <<"post-broker-mfa", "list", "idps", "page">>
                     ELSE <<"list", "idps", "page">>
  BY <1>1, <1>2, <1>3, PassSteps DEF Passing
<1>6. /\ Tail(c.todo) \in PassTodos
      /\ Head(Tail(c.todo)) = IF c.on = TRUE THEN "post-broker-mfa" ELSE "list"
  BY <1>5, TodoSteps
<1>7. /\ d \in RealmCalls /\ d.todo = Tail(c.todo) /\ d.on = c.on /\ d.first = c.first
      /\ d.page = c.page /\ d.seen = c.seen /\ d.idps = c.idps
  BY <1>1, <1>2, <1>4, <1>6, RestOf
<1>8. RealmType'
  BY <1>1, <1>2, <1>4, <1>7, GoesOn DEF RealmType, RealmCalls
<1>9. \A u \in kcUsers : Place(u)' \in Nat /\ Place(u)' > 0
  BY <1>1, PlaceIs DEF Place
<1>10. d.todo # <<"flag">> /\ c.first = 0 /\ c.page = <<>> /\ c.seen = {}
       /\ enforcement = IF c.on = TRUE THEN "on" ELSE "off"
  BY <1>1, <1>2, <1>3, <1>6, <1>7, TodoSteps DEF Passing
<1>14. \A u \in kcUsers : Ahead(d, u)'
  BY <1>7, <1>9, <1>10 DEF Ahead
<1>15. kcUsers' = kcUsers /\ pending' = pending /\ otp' = otp /\ pending \subseteq kcUsers
       /\ totpDefault' = d.on /\ enforcement' = IF d.on = TRUE THEN "on" ELSE "off"
  BY <1>1, <1>2, <1>7, <1>10 DEF RealmType
<1>16. Head(d.todo) \in {"post-broker-mfa", "list"} /\ d.first = 0 /\ d.page = <<>> /\ d.seen = {}
       /\ (Head(d.todo) = "post-broker-mfa" <=> d.on = TRUE)
  BY <1>6, <1>7, <1>10
<1>11. Passing(d)'
  BY <1>14, <1>15, <1>16 DEF Passing
<1>12. \A f \in Flows : flow'[f] # "partial"
  BY <1>1, NoneHalfBuilt
<1>13. SerialInv'
  BY <1>1, <1>4, <1>6, <1>7, <1>11, <1>12, PassGoesOn
<1> QED BY <1>8, <1>13

LEMMA FirstChanged ==
  /\ [<<"post-broker-mfa", "list", "idps", "page">> EXCEPT ![1] = "fill-post-broker-mfa"]
       = <<"fill-post-broker-mfa", "list", "idps", "page">>
  /\ [<<"auto-link", "enforced", "create">> EXCEPT ![1] = "fill-auto-link"]
       = <<"fill-auto-link", "enforced", "create">>
OBVIOUS

LEMMA FirstIs ==
  /\ \A t \in PassTodos : Head(t) = "post-broker-mfa" =>
       t = <<"post-broker-mfa", "list", "idps", "page">>
  /\ \A t \in CreateTodos : Head(t) = "auto-link" =>
       t = <<"auto-link", "enforced", "create">>
<1>1. ASSUME NEW t \in PassTodos, Head(t) = "post-broker-mfa"
      PROVE  t = <<"post-broker-mfa", "list", "idps", "page">>
  BY <1>1, TodoSteps DEF PassTodos
<1>2. ASSUME NEW t \in CreateTodos, Head(t) = "auto-link"
      PROVE  t = <<"auto-link", "enforced", "create">>
  BY <1>2, TodoSteps DEF CreateTodos
<1> QED BY <1>1, <1>2

LEMMA EnsureStep ==
  ASSUME RealmType, SerialInv, ~muddled', NEW r \in RealmRequests, NEW f \in Flows, EnsureFlow(r, f)
  PROVE  RealmType' /\ SerialInv'
<1>1. /\ r \in AtWork /\ Head(call[r].todo) = f
      /\ UNCHANGED <<totpDefault, idp, kcUsers, pending, otp, enforcement, muddled>>
  BY DEF EnsureFlow, Next1
<1>2. PICK c \in RealmCalls : c = call[r]
  BY <1>1, CallAtWork
<1>3. f \in {"auto-link", "post-broker-mfa"}
  BY DEF Flows
<1>4. \A g \in Flows : flow[g] # "partial"
  BY <1>1, <1>3, NoneHalfBuilt
<1>5. PICK d : d = IF flow[f] # "absent" THEN Rest(r) ELSE [call[r] EXCEPT !.todo[1] = Filling(f)]
  OBVIOUS
<1>6. Goes(r, d) /\ flow' = IF flow[f] # "absent" THEN flow ELSE [flow EXCEPT ![f] = "partial"]
  BY <1>5 DEF EnsureFlow
<1>7. flow' \in [Flows -> {"absent", "partial", "complete"}]
      /\ (flow[f] # "absent" => flow[f] = "complete")
  BY <1>4, <1>6 DEF RealmType
<1>8. \A g \in Flows : flow'[g] = "partial" => g = f /\ flow[f] = "absent"
  BY <1>4, <1>6, <1>7 DEF RealmType
<1>9. CASE f = "post-broker-mfa"
  <2>1. c.todo \in PassTodos /\ Passing(c)
    BY <1>1, <1>2, <1>9, CallAtWork, CreateSteps DEF SerialInv
  <2>2. c.todo = <<"post-broker-mfa", "list", "idps", "page">>
    BY <1>1, <1>2, <1>9, <2>1, FirstIs
  <2>3. Tail(c.todo) = <<"list", "idps", "page">>
    BY <1>1, <1>2, <1>9, <2>1, PassSteps
  <2>4. /\ d \in RealmCalls /\ d.on = c.on /\ d.first = c.first
        /\ d.page = c.page /\ d.seen = c.seen /\ d.idps = c.idps
        /\ d.todo = IF flow[f] # "absent" THEN <<"list", "idps", "page">>
                    ELSE <<"fill-post-broker-mfa", "list", "idps", "page">>
    <3>1. CASE flow[f] # "absent"
      BY <1>1, <1>2, <1>5, <2>3, <3>1, RestOf, TodoSteps
    <3>2. CASE flow[f] = "absent"
      <4>1. d = [c EXCEPT !.todo = [c.todo EXCEPT ![1] = "fill-post-broker-mfa"]]
        BY <1>2, <1>5, <1>9, <3>2, Fillings
      <4>2. d = [c EXCEPT !.todo = <<"fill-post-broker-mfa", "list", "idps", "page">>]
        BY <2>2, <4>1, FirstChanged
      <4> QED BY <3>2, <4>2, TodoSteps DEF RealmCalls
    <3> QED BY <3>1, <3>2
  <2>5. /\ d.todo \in PassTodos /\ d.todo # <<"flag">>
        /\ Head(d.todo) = IF flow[f] # "absent" THEN "list" ELSE "fill-post-broker-mfa"
    BY <2>4, TodoSteps
  <2>6. /\ totpDefault = c.on /\ c.on = TRUE /\ c.first = 0 /\ c.page = <<>> /\ c.seen = {}
        /\ enforcement = "on"
    BY <1>1, <1>2, <1>9, <2>1 DEF Passing
  <2>7. \A u \in kcUsers : Place(u)' \in Nat /\ Place(u)' > 0
    BY <1>1, PlaceIs DEF Place
  <2>8. \A u \in kcUsers : Ahead(d, u)'
    BY <2>4, <2>5, <2>6, <2>7 DEF Ahead
  <2>9. flow[f] # "absent" => flow'["post-broker-mfa"] = "complete"
    BY <1>6, <1>7, <1>9
  <2>10. Passing(d)'
    BY <1>1, <2>4, <2>5, <2>6, <2>8, <2>9 DEF Passing
  <2>11. \A g \in Flows : flow'[g] = "partial" => Head(d.todo) = Filling(g)
    BY <1>8, <1>9, <2>5, Fillings
  <2>12. SerialInv'
    BY <1>1, <1>6, <2>4, <2>5, <2>10, <2>11, PassGoesOn
  <2> QED BY <1>1, <1>6, <1>7, <2>4, <2>12, GoesOn DEF RealmType
<1>10. CASE f = "auto-link"
  <2>1. c.todo \in CreateTodos /\ Enforced
    BY <1>1, <1>2, <1>10, CallAtWork, PassSteps DEF SerialInv
  <2>2. c.todo = <<"auto-link", "enforced", "create">>
    BY <1>1, <1>2, <1>10, <2>1, FirstIs
  <2>3. Tail(c.todo) = <<"enforced", "create">>
    BY <1>1, <1>2, <1>10, <2>1, CreateSteps
  <2>4. /\ d \in RealmCalls
        /\ d.todo = IF flow[f] # "absent" THEN <<"enforced", "create">>
                    ELSE <<"fill-auto-link", "enforced", "create">>
    <3>1. CASE flow[f] # "absent"
      BY <1>1, <1>2, <1>5, <2>3, <3>1, RestOf, TodoSteps
    <3>2. CASE flow[f] = "absent"
      <4>1. d = [c EXCEPT !.todo = [c.todo EXCEPT ![1] = "fill-auto-link"]]
        BY <1>2, <1>5, <1>10, <3>2, Fillings
      <4>2. d = [c EXCEPT !.todo = <<"fill-auto-link", "enforced", "create">>]
        BY <2>2, <4>1, FirstChanged
      <4> QED BY <3>2, <4>2, TodoSteps DEF RealmCalls
    <3> QED BY <3>1, <3>2
  <2>5. /\ d.todo \in CreateTodos
        /\ Head(d.todo) = IF flow[f] # "absent" THEN "enforced" ELSE "fill-auto-link"
    BY <2>4, TodoSteps
  <2>6. d.todo # <<"create">>
    BY <2>5, TodoSteps
  <2>7. Enforced'
    BY <1>1, <1>3, <1>6, <1>10, <2>1 DEF Enforced, RealmType, Flows
  <2>8. \A g \in Flows : flow'[g] = "partial" => Head(d.todo) = Filling(g)
    BY <1>8, <1>10, <2>5, Fillings
  <2>9. SerialInv'
    BY <1>1, <1>6, <2>4, <2>5, <2>6, <2>7, <2>8, CreateGoesOn
  <2> QED BY <1>1, <1>6, <1>7, <2>4, <2>9, GoesOn DEF RealmType
<1> QED BY <1>3, <1>9, <1>10

LEMMA FillStep ==
  ASSUME RealmType, SerialInv, ~muddled', NEW r \in RealmRequests, NEW f \in Flows, FillFlow(r, f)
  PROVE  RealmType' /\ SerialInv'
<1>1. /\ r \in AtWork /\ Head(call[r].todo) = Filling(f) /\ Goes(r, Rest(r))
      /\ flow' = [flow EXCEPT ![f] = "complete"]
      /\ UNCHANGED <<totpDefault, idp, kcUsers, pending, otp, enforcement, muddled>>
  BY DEF FillFlow, Next1
<1>2. PICK c \in RealmCalls : c = call[r]
  BY <1>1, CallAtWork
<1>3. f \in {"auto-link", "post-broker-mfa"}
  BY DEF Flows
<1>4. \A q \in AtWork : q = r
  BY <1>1 DEF SerialInv
<1>5. /\ flow' \in [Flows -> {"absent", "partial", "complete"}] /\ flow'[f] = "complete"
      /\ \A g \in Flows : g # f => flow'[g] = flow[g]
  BY <1>1 DEF RealmType
<1>6. \A g \in Flows : flow'[g] # "partial"
  <2>1. \A g \in Flows : flow[g] = "partial" => Filling(g) = Filling(f)
    BY <1>1, <1>4 DEF SerialInv
  <2> QED BY <1>3, <1>5, <2>1, Fillings DEF Flows
<1>7. CASE f = "post-broker-mfa"
  <2>1. c.todo \in PassTodos /\ Passing(c) /\ Head(c.todo) = "fill-post-broker-mfa"
    BY <1>1, <1>2, <1>7, CallAtWork, CreateSteps, Fillings DEF SerialInv
  <2>2. Tail(c.todo) = <<"list", "idps", "page">>
    BY <2>1, PassSteps
  <2>3. PICK d : d = Rest(r)
    OBVIOUS
  <2>4. /\ d \in RealmCalls /\ d.on = c.on /\ d.first = c.first /\ d.todo = <<"list", "idps", "page">>
        /\ d.page = c.page /\ d.seen = c.seen /\ d.idps = c.idps
    BY <1>1, <1>2, <2>2, <2>3, RestOf, TodoSteps
  <2>5. d.todo \in PassTodos /\ d.todo # <<"flag">> /\ Head(d.todo) = "list"
    BY <2>4, TodoSteps
  <2>6. /\ totpDefault = c.on /\ c.on = TRUE /\ c.first = 0 /\ c.page = <<>> /\ c.seen = {}
        /\ enforcement = "on"
    BY <2>1 DEF Passing
  <2>7. \A u \in kcUsers : Place(u)' \in Nat /\ Place(u)' > 0
    BY <1>1, PlaceIs DEF Place
  <2>8. \A u \in kcUsers : Ahead(d, u)'
    BY <2>4, <2>5, <2>6, <2>7 DEF Ahead
  <2>9. Passing(d)'
    BY <1>1, <1>5, <1>7, <2>4, <2>5, <2>6, <2>8 DEF Passing
  <2>10. SerialInv'
    BY <1>1, <1>6, <2>3, <2>4, <2>5, <2>9, PassGoesOn
  <2> QED BY <1>1, <1>5, <2>3, <2>4, <2>10, GoesOn DEF RealmType
<1>8. CASE f = "auto-link"
  <2>1. c.todo \in CreateTodos /\ Enforced /\ Head(c.todo) = "fill-auto-link"
    BY <1>1, <1>2, <1>8, CallAtWork, PassSteps, Fillings DEF SerialInv
  <2>2. Tail(c.todo) = <<"enforced", "create">>
    BY <2>1, CreateSteps
  <2>3. PICK d : d = Rest(r)
    OBVIOUS
  <2>4. d \in RealmCalls /\ d.todo = <<"enforced", "create">>
    BY <1>1, <1>2, <2>2, <2>3, RestOf, TodoSteps
  <2>5. d.todo \in CreateTodos /\ d.todo # <<"create">>
    BY <2>4, TodoSteps
  <2>6. Enforced'
    BY <1>1, <1>5, <1>8, <2>1 DEF Enforced, Flows
  <2>7. SerialInv'
    BY <1>1, <1>6, <2>3, <2>4, <2>5, <2>6, CreateGoesOn
  <2> QED BY <1>1, <1>5, <2>3, <2>4, <2>7, GoesOn DEF RealmType
<1> QED BY <1>3, <1>7, <1>8

\* What a step of setMfaEnforcement on the providers finds.
LEMMA OnProviders ==
  ASSUME RealmType, SerialInv, NEW r \in AtWork, Head(call[r].todo) \in {"list", "idps"}
  PROVE  LET c == call[r] IN
         /\ c \in RealmCalls /\ c.todo \in PassTodos /\ Passing(c)
         /\ c.first = 0 /\ c.page = <<>> /\ c.seen = {}
         /\ totpDefault = c.on /\ enforcement = IF c.on = TRUE THEN "on" ELSE "off"
         /\ c.on = TRUE => flow["post-broker-mfa"] = "complete"
<1>1. PICK c \in RealmCalls : c = call[r]
  BY CallAtWork
<1>2. c.todo \in PassTodos /\ Passing(c)
  BY <1>1, CallAtWork, CreateSteps DEF SerialInv
<1>3. /\ c.first = 0 /\ c.page = <<>> /\ c.seen = {}
      /\ totpDefault = c.on /\ enforcement = IF c.on = TRUE THEN "on" ELSE "off"
      /\ c.on = TRUE => flow["post-broker-mfa"] = "complete"
  BY <1>1, <1>2 DEF Passing
<1> QED BY <1>1, <1>2, <1>3

\* A call that is not yet at the users has all of them ahead.
LEMMA AllAhead ==
  ASSUME RealmType, NEW d \in RealmCalls, d.first = 0, d.todo # <<"flag">>, kcUsers' = kcUsers
  PROVE  \A u \in kcUsers : Ahead(d, u)'
<1>1. \A u \in kcUsers : Place(u)' \in Nat /\ Place(u)' > 0
  BY PlaceIs DEF Place
<1> QED BY <1>1 DEF Ahead

LEMMA ListStep ==
  ASSUME RealmType, SerialInv, ~muddled', NEW r \in RealmRequests, ListProviders(r)
  PROVE  RealmType' /\ SerialInv'
<1>1. /\ r \in AtWork /\ Head(call[r].todo) = "list"
      /\ UNCHANGED <<totpDefault, flow, idp, kcUsers, pending, otp, enforcement, muddled>>
  BY DEF ListProviders, Next1
<1>2. PICK c : c = call[r]
  OBVIOUS
<1>3. /\ c \in RealmCalls /\ c.todo \in PassTodos /\ c.first = 0 /\ c.page = <<>> /\ c.seen = {}
      /\ totpDefault = c.on /\ enforcement = IF c.on = TRUE THEN "on" ELSE "off"
      /\ c.on = TRUE => flow["post-broker-mfa"] = "complete"
  BY <1>1, <1>2, OnProviders
<1>4. PICK d : d = [Rest(r) EXCEPT !.idps = {i \in Idps : idp[i] # "none"}]
  OBVIOUS
<1>5. Tail(c.todo) = <<"idps", "page">>
  BY <1>1, <1>2, <1>3, PassSteps
<1>6. /\ Rest(r) \in RealmCalls /\ Rest(r).todo = <<"idps", "page">> /\ Rest(r).on = c.on
      /\ Rest(r).first = 0 /\ Rest(r).page = <<>> /\ Rest(r).seen = {}
  BY <1>1, <1>2, <1>3, <1>5, RestOf, TodoSteps
<1>7. /\ d \in RealmCalls /\ d.on = c.on /\ d.first = 0 /\ d.page = <<>> /\ d.seen = {}
      /\ d.todo = <<"idps", "page">> /\ d.idps = {i \in Idps : idp[i] # "none"}
  BY <1>4, <1>6 DEF RealmCalls
<1>8. d.todo \in PassTodos /\ d.todo # <<"flag">> /\ Head(d.todo) = "idps"
  BY <1>7, TodoSteps
<1>9. \A u \in kcUsers : Ahead(d, u)'
  BY <1>1, <1>7, <1>8, AllAhead
<1>10. pending \subseteq kcUsers /\ \A i \in Idps \ d.idps : idp[i] = "none"
  BY <1>7 DEF RealmType
<1>11. Passing(d)'
  BY <1>1, <1>3, <1>7, <1>8, <1>9, <1>10 DEF Passing
<1>12. \A f \in Flows : flow'[f] # "partial"
  BY <1>1, NoneHalfBuilt
<1>13. Goes(r, d)
  BY <1>4 DEF ListProviders
<1>14. SerialInv'
  BY <1>1, <1>7, <1>8, <1>11, <1>12, <1>13, PassGoesOn
<1> QED BY <1>1, <1>7, <1>13, <1>14, GoesOn DEF RealmType

LEMMA UpdateStep ==
  ASSUME RealmType, SerialInv, ~muddled', NEW r \in RealmRequests, UpdateProvider(r)
  PROVE  RealmType' /\ SerialInv'
<1>1. /\ r \in AtWork /\ Head(call[r].todo) = "idps"
      /\ UNCHANGED <<totpDefault, flow, kcUsers, pending, otp, enforcement, muddled>>
  BY DEF UpdateProvider, Next1
<1>2. PICK c : c = call[r]
  OBVIOUS
<1>3. /\ c \in RealmCalls /\ c.todo \in PassTodos /\ c.first = 0 /\ c.page = <<>> /\ c.seen = {}
      /\ totpDefault = c.on /\ enforcement = IF c.on = TRUE THEN "on" ELSE "off"
      /\ c.on = TRUE => flow["post-broker-mfa"] = "complete"
      /\ \A i \in Idps \ c.idps : idp[i] \in {"none", IF c.on = TRUE THEN "otp" ELSE "plain"}
  <2>1. Passing(c)
    BY <1>1, <1>2, OnProviders
  <2>2. \A i \in Idps \ c.idps : idp[i] \in {"none", IF c.on = TRUE THEN "otp" ELSE "plain"}
    BY <1>1, <1>2, <2>1 DEF Passing
  <2> QED BY <1>1, <1>2, <2>2, OnProviders
<1>4. \A f \in Flows : flow'[f] # "partial"
  BY <1>1, NoneHalfBuilt
<1>5. pending \subseteq kcUsers
  BY DEF RealmType
<1>6. CASE c.idps = {}
  <2>1. Goes(r, Rest(r)) /\ idp' = idp
    BY <1>2, <1>6 DEF UpdateProvider
  <2>2. PICK d : d = Rest(r)
    OBVIOUS
  <2>3. Tail(c.todo) = <<"page">>
    BY <1>1, <1>2, <1>3, PassSteps
  <2>4. /\ d \in RealmCalls /\ d.todo = <<"page">> /\ d.on = c.on
        /\ d.first = 0 /\ d.page = <<>> /\ d.seen = {} /\ d.idps = {}
    BY <1>1, <1>2, <1>3, <1>6, <2>2, <2>3, RestOf, TodoSteps
  <2>5. d.todo \in PassTodos /\ d.todo # <<"flag">> /\ Head(d.todo) = "page" /\ d.todo # <<"flag", "page">>
    BY <2>4, TodoSteps
  <2>6. \A u \in kcUsers : Ahead(d, u)'
    BY <1>1, <2>4, <2>5, AllAhead
  <2>7. 0 <= Cardinality(kcUsers)
    BY FS_CardinalityType DEF RealmType
  <2>8. Passing(d)'
    BY <1>1, <1>3, <1>5, <1>6, <2>1, <2>4, <2>5, <2>6, <2>7 DEF Passing
  <2>9. SerialInv'
    BY <1>1, <1>4, <2>1, <2>2, <2>4, <2>5, <2>8, PassGoesOn
  <2> QED BY <1>1, <2>1, <2>2, <2>4, <2>9, GoesOn DEF RealmType
<1>7. CASE c.idps # {}
  <2>1. PICK i \in c.idps :
          /\ idp' = [idp EXCEPT ![i] = IF c.on = TRUE THEN "otp" ELSE "plain"]
          /\ Goes(r, [c EXCEPT !.idps = @ \ {i}])
    BY <1>2, <1>7 DEF UpdateProvider
  <2>2. PICK d : d = [c EXCEPT !.idps = @ \ {i}]
    OBVIOUS
  <2>3. i \in Idps /\ c.idps \subseteq Idps
    BY <1>3 DEF RealmCalls
  <2>4. /\ d \in RealmCalls /\ d.todo = c.todo /\ d.on = c.on
        /\ d.first = 0 /\ d.page = <<>> /\ d.seen = {} /\ d.idps = c.idps \ {i}
    BY <1>3, <2>2 DEF RealmCalls
  <2>5. d.todo \in PassTodos /\ Head(d.todo) = "idps" /\ d.todo # <<"flag">>
    BY <1>1, <1>2, <1>3, <2>4, TodoSteps
  <2>6. \A u \in kcUsers : Ahead(d, u)'
    BY <1>1, <2>4, <2>5, AllAhead
  <2>7. idp' \in [Idps -> {"none", "plain", "otp"}]
    BY <2>1 DEF RealmType
  <2>8. \A j \in Idps \ d.idps : idp'[j] \in {"none", IF c.on = TRUE THEN "otp" ELSE "plain"}
    BY <1>3, <2>1, <2>3, <2>4 DEF RealmType
  <2>9. Passing(d)'
    BY <1>1, <1>3, <1>5, <2>4, <2>5, <2>6, <2>8 DEF Passing
  <2>10. SerialInv'
    BY <1>1, <1>4, <2>1, <2>2, <2>4, <2>5, <2>9, PassGoesOn
  <2> QED BY <1>1, <2>1, <2>2, <2>4, <2>7, <2>10, GoesOn DEF RealmType
<1> QED BY <1>6, <1>7

\* What a step of setMfaEnforcement on the users finds.
LEMMA OnUsers ==
  ASSUME RealmType, SerialInv, NEW r \in AtWork, Head(call[r].todo) \in {"page", "flag"}
  PROVE  LET c == call[r] IN
         /\ c \in RealmCalls /\ c.todo \in PassTodos /\ Passing(c)
         /\ totpDefault = c.on /\ enforcement = IF c.on = TRUE THEN "on" ELSE "off"
         /\ c.on = TRUE => flow["post-broker-mfa"] = "complete"
         /\ \A i \in Idps : idp[i] \in {"none", IF c.on = TRUE THEN "otp" ELSE "plain"}
<1>1. PICK c \in RealmCalls : c = call[r]
  BY CallAtWork
<1>2. c.todo \in PassTodos /\ Passing(c)
  BY <1>1, CallAtWork, CreateSteps DEF SerialInv
<1>3. /\ totpDefault = c.on /\ enforcement = IF c.on = TRUE THEN "on" ELSE "off"
      /\ c.on = TRUE => flow["post-broker-mfa"] = "complete"
      /\ \A i \in Idps : idp[i] \in {"none", IF c.on = TRUE THEN "otp" ELSE "plain"}
  BY <1>1, <1>2 DEF Passing
<1> QED BY <1>1, <1>2, <1>3

LEMMA PageStep ==
  ASSUME RealmType, SerialInv, ~muddled', NEW r \in RealmRequests, ReadPage(r)
  PROVE  RealmType' /\ SerialInv'
<1>1. /\ r \in AtWork /\ Head(call[r].todo) = "page"
      /\ UNCHANGED <<totpDefault, flow, idp, kcUsers, pending, otp, enforcement, muddled>>
  BY DEF ReadPage, Next1
<1>2. PICK c : c = call[r]
  OBVIOUS
<1>3. /\ c \in RealmCalls /\ c.todo \in PassTodos /\ Passing(c)
      /\ totpDefault = c.on /\ enforcement = IF c.on = TRUE THEN "on" ELSE "off"
      /\ c.on = TRUE => flow["post-broker-mfa"] = "complete"
      /\ \A i \in Idps : idp[i] \in {"none", IF c.on = TRUE THEN "otp" ELSE "plain"}
  BY <1>1, <1>2, OnUsers
<1>4. /\ c.page = <<>> /\ c.first <= Cardinality(kcUsers) /\ c.first \in Nat
      /\ c.todo = <<"page">>
  BY <1>1, <1>2, <1>3, PassSteps DEF Passing, RealmCalls
<1>5. PICK page : page = Page(c.first)
  OBVIOUS
<1>6. /\ page \in Seq(Nat) /\ Cardinality(kcUsers) \in Nat
      /\ \A u \in kcUsers : Place(u) \in Nat
      /\ \A u \in kcUsers : Place(u) > c.first =>
           u \in ToSet(page) \/ (Place(u) > c.first + PageSize /\ ~LastPage(page))
      /\ ~LastPage(page) => c.first + PageSize <= Cardinality(kcUsers)
  BY <1>4, <1>5, PageIs
<1>7. PICK d : d = [c EXCEPT !.page = page, !.seen = pending \cap ToSet(page),
                             !.first = c.first + PageSize,
                             !.todo = IF LastPage(page) THEN <<"flag">> ELSE <<"flag", "page">>]
  OBVIOUS
<1>8. Goes(r, d)
  BY <1>2, <1>5, <1>7 DEF ReadPage
<1>9. pending \subseteq kcUsers /\ kcUsers \subseteq KcUsers /\ PageSize \in Nat
  BY RealmsAssumption DEF RealmType
<1>10. /\ d \in RealmCalls /\ d.on = c.on /\ d.first = c.first + PageSize /\ d.page = page
       /\ d.seen = pending \cap ToSet(page)
       /\ d.todo = IF LastPage(page) THEN <<"flag">> ELSE <<"flag", "page">>
  <2>1. PICK todo \in PassTodos : todo = IF LastPage(page) THEN <<"flag">> ELSE <<"flag", "page">>
    BY TodoSteps
  <2>2. PICK seen \in SUBSET KcUsers : seen = pending \cap ToSet(page)
    BY <1>9
  <2>3. PICK first \in Nat : first = c.first + PageSize
    BY <1>4, <1>9
  <2>4. d = [c EXCEPT !.page = page, !.seen = seen, !.first = first, !.todo = todo]
    BY <1>7, <2>1, <2>2, <2>3
  <2>5. /\ d \in RealmCalls /\ d.on = c.on /\ d.first = first /\ d.page = page /\ d.seen = seen
        /\ d.todo = todo
    BY <1>3, <1>6, <2>4 DEF RealmCalls
  <2> QED BY <2>1, <2>2, <2>3, <2>5
<1>11. d.todo \in PassTodos /\ Head(d.todo) = "flag"
       /\ (d.todo = <<"flag">> <=> LastPage(page))
  <2>1. <<"flag">> # <<"flag", "page">>
    BY TodoSteps
  <2> QED BY <1>10, <2>1, TodoSteps
<1>12. \A u \in kcUsers : Place(u) > c.first => u \in ToSet(page) \/ Ahead(d, u)
  BY <1>6, <1>10, <1>11 DEF Ahead
<1>13. \A u \in kcUsers : Ahead(c, u) => u \in ToSet(page) \/ Ahead(d, u)
  BY <1>12 DEF Ahead
<1>14. /\ c.on = TRUE => \A u \in kcUsers : u \in pending \cup otp \/ Ahead(c, u)
       /\ c.on = FALSE => \A u \in pending : Ahead(c, u)
  <2>1. ToSet(c.page) = {}
    BY <1>4 DEF ToSet
  <2> QED BY <1>3, <2>1 DEF Passing
<1>15. /\ c.on = TRUE => \A u \in kcUsers : u \in pending \cup otp \cup ToSet(page) \/ Ahead(d, u)
       /\ c.on = FALSE => \A u \in pending : u \in ToSet(page) \cap d.seen \/ Ahead(d, u)
  BY <1>9, <1>10, <1>13, <1>14
<1>16. \A u \in kcUsers : Ahead(d, u)' <=> Ahead(d, u)
  BY <1>1 DEF Ahead, Place
<1>17. d.todo = <<"flag", "page">> => d.first <= Cardinality(kcUsers)
  <2>1. <<"flag">> # <<"flag", "page">>
    BY TodoSteps
  <2> QED BY <1>6, <1>10, <2>1
<1>21. d.first # 0
  BY <1>4, <1>10, RealmsAssumption
<1>18. Passing(d)'
  BY <1>1, <1>3, <1>9, <1>10, <1>11, <1>15, <1>16, <1>17, <1>21 DEF Passing
<1>19. \A f \in Flows : flow'[f] # "partial"
  BY <1>1, NoneHalfBuilt
<1>20. SerialInv'
  BY <1>1, <1>8, <1>10, <1>11, <1>18, <1>19, PassGoesOn
<1> QED BY <1>1, <1>8, <1>10, <1>20, GoesOn DEF RealmType

\* Whoever is at the head of a page is in it, and the others are in the rest.
LEMMA HeadOfPage ==
  ASSUME NEW page \in Seq(Nat), page # <<>>
  PROVE  Tail(page) \in Seq(Nat) /\ \A v \in ToSet(page) : v = Head(page) \/ v \in ToSet(Tail(page))
<1>1. Tail(page) \in Seq(Nat) /\ Len(Tail(page)) = Len(page) - 1 /\ Len(page) \in Nat
  OBVIOUS
<1>2. ASSUME NEW k \in 1 .. Len(page) PROVE page[k] = Head(page) \/ page[k] \in ToSet(Tail(page))
  <2>1. CASE k = 1
    BY <2>1
  <2>2. CASE k # 1
    <3>1. k - 1 \in 1 .. Len(Tail(page)) /\ Tail(page)[k - 1] = page[k]
      BY <1>1, <2>2
    <3>2. DOMAIN Tail(page) = 1 .. Len(Tail(page))
      BY <1>1
    <3> QED BY <3>1, <3>2 DEF ToSet
  <2> QED BY <2>1, <2>2
<1>3. DOMAIN page = 1 .. Len(page)
  OBVIOUS
<1> QED BY <1>1, <1>2, <1>3 DEF ToSet

LEMMA FlagStep ==
  ASSUME RealmType, SerialInv, ~muddled', NEW r \in RealmRequests, FlagUser(r)
  PROVE  RealmType' /\ SerialInv'
<1>1. /\ r \in AtWork /\ Head(call[r].todo) = "flag"
      /\ UNCHANGED <<totpDefault, flow, idp, kcUsers, otp, enforcement, muddled>>
  BY DEF FlagUser, Next1
<1>2. PICK c : c = call[r]
  OBVIOUS
<1>3. /\ c \in RealmCalls /\ c.todo \in PassTodos /\ Passing(c)
      /\ totpDefault = c.on /\ enforcement = IF c.on = TRUE THEN "on" ELSE "off"
      /\ c.on = TRUE => flow["post-broker-mfa"] = "complete"
      /\ \A i \in Idps : idp[i] \in {"none", IF c.on = TRUE THEN "otp" ELSE "plain"}
  BY <1>1, <1>2, OnUsers
<1>4. /\ c.todo = <<"flag">> \/ c.todo = <<"flag", "page">>
      /\ c.page \in Seq(Nat) /\ c.on \in BOOLEAN /\ c.first \in Nat /\ c.seen \subseteq KcUsers
  BY <1>1, <1>2, <1>3, PassSteps DEF RealmCalls
<1>5. /\ c.on = TRUE => /\ c.seen \subseteq pending \cup otp
                        /\ \A u \in kcUsers : u \in pending \cup otp \cup ToSet(c.page) \/ Ahead(c, u)
      /\ c.on = FALSE => \A u \in pending : u \in ToSet(c.page) \cap c.seen \/ Ahead(c, u)
      /\ c.todo = <<"flag", "page">> => c.first <= Cardinality(kcUsers)
      /\ c.first = 0 => c.seen = {}
  BY <1>3 DEF Passing
<1>6. pending \subseteq kcUsers /\ otp \subseteq kcUsers
  BY DEF RealmType
<1>7. \A f \in Flows : flow'[f] # "partial"
  BY <1>1, NoneHalfBuilt
<1>8. CASE c.page = <<>>
  <2>1. Goes(r, Rest(r)) /\ pending' = pending
    BY <1>2, <1>8 DEF FlagUser
  <2>2. ToSet(c.page) = {}
    BY <1>8 DEF ToSet
  <2>3. CASE c.todo = <<"flag">>
    <3>1. Rest(r).todo = <<>>
      BY <1>2, <1>3, <2>3, TodoSteps DEF Rest, RealmCalls
    <3>2. \A u : ~Ahead(c, u)
      BY <2>3 DEF Ahead
    <3>3. /\ c.on = TRUE => kcUsers \subseteq pending \cup otp
          /\ c.on = FALSE => pending = {}
      BY <1>5, <2>2, <3>2
    <3>4. Enforced'
      BY <1>1, <1>3, <1>4, <2>1, <3>3 DEF Enforced
    <3>5. SerialInv'
      BY <1>1, <1>7, <2>1, <3>1, <3>4, CallGoesHome
    <3> QED BY <1>1, <2>1, <3>1, <3>5, GoesHome DEF RealmType
  <2>4. CASE c.todo = <<"flag", "page">>
    <3>1. PICK d : d = Rest(r)
      OBVIOUS
    <3>2. /\ d \in RealmCalls /\ d.todo = <<"page">> /\ d.on = c.on
          /\ d.first = c.first /\ d.page = c.page /\ d.seen = c.seen
      BY <1>1, <1>2, <2>4, <3>1, RestOf, TodoSteps
    <3>3. d.todo \in PassTodos /\ Head(d.todo) = "page" /\ d.todo # <<"flag">>
          /\ c.todo # <<"flag">> /\ d.todo # <<"flag", "page">>
      BY <2>4, <3>2, TodoSteps
    <3>4. \A u \in kcUsers : Ahead(c, u) <=> Ahead(d, u)'
      BY <1>1, <3>2, <3>3 DEF Ahead, Place
    <3>6. c.first <= Cardinality(kcUsers)
      BY <1>5, <2>4
    <3>7. /\ d.on = TRUE => /\ d.seen \subseteq pending' \cup otp'
                            /\ \A u \in kcUsers' : u \in pending' \cup otp' \cup ToSet(d.page) \/ Ahead(d, u)'
          /\ d.on = FALSE => \A u \in pending' : u \in ToSet(d.page) \cap d.seen \/ Ahead(d, u)'
      BY <1>1, <1>5, <1>6, <2>1, <3>2, <3>4
    <3>8. Passing(d)'
      BY <1>1, <1>3, <1>5, <1>8, <3>2, <3>3, <3>6, <3>7 DEF Passing
    <3>9. SerialInv'
      BY <1>1, <1>7, <2>1, <3>1, <3>2, <3>3, <3>8, PassGoesOn
    <3> QED BY <1>1, <2>1, <3>1, <3>2, <3>9, GoesOn DEF RealmType
  <2> QED BY <1>4, <2>3, <2>4
<1>9. CASE c.page # <<>>
  <2>1. PICK u \in kcUsers :
          /\ u = Head(c.page)
          /\ pending' = IF c.on = TRUE THEN pending \cup ({u} \ (c.seen \cup otp))
                        ELSE pending \ ({u} \cap c.seen)
          /\ Goes(r, [c EXCEPT !.page = Tail(@)])
    <3>1. Head(c.page) \in kcUsers
      BY <1>2, <1>9 DEF FlagUser
    <3> QED BY <1>2, <1>9, <3>1 DEF FlagUser
  <2>2. PICK d : d = [c EXCEPT !.page = Tail(c.page)]
    OBVIOUS
  <2>3. /\ Tail(c.page) \in Seq(Nat)
        /\ \A v \in ToSet(c.page) : v = u \/ v \in ToSet(Tail(c.page))
    BY <1>4, <1>9, <2>1, HeadOfPage
  <2>4. /\ d \in RealmCalls /\ d.todo = c.todo /\ d.on = c.on /\ d.first = c.first
        /\ d.page = Tail(c.page) /\ d.seen = c.seen
    BY <1>3, <2>2, <2>3 DEF RealmCalls
  <2>5. Goes(r, d)
    BY <2>1, <2>2
  <2>6. \A v \in kcUsers : Ahead(c, v) <=> Ahead(d, v)'
    BY <1>1, <2>4 DEF Ahead, Place
  <2>7. pending' \subseteq kcUsers
    BY <1>6, <2>1
  <2>8. c.on = TRUE => /\ c.seen \subseteq pending' \cup otp
                       /\ \A v \in kcUsers : v \in pending' \cup otp \cup ToSet(d.page) \/ Ahead(d, v)'
    BY <1>5, <2>1, <2>3, <2>4, <2>6
  <2>9. c.on = FALSE => \A v \in pending' : v \in ToSet(d.page) \cap d.seen \/ Ahead(d, v)'
    BY <1>5, <1>6, <2>1, <2>3, <2>4, <2>6
  <2>10. Passing(d)'
    BY <1>1, <1>2, <1>3, <1>5, <2>4, <2>8, <2>9 DEF Passing
  <2>11. SerialInv'
    BY <1>1, <1>3, <1>7, <2>4, <2>5, <2>10, PassGoesOn
  <2> QED BY <1>1, <2>4, <2>5, <2>7, <2>11, GoesOn DEF RealmType
<1> QED BY <1>8, <1>9

\* What a step of createIdentityProvider finds.
LEMMA OnCreating ==
  ASSUME RealmType, SerialInv, NEW r \in AtWork, Head(call[r].todo) \in {"enforced", "create"}
  PROVE  /\ call[r] \in RealmCalls /\ call[r].todo \in CreateTodos /\ Enforced
         /\ call[r].todo = <<"create">> => call[r].on = totpDefault
<1>1. call[r] \in RealmCalls /\ call[r].todo \in CreateTodos
  BY CallAtWork, PassSteps
<1> QED BY <1>1 DEF SerialInv

LEMMA ReadEnforcedStep ==
  ASSUME RealmType, SerialInv, ~muddled', NEW r \in RealmRequests, ReadEnforced(r)
  PROVE  RealmType' /\ SerialInv'
<1>1. /\ r \in AtWork /\ Head(call[r].todo) = "enforced"
      /\ UNCHANGED <<totpDefault, flow, idp, kcUsers, pending, otp, enforcement, muddled>>
  BY DEF ReadEnforced, Next1
<1>2. call[r] \in RealmCalls /\ call[r].todo \in CreateTodos /\ Enforced
  BY <1>1, OnCreating
<1>3. Tail(call[r].todo) = <<"create">>
  BY <1>1, <1>2, CreateSteps
<1>4. PICK d : d = [Rest(r) EXCEPT !.on = totpDefault]
  OBVIOUS
<1>5. Rest(r) \in RealmCalls /\ Rest(r).todo = <<"create">>
  BY <1>1, <1>3, RestOf, TodoSteps
<1>6. d \in RealmCalls /\ d.todo = <<"create">> /\ d.on = totpDefault
  BY <1>4, <1>5 DEF RealmCalls, RealmType
<1>7. Goes(r, d)
  BY <1>4 DEF ReadEnforced
<1>8. Enforced'
  BY <1>1, <1>2 DEF Enforced
<1>9. \A f \in Flows : flow'[f] # "partial"
  BY <1>1, NoneHalfBuilt
<1>10. SerialInv'
  BY <1>1, <1>6, <1>7, <1>8, <1>9, TodoSteps, CreateGoesOn
<1> QED BY <1>1, <1>6, <1>7, <1>10, GoesOn DEF RealmType

LEMMA CreateProviderStep ==
  ASSUME RealmType, SerialInv, ~muddled', NEW r \in RealmRequests, NEW i \in Idps,
         CreateProvider(r, i)
  PROVE  RealmType' /\ SerialInv'
<1>1. /\ r \in AtWork /\ Head(call[r].todo) = "create"
      /\ Goes(r, Rest(r))
      /\ idp' = [idp EXCEPT ![i] = IF call[r].on = TRUE THEN "otp" ELSE "plain"]
      /\ UNCHANGED <<totpDefault, flow, kcUsers, pending, otp, enforcement, muddled>>
  BY DEF CreateProvider, Next1
<1>2. call[r] \in RealmCalls /\ call[r].todo \in CreateTodos /\ Enforced
  BY <1>1, OnCreating
<1>3. call[r].todo = <<"create">> /\ call[r].on = totpDefault
  BY <1>1, <1>2, OnCreating, CreateSteps
<1>4. Rest(r).todo = <<>>
  BY <1>2, <1>3, TodoSteps DEF Rest, RealmCalls
<1>5. Enforced'
  BY <1>1, <1>2, <1>3 DEF Enforced, RealmType
<1>6. \A f \in Flows : flow'[f] # "partial"
  BY <1>1, NoneHalfBuilt
<1>7. SerialInv'
  BY <1>1, <1>4, <1>5, <1>6, CallGoesHome
<1> QED BY <1>1, <1>4, <1>7, GoesHome DEF RealmType

\* While nobody is at work, what is enforced may only become more so.
LEMMA NobodyAtWork ==
  ASSUME SerialInv, AtWork = {}, call' = call, flow' = flow, Enforced'
  PROVE  SerialInv'
<1>1. AtWork' = {}
  BY DEF AtWork
<1>2. \A f \in Flows : flow'[f] # "partial"
  BY DEF SerialInv
<1> HIDE DEF AtWork, Enforced, Passing
<1> QED BY <1>1, <1>2 DEF SerialInv

LEMMA DeleteIdpStep ==
  ASSUME RealmType, SerialInv, ~muddled', NEW i \in Idps, DeleteIdentityProvider(i)
  PROVE  RealmType' /\ SerialInv'
<1>1. /\ AtWork = {} /\ idp' = [idp EXCEPT ![i] = "none"]
      /\ UNCHANGED <<totpDefault, flow, kcUsers, pending, otp, call, enforcement>>
  BY DEF DeleteIdentityProvider
<1>2. Enforced
  BY <1>1 DEF SerialInv
<1>3. Enforced'
  BY <1>1, <1>2 DEF Enforced, RealmType
<1>4. SerialInv'
  BY <1>1, <1>3, NobodyAtWork
<1> QED BY <1>1, <1>4 DEF RealmType

LEMMA UpdateRequiredStep ==
  ASSUME RealmType, SerialInv, ~muddled', NEW on \in BOOLEAN, UpdateRequiredAction(on)
  PROVE  RealmType' /\ SerialInv'
<1>1. /\ AtWork = {} /\ totpDefault' = on /\ enforcement' = "never"
      /\ UNCHANGED <<flow, idp, kcUsers, pending, otp, call>>
  BY DEF UpdateRequiredAction
<1>2. Enforced'
  BY <1>1 DEF Enforced
<1>3. SerialInv'
  BY <1>1, <1>2, NobodyAtWork
<1> QED BY <1>1, <1>3 DEF RealmType
-----------------------------------------------------------------------------
\* Users come and go while a call is at work: it stays as far as it has got.
LEMMA UsersChange ==
  ASSUME RealmType, SerialInv, UNCHANGED <<call, flow>>,
         Enforced => Enforced', totpDefault' = totpDefault,
         \A r \in AtWork : Passing(call[r]) /\ call[r] \in RealmCalls /\ call[r].todo \in PassTodos =>
           Passing(call[r])'
  PROVE  SerialInv'
<1>1. AtWork' = AtWork
  BY DEF AtWork
<1>2. \A r \in AtWork : call[r] \in RealmCalls
  BY CallAtWork
<1> HIDE DEF AtWork, Enforced, Passing
<1> QED BY <1>1, <1>2 DEF SerialInv

\* A user who is added pushes others back, if anywhere.
LEMMA PlacesGrow ==
  ASSUME RealmType, RealmType', NEW u \in KcUsers, u \notin kcUsers, kcUsers' = kcUsers \cup {u}
  PROVE  /\ \A w \in kcUsers : Place(w)' \in Nat /\ Place(w) \in Nat /\ Place(w)' >= Place(w)
         /\ Place(u)' \in Nat /\ Place(u)' > 0
         /\ Cardinality(kcUsers) \in Nat /\ Cardinality(kcUsers') \in Nat
         /\ Cardinality(kcUsers') >= Cardinality(kcUsers)
<1>1. \A w \in kcUsers' : Place(w)' \in Nat /\ Place(w)' > 0
  <2>1. kcUsers' \in SUBSET Nat /\ IsFiniteSet(kcUsers')
    BY RealmsAssumption DEF RealmType
  <2> QED BY <2>1, PlacesAre DEF Place
<1>2. ASSUME NEW w \in kcUsers PROVE Place(w) \in Nat /\ Place(w)' >= Place(w)
  <2>1. PICK S : S = {v \in kcUsers : v <= w}
    OBVIOUS
  <2>2. PICK T : T = {v \in kcUsers' : v <= w}
    OBVIOUS
  <2>3. S \subseteq T /\ T \subseteq kcUsers'
    BY <2>1, <2>2
  <2>4. IsFiniteSet(T)
    BY <2>3, FS_Subset DEF RealmType
  <2>5. Cardinality(S) <= Cardinality(T)
    BY <2>3, <2>4, FS_Subset
  <2> QED BY <2>1, <2>2, <2>5, PlaceIs DEF Place
<1>3. /\ Cardinality(kcUsers) \in Nat /\ Cardinality(kcUsers') \in Nat
      /\ Cardinality(kcUsers) <= Cardinality(kcUsers')
  BY FS_CardinalityType, FS_Subset DEF RealmType
<1> QED BY <1>1, <1>2, <1>3

LEMMA AddUserStep ==
  ASSUME RealmType, SerialInv, ~muddled', NEW u \in KcUsers, AddUser(u)
  PROVE  RealmType' /\ SerialInv'
<1>1. /\ u \notin kcUsers /\ kcUsers' = kcUsers \cup {u}
      /\ pending' = IF totpDefault = TRUE THEN pending \cup {u} ELSE pending
      /\ UNCHANGED <<totpDefault, flow, idp, otp, call, enforcement, muddled>>
  BY DEF AddUser
<1>2. IsFiniteSet(kcUsers')
  BY <1>1, FS_AddElement DEF RealmType
<1>3. RealmType'
  BY <1>1, <1>2 DEF RealmType
<1>4. /\ \A w \in kcUsers : Place(w)' \in Nat /\ Place(w) \in Nat /\ Place(w)' >= Place(w)
      /\ Place(u)' \in Nat /\ Place(u)' > 0
      /\ Cardinality(kcUsers) \in Nat /\ Cardinality(kcUsers') \in Nat
      /\ Cardinality(kcUsers') >= Cardinality(kcUsers)
  BY <1>1, <1>3, PlacesGrow
<1>5. Enforced => Enforced'
  BY <1>1 DEF Enforced
<1>6. ASSUME NEW r \in AtWork, Passing(call[r]), call[r] \in RealmCalls, call[r].todo \in PassTodos
      PROVE  Passing(call[r])'
  <2>1. PICK c \in RealmCalls : c = call[r]
    BY <1>6
  <2>2. c.todo \in PassTodos /\ Passing(c) /\ c.first \in Nat
    BY <1>6, <2>1 DEF RealmCalls
  <2>3. \A w \in kcUsers : Ahead(c, w) => Ahead(c, w)'
    BY <1>4, <2>2 DEF Ahead
  <2>4. pending \subseteq kcUsers /\ u \in kcUsers'
    BY <1>1 DEF RealmType
  <2>5. c.on = TRUE => u \in pending' \/ Ahead(c, u)'
    <3>1. CASE Head(c.todo) = "default"
      <4>1. c.todo # <<"flag">>
        BY <3>1, TodoSteps
      <4>2. c.first = 0
        BY <2>2, <3>1 DEF Passing
      <4> QED BY <1>4, <4>1, <4>2 DEF Ahead
    <3>2. CASE Head(c.todo) # "default"
      BY <1>1, <2>2, <3>2 DEF Passing
    <3> QED BY <3>1, <3>2
  <2>6. c.on = FALSE => u \notin pending' \/ Ahead(c, u)'
    <3>1. CASE Head(c.todo) = "default"
      <4>1. c.todo # <<"flag">>
        BY <3>1, TodoSteps
      <4>2. c.first = 0
        BY <2>2, <3>1 DEF Passing
      <4> QED BY <1>4, <4>1, <4>2 DEF Ahead
    <3>2. CASE Head(c.todo) # "default"
      BY <1>1, <2>2, <2>4, <3>2 DEF Passing
    <3> QED BY <3>1, <3>2
  <2>7. c.on = TRUE =>
          /\ c.seen \subseteq pending' \cup otp'
          /\ \A w \in kcUsers' : w \in pending' \cup otp' \cup ToSet(c.page) \/ Ahead(c, w)'
    BY <1>1, <2>2, <2>3, <2>5 DEF Passing
  <2>8. c.on = FALSE => \A w \in pending' : w \in ToSet(c.page) \cap c.seen \/ Ahead(c, w)'
    BY <1>1, <2>2, <2>3, <2>4, <2>6 DEF Passing
  <2>9. /\ Head(c.todo) = "page" => c.page = <<>> /\ c.first <= Cardinality(kcUsers')
        /\ c.todo = <<"flag", "page">> => c.first <= Cardinality(kcUsers')
    BY <1>4, <2>2 DEF Passing
  <2>10. /\ enforcement' = enforcement /\ totpDefault' = totpDefault /\ flow' = flow /\ idp' = idp
    BY <1>1
  <2>11. Passing(c)'
    BY <2>2, <2>7, <2>8, <2>9, <2>10 DEF Passing
  <2>12. call'[r] = c
    BY <1>1, <2>1
  <2> QED BY <2>11, <2>12 DEF Passing, Ahead, Place
<1>7. SerialInv'
  BY <1>1, <1>5, <1>6, UsersChange
<1> QED BY <1>3, <1>7

LEMMA SetUpStep ==
  ASSUME RealmType, SerialInv, ~muddled', NEW u \in KcUsers, SetUpOtp(u)
  PROVE  RealmType' /\ SerialInv'
<1>1. /\ u \in pending /\ otp' = otp \cup {u} /\ pending' = pending \ {u}
      /\ UNCHANGED <<totpDefault, flow, idp, kcUsers, call, enforcement, muddled>>
  BY DEF SetUpOtp
<1>2. RealmType'
  BY <1>1 DEF RealmType
<1>3. Enforced => Enforced'
  BY <1>1 DEF Enforced
<1>4. ASSUME NEW r \in AtWork, Passing(call[r]) PROVE Passing(call[r])'
  <2>1. PICK c : c = call[r]
    OBVIOUS
  <2>2. Passing(c)
    BY <1>4, <2>1
  <2>3. \A w : Ahead(c, w)' <=> Ahead(c, w)
    BY <1>1 DEF Ahead, Place
  <2>4. pending' \cup otp' = pending \cup otp /\ pending' \subseteq pending
    BY <1>1
  <2>5. /\ c.on = TRUE =>
             /\ c.seen \subseteq pending' \cup otp'
             /\ \A w \in kcUsers' : w \in pending' \cup otp' \cup ToSet(c.page) \/ Ahead(c, w)'
        /\ c.on = FALSE => \A w \in pending' : w \in ToSet(c.page) \cap c.seen \/ Ahead(c, w)'
    BY <1>1, <2>2, <2>3, <2>4 DEF Passing
  <2>6. Passing(c)'
    BY <1>1, <2>2, <2>5 DEF Passing
  <2>7. call'[r] = c
    BY <1>1, <2>1
  <2> QED BY <2>6, <2>7 DEF Passing, Ahead, Place
<1>5. SerialInv'
  BY <1>1, <1>3, <1>4, UsersChange
<1> QED BY <1>2, <1>5

LEMMA RemoveStep ==
  ASSUME RealmType, SerialInv, ~muddled', NEW u \in KcUsers, RemoveUser(u)
  PROVE  RealmType' /\ SerialInv'
<1>1. /\ u \in kcUsers /\ kcUsers' = kcUsers \ {u}
      /\ pending' = pending \ {u} /\ otp' = otp \ {u}
      /\ \A r \in AtWork : ~(call[r].first > 0) /\ call[r].page = <<>>
      /\ UNCHANGED <<totpDefault, flow, idp, call, enforcement>>
  BY DEF RemoveUser
<1>2. IsFiniteSet(kcUsers')
  BY <1>1, FS_Subset DEF RealmType
<1>3. RealmType'
  BY <1>1, <1>2 DEF RealmType
<1>4. Enforced => Enforced'
  BY <1>1 DEF Enforced
<1>5. \A w \in kcUsers' : Place(w)' \in Nat /\ Place(w)' > 0
  <2>1. kcUsers' \in SUBSET Nat /\ IsFiniteSet(kcUsers')
    BY <1>3, RealmsAssumption DEF RealmType
  <2> QED BY <2>1, PlacesAre DEF Place
<1>6. ASSUME NEW r \in AtWork, Passing(call[r]), call[r] \in RealmCalls, call[r].todo \in PassTodos
      PROVE  Passing(call[r])'
  <2>1. PICK c \in RealmCalls : c = call[r]
    BY <1>6
  <2>2. Passing(c) /\ c.first = 0 /\ c.page = <<>>
    BY <1>1, <1>6, <2>1 DEF RealmCalls
  <2>3. c.seen = {} /\ ToSet(c.page) = {}
    BY <2>2 DEF Passing, ToSet
  <2>4. \A w \in kcUsers' : Ahead(c, w) => Ahead(c, w)'
    BY <1>5, <2>2 DEF Ahead
  <2>5. pending' \subseteq kcUsers' /\ pending' \subseteq pending /\ kcUsers' \subseteq kcUsers
        /\ \A w \in kcUsers' : w \in pending \cup otp => w \in pending' \cup otp'
    BY <1>1 DEF RealmType
  <2>6. c.on = TRUE => \A w \in kcUsers' : w \in pending' \cup otp' \/ Ahead(c, w)'
    BY <2>2, <2>3, <2>4, <2>5 DEF Passing
  <2>7. c.on = FALSE => \A w \in pending' : Ahead(c, w)'
    BY <2>2, <2>3, <2>4, <2>5 DEF Passing
  <2>8. 0 <= Cardinality(kcUsers')
    BY <1>2, FS_CardinalityType
  <2>9. Passing(c)'
    BY <1>1, <2>2, <2>3, <2>6, <2>7, <2>8 DEF Passing
  <2>10. call'[r] = c
    BY <1>1, <2>1
  <2> QED BY <2>9, <2>10 DEF Passing, Ahead, Place
<1>7. SerialInv'
  BY <1>1, <1>4, <1>6, UsersChange
<1> QED BY <1>3, <1>7

-----------------------------------------------------------------------------
LEMMA RealmStarts == RealmInit => RealmInv
<1> SUFFICES ASSUME RealmInit PROVE RealmInv
  OBVIOUS
<1>1. AtWork = {}
  BY DEF RealmInit, AtWork
<1>2. IsFiniteSet(kcUsers)
  BY FS_EmptySet DEF RealmInit
<1>3. RealmType
  BY <1>2 DEF RealmInit, RealmType
<1>4. Enforced
  BY DEF RealmInit, Enforced
<1>5. \A f \in Flows : flow[f] # "partial"
  BY DEF RealmInit
<1>6. muddled = FALSE
  BY DEF RealmInit
<1> HIDE DEF AtWork, Enforced, Passing
<1> QED BY <1>1, <1>3, <1>4, <1>5, <1>6 DEF RealmInv, SerialInv

LEMMA RealmStep == RealmInv /\ [RealmNext]_realmVars => RealmInv'
<1> SUFFICES ASSUME RealmInv, [RealmNext]_realmVars PROVE RealmInv'
  OBVIOUS
<1>1. muddled' \in BOOLEAN /\ (muddled' = FALSE => muddled = FALSE)
  BY DEF RealmInv, RealmNext, realmVars, SetMfaEnforcement, CreateIdentityProvider, BeginCall,
         SetDefaultAction, ListProviders, UpdateProvider, ReadPage, FlagUser, ReadEnforced,
         CallFails, EnsureFlow, FillFlow, CreateProvider, DeleteIdentityProvider,
         UpdateRequiredAction, AddUser, SetUpOtp, RemoveUser
<1> SUFFICES ASSUME muddled' = FALSE PROVE RealmType' /\ SerialInv'
  BY <1>1 DEF RealmInv
<1>2. RealmType /\ SerialInv /\ ~muddled'
  BY <1>1 DEF RealmInv
<1>3. CASE UNCHANGED realmVars
  <2>1. AtWork' = AtWork /\ (Enforced' <=> Enforced) /\ \A c : Passing(c)' <=> Passing(c)
    BY <1>3 DEF realmVars, AtWork, Enforced, Passing, Ahead, Place
  <2>2. RealmType'
    BY <1>2, <1>3 DEF realmVars, RealmType
  <2>3. \A r \in AtWork : Passing(call[r])' <=> Passing(call[r])
    BY <1>3 DEF realmVars, Passing, Ahead, Place
  <2>4. UNCHANGED <<call, flow, totpDefault>>
    BY <1>3 DEF realmVars
  <2> HIDE DEF AtWork, Enforced, Passing
  <2> QED BY <1>2, <2>1, <2>2, <2>3, <2>4 DEF SerialInv
<1>4. ASSUME NEW r \in RealmRequests, NEW on \in BOOLEAN, SetMfaEnforcement(r, on)
      PROVE  RealmType' /\ SerialInv'
  BY <1>2, <1>4, SetMfaStep
<1>5. ASSUME NEW r \in RealmRequests, CallFails(r) PROVE RealmType' /\ SerialInv'
  BY <1>5 DEF CallFails
<1>6. ASSUME NEW r \in RealmRequests,
             \/ CreateIdentityProvider(r) \/ SetDefaultAction(r) \/ ListProviders(r)
             \/ UpdateProvider(r) \/ ReadPage(r) \/ FlagUser(r) \/ ReadEnforced(r)
      PROVE  RealmType' /\ SerialInv'
  BY <1>2, <1>6, CreateIdpStep, SetDefaultStep, ListStep, UpdateStep, PageStep, FlagStep,
     ReadEnforcedStep
<1>7. ASSUME NEW r \in RealmRequests, NEW f \in Flows, EnsureFlow(r, f) \/ FillFlow(r, f)
      PROVE  RealmType' /\ SerialInv'
  BY <1>2, <1>7, EnsureStep, FillStep
<1>8. ASSUME NEW r \in RealmRequests, NEW i \in Idps, CreateProvider(r, i)
      PROVE  RealmType' /\ SerialInv'
  BY <1>2, <1>8, CreateProviderStep
<1>9. ASSUME NEW i \in Idps, DeleteIdentityProvider(i) PROVE RealmType' /\ SerialInv'
  BY <1>2, <1>9, DeleteIdpStep
<1>10. ASSUME NEW on \in BOOLEAN, UpdateRequiredAction(on) PROVE RealmType' /\ SerialInv'
  BY <1>2, <1>10, UpdateRequiredStep
<1>11. ASSUME NEW u \in KcUsers, AddUser(u) \/ SetUpOtp(u) \/ RemoveUser(u)
       PROVE  RealmType' /\ SerialInv'
  BY <1>2, <1>11, AddUserStep, SetUpStep, RemoveStep
<1> QED BY <1>3, <1>4, <1>5, <1>6, <1>7, <1>8, <1>9, <1>10, <1>11 DEF RealmNext

\* setMfaEnforcement, whatever the users, providers and requests are: after it
\* every account has an authenticator or is asked for one and every provider asks
\* for OTP, or nobody is asked and none does, as long as requests come one after
\* another and none fails; users may be added or set up theirs while it runs.
THEOREM MfaAlwaysSettles == RealmSpec => []MfaSettles
<1>1. RealmInv => MfaSettles
  <2>1. SUFFICES ASSUME RealmInv, AtWork = {}, ~muddled
        PROVE  Enforced /\ idp \in [Idps -> {"none", "plain", "otp"}]
    BY <2>1 DEF MfaSettles, Enforced
  <2> QED BY <2>1 DEF RealmInv, SerialInv, RealmType
<1> QED BY <1>1, RealmStarts, RealmStep, PTL DEF RealmSpec
=============================================================================
