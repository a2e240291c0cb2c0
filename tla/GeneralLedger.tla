--------------------------- MODULE GeneralLedger ---------------------------
(***************************************************************************)
(* The general ledger: JournalEntryService's fiscal periods, manual        *)
(* journal entries, automatic postings and intercompany transfers.         *)
(*                                                                         *)
(* createJournalEntry reads the lock of the period at the start of its     *)
(* transaction and inserts at its end (Insert); the current period is      *)
(* looked up and created in two steps; a transfer's row is committed       *)
(* before its journal entry.  Amounts are integers in half units of the    *)
(* fourth decimal, the precision the columns keep; the double-entry test   *)
(* is made on the amounts before they are rounded to it.                   *)
(***************************************************************************)
EXTENDS Integers, Sequences, FiniteSetsExt

CONSTANTS
  Periods,     \* names of fiscal periods (one per month)
  Current,     \* the name of the current month's period
  Drafts,      \* lines of manual entries: sequences of [debit, credit]
  Amount,      \* amount of an automatic posting or a transfer
  Requests,    \* the requests of a run, each made at most once: its bound
  MaxFaults    \* bound on crashes and rolled back transactions

Line == [debit : Nat, credit : Nat]

ASSUME LedgerAssumption ==
  /\ Current \in Periods
  /\ Drafts \subseteq Seq(Line)
  /\ Amount \in Nat \ {0}
  /\ MaxFaults \in Nat

VARIABLES
  period,     \* state of each FiscalPeriod
  entries,    \* POSTED journal entries, by the request that created them
  transfers,  \* requests that inserted an IntercompanyTransfer row
  req,        \* where each request stands, with its local variables
  faults

vars == <<period, entries, transfers, req, faults>>

Kinds == {"manual", "posting", "transfer"}
Request == [pc : {"idle"}]
           \cup [pc : {"open", "row", "begin", "insert", "done", "failed"},
                 kind : Kinds, period : Periods, lines : Seq(Line)]

Idle == [pc |-> "idle"]

Init ==
  /\ period = [p \in Periods |-> "absent"]
  /\ entries = [r \in {} |-> Idle]
  /\ transfers = {}
  /\ req = [r \in Requests |-> Idle]
  /\ faults = 0

At(r, pc) == req' = [req EXCEPT ![r].pc = pc]

-----------------------------------------------------------------------------
\* openFiscalPeriod; the name is unique.
OpenFiscalPeriod(p) ==
  /\ period[p] = "absent"
  /\ period' = [period EXCEPT ![p] = "open"]
  /\ UNCHANGED <<entries, transfers, req, faults>>

\* closeFiscalPeriod; nothing unlocks a period again.
CloseFiscalPeriod(p) ==
  /\ period[p] = "open"
  /\ period' = [period EXCEPT ![p] = "locked"]
  /\ UNCHANGED <<entries, transfers, req, faults>>

-----------------------------------------------------------------------------
Debits(lines)  == MapThenSumSet(LAMBDA n : lines[n].debit, DOMAIN lines)
Credits(lines) == MapThenSumSet(LAMBDA n : lines[n].credit, DOMAIN lines)
Gap(d, c) == IF d > c THEN d - c ELSE c - d

\* The double-entry test, with its tolerance of one unit (mutated: debits may
\* fall short of credits by any amount).
BalancedOneWay(lines) == Debits(lines) - Credits(lines) <= 2
Balanced(lines) == Gap(Debits(lines), Credits(lines)) <= 2

\* What the columns keep of an amount: units, rounded half up.
Rounded(a) == (a + 1) \div 2
Stored(lines) ==
  [n \in DOMAIN lines |-> [debit |-> Rounded(lines[n].debit),
                           credit |-> Rounded(lines[n].credit)]]

\* A period that takes entries (mutated: the lock is not looked at).
ExistsOnly(p) == period[p] # "absent"
TakesEntries(p) == period[p] = "open"

\* POST /journal-entries up to the tests at the start of the transaction; a
\* request that fails them changes nothing.
CreateManualEntry(r, p, lines) ==
  /\ req[r] = Idle
  /\ TakesEntries(p)
  /\ Balanced(lines)
  /\ req' = [req EXCEPT ![r] = [pc |-> "insert", kind |-> "manual",
                                period |-> p, lines |-> lines]]
  /\ UNCHANGED <<period, entries, transfers, faults>>

\* A posting listener or createIntercompanyTransfer looks for the current
\* period, ...
StartPosting(r, kind) ==
  /\ req[r] = Idle
  /\ req' = [req EXCEPT ![r] =
       [pc |-> IF period[Current] = "absent" THEN "open"
               ELSE IF kind = "transfer" THEN "row" ELSE "begin",
        kind |-> kind, period |-> Current,
        lines |-> <<[debit |-> Amount, credit |-> 0],
                    [debit |-> 0, credit |-> Amount]>>]]
  /\ UNCHANGED <<period, entries, transfers, faults>>

\* ... creates it when there is none, ...
CreatePeriod(r) ==
  /\ req[r].pc = "open"
  /\ period[Current] = "absent"
  /\ period' = [period EXCEPT ![Current] = "open"]
  /\ At(r, IF req[r].kind = "transfer" THEN "row" ELSE "begin")
  /\ UNCHANGED <<entries, transfers, faults>>

\* ... unless another request has created it since: the insert violates the
\* unique name and the request throws.
CreatePeriodFails(r) ==
  /\ req[r].pc = "open"
  /\ period[Current] # "absent"
  /\ At(r, "failed")
  /\ UNCHANGED <<period, entries, transfers, faults>>

\* createIntercompanyTransfer: the transfer's own row.
CreateTransfer(r) ==
  /\ req[r].pc = "row"
  /\ transfers' = transfers \cup {r}
  /\ At(r, "begin")
  /\ UNCHANGED <<period, entries, faults>>

\* createJournalEntry called by a posting: the same tests.
BeginEntry(r) ==
  /\ req[r].pc = "begin"
  /\ At(r, IF TakesEntries(req[r].period) /\ Balanced(req[r].lines)
           THEN "insert" ELSE "failed")
  /\ UNCHANGED <<period, entries, transfers, faults>>

\* The insert and the commit of createJournalEntry.
Insert(r) ==
  /\ req[r].pc = "insert"
  /\ entries' = [x \in DOMAIN entries \cup {r} |->
                   IF x = r THEN [period |-> req[r].period, lines |-> Stored(req[r].lines)]
                   ELSE entries[x]]
  /\ At(r, "done")
  /\ UNCHANGED <<period, transfers, faults>>

\* A database error at any await.
Fail(r) ==
  /\ faults < MaxFaults
  /\ req[r].pc \in {"open", "row", "begin", "insert"}
  /\ faults' = faults + 1
  /\ At(r, "failed")
  /\ UNCHANGED <<period, entries, transfers>>

\* The API process dies with all its requests.
Crash ==
  /\ faults < MaxFaults
  /\ faults' = faults + 1
  /\ req' = [r \in Requests |->
               IF req[r].pc \in {"idle", "done", "failed"} THEN req[r]
               ELSE [req[r] EXCEPT !.pc = "failed"]]
  /\ UNCHANGED <<period, entries, transfers>>

-----------------------------------------------------------------------------
Proceed(r) ==
  \/ CreatePeriod(r) \/ CreatePeriodFails(r) \/ CreateTransfer(r)
  \/ BeginEntry(r) \/ Insert(r) \/ Fail(r)

Next ==
  \/ \E p \in Periods : OpenFiscalPeriod(p) \/ CloseFiscalPeriod(p)
  \/ \E r \in Requests :
       \/ \E p \in Periods, lines \in Drafts : CreateManualEntry(r, p, lines)
       \/ \E kind \in {"posting", "transfer"} : StartPosting(r, kind)
       \/ Proceed(r)
  \/ Crash

Spec == Init /\ [][Next]_vars

-----------------------------------------------------------------------------
\* Every variable stays in its type; an entry belongs to a finished request
\* and a period that exists, and so does a request past the period lookup.
TypeOK ==
  /\ period \in [Periods -> {"absent", "open", "locked"}]
  /\ DOMAIN entries \subseteq Requests
  /\ entries \in [DOMAIN entries -> [period : Periods, lines : Seq(Line)]]
  /\ transfers \subseteq Requests
  /\ req \in [Requests -> Request]
  /\ \A r \in DOMAIN entries : req[r].pc = "done" /\ period[entries[r].period] # "absent"
  /\ \A r \in Requests :
       /\ req[r].pc = "open" => req[r].period = Current
       /\ req[r].pc \in {"row", "begin", "insert"} => period[req[r].period] # "absent"
  /\ faults \in 0 .. MaxFaults

\* The entries of a locked period that no transaction is about to extend.
EntriesOf(p) == {r \in DOMAIN entries : entries[r].period = p}
Pending(p) == {r \in Requests : req[r].pc = "insert" /\ req[r].period = p}
Final(p) == period[p] = "locked" /\ Pending(p) = {}

\* closeFiscalPeriod and createJournalEntry: once a period is locked and the
\* transactions that found it open are over, it never changes again.
FinalPeriodsStay ==
  [][\A p \in Periods : Final(p) => Final(p)' /\ EntriesOf(p)' = EntriesOf(p)]_vars

\* createJournalEntry: what is stored of an entry is out of balance by no more
\* than the tolerance and the rounding of its amounts, half a unit each.
EntriesAlmostBalance ==
  \A r \in DOMAIN entries :
    LET lines == entries[r].lines IN
      2 * Gap(Debits(lines), Credits(lines)) <=
        2 + Cardinality({n \in DOMAIN lines : lines[n].debit > 0})
          + Cardinality({n \in DOMAIN lines : lines[n].credit > 0})
=============================================================================
