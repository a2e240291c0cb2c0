-------------------------------- MODULE Desk --------------------------------
(***************************************************************************)
(* What the dashboard's pages have in common.  A page loads a list, shows  *)
(* dialogs with an entry to fill, and its handlers call the API, reload or *)
(* patch the list and close their dialog, in an order that differs from    *)
(* handler to handler; a flag disables a handler's button meanwhile.       *)
(* Nothing cancels a call or a load, and answers come in any order.        *)
(* DeskPages says what each page and handler does; only one page is open   *)
(* at a time.                                                              *)
(***************************************************************************)
EXTENDS Naturals, FiniteSets

CONSTANTS
  DeskPages,    \* the pages
  Rows,         \* the rows of a page
  NoRow,        \* what is not about a row
  Keys,         \* the projects or periods a page can show
  NoPage,       \* no page is open
  MaxClicks,    \* bounds the clicks that call or load
  DeskFaults    \* bounds the calls and loads that fail

\* No flag, no dialog
None == ""

\* A handler of a row's button: its flag and whether it disables every
\* row's button or the last one's clicked, what the list must show and
\* must not show of the row, whether another call comes first, what follows success
\* (the list is reloaded and waited for, reloaded, patched, or the page is left, or
\* the page notes it apart from the list), when its dialog closes and when its entry
\* is cleared: at the click, on success, or after the reload.  A local handler's flag
\* is state of its dialog, gone with it; one that queues leaves the work to a worker.
RowCall ==
  [name |-> "", page |-> FALSE, flag |-> None, wide |-> FALSE, dialog |-> None, needs |-> {}, unless |-> {},
   first |-> FALSE, then |-> "awaits", closes |-> "never", clears |-> "never", local |-> FALSE,
   queues |-> FALSE]

\* A handler of a button of the page, or of a dialog.
PageCall == [RowCall EXCEPT !.page = TRUE, !.wide = TRUE]
DialogCall == [RowCall EXCEPT !.flag = "saving", !.wide = TRUE, !.closes = "success"]

\* A dialog of the page opens with the entry it was left with, a blank one, or one
\* filled from what is shown, as a dialog of a row always is; a RecordDialog is
\* either.  A form that is part of the page is a dialog too.
Dialog == [name |-> "", opens |-> "kept", of |-> {"page"}, needs |-> {}, unless |-> {}]
BlankDialog == [Dialog EXCEPT !.opens = "blank"]
RowDialog == [Dialog EXCEPT !.opens = "filled", !.of = {"row"}]
RecordDialog == [BlankDialog EXCEPT !.of = {"page", "row"}]

\* A page: whether it shows one project or period, loads again when the token is
\* renewed or a button is clicked, hides its rows while it loads, and is told of new
\* rows by a stream.
Page ==
  [name |-> "", calls |-> {}, dialogs |-> {}, keyed |-> FALSE, renews |-> FALSE, veils |-> FALSE,
   streams |-> FALSE]

Named(things) == [x \in {t.name : t \in things} |-> CHOOSE t \in things : t.name = x]
PageNamed == Named(DeskPages)
Announced == [RowCall EXCEPT !.name = "announced"]
CallNamed == [x \in DOMAIN PageNamed |-> Named(PageNamed[x].calls \cup {Announced})]

\* A button that a flag disables until the list shows what it did.
Guarded(h) == h.flag # None /\ h.dialog = None /\ h.name \in h.unless /\ h.then # "starts"

\* When a handler may close and clear its dialog at the latest: with its flag held.
BeforeRelease(h) == IF h.then = "awaits" THEN {"success", "reload"} ELSE {"success"}

\* The dialogs that are mounted anew each time they open, with their flag.
LocalDialogs(p) == {h.dialog : h \in {h \in p.calls : h.local}}

\* Every handler of the dashboard is of this kind.  What is shown of one project or
\* period is loaded, not patched; the flag of a dialog's button disables whatever
\* else it is of; and once a dialog's call took effect its entry is gone.  A dialog
\* with a flag of its own closes on success and waits for no reload.
HandlerOfPage(h, p) ==
  /\ h.name # Announced.name
  /\ h.local => /\ h.flag = None /\ ~h.first /\ h.then \in {"starts", "notes"}
                /\ h.dialog # None /\ h.closes = "success"
                /\ Named(p.dialogs)[h.dialog].opens # "kept"
  /\ h.dialog \in LocalDialogs(p) => h.local
  /\ h.queues => h.dialog = None /\ h.then # "patches" /\ ~Guarded(h)
  /\ h.first => h.then # "patches" /\ ~Guarded(h)
  /\ p.keyed => h.then # "patches" /\ ~Guarded(h)
  /\ IF h.dialog = None THEN h.closes = "never" /\ h.clears = "never"
     ELSE /\ h.dialog \in {d.name : d \in p.dialogs}
          /\ h.flag # None =>
               /\ \A g \in p.calls : g.flag = h.flag => g.wide
               /\ \/ h.clears \in BeforeRelease(h)
                  \/ h.closes \in BeforeRelease(h) /\ Named(p.dialogs)[h.dialog].opens # "kept"

NamesDiffer(things) == \A s, t \in things : s.name = t.name => s = t

ASSUME DeskAssumption ==
  /\ {MaxClicks, DeskFaults} \subseteq Nat /\ NoRow \notin Rows
  /\ NamesDiffer(DeskPages) /\ NoPage \notin {p.name : p \in DeskPages}
  /\ \A p \in DeskPages :
       /\ NamesDiffer(p.calls) /\ NamesDiffer(p.dialogs) /\ None \notin {d.name : d \in p.dialogs}
       /\ \A d \in p.dialogs : d.opens \in {"kept", "blank", "filled"}
       /\ \A h \in p.calls : HandlerOfPage(h, p)
       /\ {p.keyed, p.veils} \subseteq BOOLEAN

VARIABLES
  desk,       \* the page, its key, its dialog and row, the entries, the flags held,
              \* whether its rows are hidden, the clicks made before a dialog with its
              \* own flag was mounted
  shown,      \* the key and the effects the list shows, those noted apart from it
  loads,      \* the loads under way
  calls,      \* the calls under way
  done,       \* the effects on the server
  mishaps,    \* what happened that the pages do not provide for
  ticks       \* counters

deskVars == <<desk, shown, loads, calls, done, mishaps, ticks>>

NoDesk == [page |-> NoPage, key |-> 1, dialog |-> None, row |-> NoRow, entries |-> <<>>, held |-> {},
           veiled |-> FALSE, since |-> 0]
NoTicks == [clicks |-> 0, faults |-> 0, sent |-> 0, last |-> 0]
NothingShown == [key |-> 0, rows |-> {}, notes |-> {}]

DeskInit ==
  /\ desk = NoDesk /\ shown = NothingShown /\ ticks = NoTicks
  /\ loads = {} /\ calls = {} /\ done = {} /\ mishaps = {}

\* What was under way is answered to nobody.
ResetDesk ==
  /\ desk' = NoDesk /\ shown' = NothingShown /\ ticks' = NoTicks
  /\ loads' = {} /\ calls' = {} /\ done' = {} /\ mishaps' = {}

IsOpen == desk.page # NoPage
ThePage == PageNamed[desk.page]
HandlerOf(c) == CallNamed[desk.page][c.of]

ClickCounts == ticks.clicks < MaxClicks /\ ticks' = [ticks EXCEPT !.clicks = @ + 1]
DeskFault == ticks.faults < DeskFaults /\ ticks' = [ticks EXCEPT !.faults = @ + 1]

Busy(flag) == \E h \in desk.held : h[1] = flag
Claim(held, flag, r) == {h \in held : h[1] # flag} \cup {<<flag, r>>}
Release(held, flag) == {h \in held : h[1] # flag}

\* An entry is none, not sent yet, or known by the click that sent it first.
NoEntry == 0
Unsent == MaxClicks + 1

EffectOf(c) ==
  [of |-> c.of, row |-> c.row, key |-> c.key, entry |-> c.entry, n |-> c.n, at |-> c.at]

\* One more load of a key, for call n, or for none: 0.
LoadsAlso(k, n) ==
  loads \cup {[n |-> ticks.sent + 1, key |-> k, read |-> FALSE, got |-> {}, waiting |-> n]}

\* A page that hides its rows while it loads hides a dialog with its own flag too,
\* which is mounted anew afterwards, with the entry it is filled with.
Veiled(d) ==
  LET p == PageNamed[d.page]
      veiled == [d EXCEPT !.veiled = p.veils]
  IN
  IF p.veils /\ d.dialog \in LocalDialogs(p)
  THEN [veiled EXCEPT !.entries[d.dialog] = Unsent, !.since = ticks.clicks]
  ELSE veiled
OneMoreLoad == ticks' = [ticks EXCEPT !.sent = @ + 1]
ClickLoads == ticks.clicks < MaxClicks /\ ticks' = [ticks EXCEPT !.clicks = @ + 1, !.sent = @ + 1]

\* The page is mounted and loads its list.
OpenPage ==
  /\ ~IsOpen
  /\ \E p \in DeskPages :
       desk' = Veiled([desk EXCEPT !.page = p.name,
                                   !.entries = [d \in {d.name : d \in p.dialogs} |-> 0]])
  /\ loads' = LoadsAlso(1, 0) /\ OneMoreLoad
  /\ UNCHANGED <<shown, calls, done, mishaps>>

LeavePage == IsOpen /\ ResetDesk

\* The token is renewed, or the page has a button to reload.
Reload ==
  /\ IsOpen /\ ThePage.renews /\ ClickLoads
  /\ loads' = LoadsAlso(desk.key, 0) /\ desk' = Veiled(desk)
  /\ UNCHANGED <<shown, calls, done, mishaps>>

SelectKey ==
  /\ IsOpen /\ ThePage.keyed /\ ClickLoads
  /\ \E k \in Keys \ {desk.key} :
       /\ desk' = Veiled([desk EXCEPT !.key = k])
       /\ loads' = LoadsAlso(k, 0)
  /\ UNCHANGED <<shown, calls, done, mishaps>>

\* What the server would answer for a key: work that is queued is not done yet.
Waits(e, h) == h.queues /\ e.at # "worked"
Listed(k) == {e \in done : e.key = k /\ HandlerOf(e).then # "notes" /\ ~Waits(e, HandlerOf(e))}

LoadIsRead(l) ==
  /\ ~l.read
  /\ loads' = (loads \ {l}) \cup
       {[l EXCEPT !.read = TRUE, !.got = Listed(l.key)]}
  /\ UNCHANGED <<desk, shown, calls, done, mishaps, ticks>>

\* A new row reaches the list at once, whatever load is under way; or the stream is
\* broken and it does not.
StreamAnnounces ==
  /\ IsOpen /\ ThePage.streams
  /\ \E r \in Rows \ {e.row : e \in {e \in done : e.of = Announced.name}} :
       LET e == [of |-> Announced.name, row |-> r, key |-> desk.key, entry |-> 0, n |-> ticks.clicks + 1,
                 at |-> "sent"]
       IN
       /\ done' = done \cup {e}
       /\ \/ /\ ClickCounts
             /\ shown' = [shown EXCEPT !.rows = @ \cup {e}]
             /\ mishaps' = mishaps \cup IF \E l \in loads : l.read THEN {"overwritten"} ELSE {}
          \/ /\ ticks.clicks < MaxClicks /\ DeskFault
             /\ mishaps' = mishaps \cup {"unread"}
             /\ UNCHANGED shown
  /\ UNCHANGED <<desk, loads, calls>>

\* The worker does what was queued.  The page is not told: it learns of it from a
\* load that is still to be read, or not at all.
WorkerRuns ==
  /\ \E e \in done :
       /\ HandlerOf(e).queues /\ e.at = "sent" /\ [e EXCEPT !.at = "worked"] \notin done
       /\ done' = done \cup {[e EXCEPT !.at = "worked"]}
  /\ mishaps' = mishaps \cup
       IF \E l \in loads : ~l.read /\ \A k \in loads : k.n <= l.n THEN {} ELSE {"later"}
  /\ UNCHANGED <<desk, shown, loads, calls, ticks>>

-----------------------------------------------------------------------------
\* What the page shows of a row, or of itself, and what that lets it offer.
Seen(r) == {e.of : e \in {e \in shown.rows \cup shown.notes : e.row = r}}
Offers(x, r) == x.needs \subseteq Seen(r) /\ x.unless \cap Seen(r) = {}
RowOffers(x, r) == r # NoRow /\ shown.key # 0 /\ ~desk.veiled /\ Offers(x, r)

FirstEntry(d) ==
  CASE d.opens = "kept" -> desk.entries[d.name]
    [] d.opens = "blank" -> NoEntry
    [] d.opens = "filled" -> Unsent

Since(d) == IF d.name \in LocalDialogs(ThePage) THEN ticks.clicks ELSE 0

OpenDialog ==
  /\ IsOpen /\ desk.dialog = None
  /\ \E d \in ThePage.dialogs :
       \/ /\ "page" \in d.of
          /\ desk' = [desk EXCEPT !.dialog = d.name, !.entries[d.name] = FirstEntry(d), !.since = Since(d)]
       \/ /\ "row" \in d.of
          /\ \E r \in Rows :
               /\ RowOffers(d, r)
               /\ desk' = [desk EXCEPT !.dialog = d.name, !.row = r, !.entries[d.name] = Unsent,
                                       !.since = Since(d)]
  /\ UNCHANGED <<shown, loads, calls, done, mishaps, ticks>>

\* A dialog can be filled in and closed whatever is under way, unless it is hidden.
OnScreen == desk.dialog # None /\ ~(desk.veiled /\ desk.dialog \in LocalDialogs(ThePage))

TypeEntry ==
  /\ IsOpen /\ OnScreen
  /\ desk' = [desk EXCEPT !.entries[desk.dialog] = Unsent]
  /\ UNCHANGED <<shown, loads, calls, done, mishaps, ticks>>

\* Only a dialog that keeps its entry has one while it is closed.
Closed(d) ==
  LET closed == [d EXCEPT !.dialog = None, !.row = NoRow, !.since = 0] IN
  IF Named(ThePage.dialogs)[d.dialog].opens = "kept" THEN closed
  ELSE [closed EXCEPT !.entries[d.dialog] = NoEntry]

CloseDialog ==
  /\ IsOpen /\ OnScreen
  /\ desk' = Closed(desk)
  /\ UNCHANGED <<shown, loads, calls, done, mishaps, ticks>>

\* The button is there.
Offered(h, r) ==
  IF h.dialog # None
  THEN desk.dialog = h.dialog /\ OnScreen /\ r = desk.row /\ desk.entries[h.dialog] # NoEntry
  ELSE desk.dialog = None /\ IF h.page THEN r = NoRow /\ Offers(h, r) ELSE RowOffers(h, r)

\* Without the flag.
EnabledAlways(h, r) == TRUE

\* It is not disabled: a dialog with its own flag is by what was sent from it since it
\* was mounted.
Enabled(h, r) ==
  /\ h.flag # None => IF h.wide THEN ~Busy(h.flag) ELSE <<h.flag, r>> \notin desk.held
  /\ h.local => \A c \in calls : HandlerOf(c).dialog = h.dialog => c.n <= desk.since

\* The desk once a call has come to a point where its dialog closes or its entry is
\* cleared.
At(point, c, d) ==
  LET h == HandlerOf(c)
      cleared == IF h.clears = point THEN [d EXCEPT !.entries[h.dialog] = NoEntry] ELSE d
  IN
  IF h.closes = point /\ d.dialog = h.dialog THEN Closed(cleared) ELSE cleared

Released(d, c) == [d EXCEPT !.held = Release(d.held, HandlerOf(c).flag)]

\* The entry a handler sends: new, or one that was sent before.
Sends(h) ==
  IF h.dialog = None THEN NoEntry
  ELSE IF desk.entries[h.dialog] = Unsent THEN ticks.clicks + 1 ELSE desk.entries[h.dialog]

Claimed(h, r, d) == IF h.flag = None THEN d ELSE [d EXCEPT !.held = Claim(d.held, h.flag, r)]
Kept(h, entry, d) == IF h.dialog = None THEN d ELSE [d EXCEPT !.entries[h.dialog] = entry]

\* A handler is called.  A flag that names a row names the last one clicked: then
\* the first can be clicked again.
Click ==
  /\ IsOpen /\ ClickCounts
  /\ \E h \in ThePage.calls, r \in Rows \cup {NoRow} :
       LET c == [n |-> ticks.clicks + 1, of |-> h.name, row |-> r, key |-> desk.key,
                 at |-> "sent", entry |-> Sends(h)]
       IN
       /\ Offered(h, r) /\ Enabled(h, r)
       /\ calls' = calls \cup {c}
       /\ desk' = At("click", c, Claimed(h, r, Kept(h, c.entry, desk)))
       /\ mishaps' = mishaps \cup IF h.flag # None /\ Busy(h.flag) THEN {"crossed"} ELSE {}
  /\ UNCHANGED <<shown, loads, done>>

-----------------------------------------------------------------------------
\* The last load to arrive is shown, whichever was sent last; a call that waited for
\* it ends, also when it failed: a load catches its own failure.
Awaiting(l) == {c \in calls : c.n = l.waiting}
AfterLoad(l) ==
  LET d == [desk EXCEPT !.veiled = FALSE] IN
  IF Awaiting(l) = {} THEN d
  ELSE LET c == CHOOSE c \in Awaiting(l) : TRUE IN Released(At("reload", c, d), c)

LoadArrives(l) ==
  /\ l.read
  /\ shown' = [shown EXCEPT !.key = l.key, !.rows = l.got]
  /\ loads' = loads \ {l} /\ calls' = calls \ Awaiting(l) /\ desk' = AfterLoad(l)
  /\ ticks' = [ticks EXCEPT !.last = IF l.n > @ THEN l.n ELSE @]
  /\ mishaps' = mishaps \cup IF l.n < ticks.last THEN {"order"} ELSE {}
  /\ UNCHANGED done

LoadFails(l) ==
  /\ DeskFault
  /\ loads' = loads \ {l} /\ calls' = calls \ Awaiting(l) /\ desk' = AfterLoad(l)
  /\ mishaps' = mishaps \cup {"unread"}
  /\ UNCHANGED <<shown, done>>

\* The first of two calls took effect.
FirstSucceeds(c) ==
  /\ HandlerOf(c).first /\ c.at = "sent"
  /\ done' = done \cup {[EffectOf(c) EXCEPT !.at = "first"]}
  /\ calls' = (calls \ {c}) \cup {[c EXCEPT !.at = "second"]}
  /\ UNCHANGED <<desk, shown, loads, mishaps, ticks>>

IsLast(c) == c.at = IF HandlerOf(c).first THEN "second" ELSE "sent"

\* The reload shows the key the handler was created with.
Strays(c) == IF c.key # desk.key THEN {"strayed"} ELSE {}

ReloadsAndWaits(c) ==
  /\ IsLast(c) /\ HandlerOf(c).then = "awaits"
  /\ done' = done \cup {EffectOf(c)}
  /\ calls' = (calls \ {c}) \cup {[c EXCEPT !.at = "loading"]}
  /\ loads' = LoadsAlso(c.key, c.n) /\ OneMoreLoad
  /\ desk' = Veiled(At("success", c, desk))
  /\ mishaps' = mishaps \cup Strays(c)
  /\ UNCHANGED shown

ReloadsMeanwhile(c) ==
  /\ IsLast(c) /\ HandlerOf(c).then = "starts"
  /\ done' = done \cup {EffectOf(c)}
  /\ calls' = calls \ {c}
  /\ loads' = LoadsAlso(c.key, 0) /\ OneMoreLoad
  /\ desk' = Veiled(Released(At("success", c, desk), c))
  /\ mishaps' = mishaps \cup Strays(c)
  /\ UNCHANGED shown

\* The list is patched; a load that was read before will undo the patch.
Patches(c) ==
  /\ IsLast(c) /\ HandlerOf(c).then = "patches"
  /\ done' = done \cup {EffectOf(c)}
  /\ calls' = calls \ {c}
  /\ shown' = [shown EXCEPT !.rows = @ \cup {EffectOf(c)}]
  /\ desk' = Released(At("success", c, desk), c)
  /\ mishaps' = mishaps \cup IF \E l \in loads : l.read THEN {"overwritten"} ELSE {}
  /\ UNCHANGED <<loads, ticks>>

\* The answer is noted beside the list, where no load can undo it.
Notes(c) ==
  /\ IsLast(c) /\ HandlerOf(c).then = "notes"
  /\ done' = done \cup {EffectOf(c)}
  /\ calls' = calls \ {c}
  /\ shown' = [shown EXCEPT !.notes = @ \cup {EffectOf(c)}]
  /\ desk' = Released(At("success", c, desk), c)
  /\ UNCHANGED <<loads, mishaps, ticks>>

Leaves(c) == IsLast(c) /\ HandlerOf(c).then = "leaves" /\ ResetDesk

\* A call is refused, or took effect and its answer is lost: a message, and the
\* button is enabled again.
CallFails(c) ==
  /\ c.at # "loading" /\ DeskFault
  /\ calls' = calls \ {c}
  /\ desk' = Released(desk, c)
  /\ \/ UNCHANGED done /\ mishaps' = mishaps \cup IF c.at = "second" THEN {"half"} ELSE {}
     \/ done' = done \cup {EffectOf(c)} /\ mishaps' = mishaps \cup {"lost"}
  /\ UNCHANGED <<shown, loads>>

CallSucceeds(c) ==
  \/ FirstSucceeds(c)
  \/ ReloadsAndWaits(c)
  \/ ReloadsMeanwhile(c)
  \/ Patches(c)
  \/ Notes(c)
  \/ Leaves(c)

AnswerLoad(n) == \E l \in loads : l.n = n /\ (LoadIsRead(l) \/ LoadArrives(l) \/ LoadFails(l))
AnswerCall(n) == \E c \in calls : c.n = n /\ (CallSucceeds(c) \/ CallFails(c))

DeskNext ==
  \/ OpenPage
  \/ LeavePage
  \/ Reload
  \/ SelectKey
  \/ StreamAnnounces
  \/ WorkerRuns
  \/ OpenDialog
  \/ TypeEntry
  \/ CloseDialog
  \/ Click
  \/ \E n \in 1 .. MaxClicks + 1 : AnswerLoad(n) \/ AnswerCall(n)

DeskSpec == DeskInit /\ [][DeskNext]_deskVars

-----------------------------------------------------------------------------
\* Once nothing is under way a page shows the project or period that is selected,
\* with everything its own handlers did.  What breaks this, and nothing else: loads
\* that arrive out of order, a load that fails, a call whose answer is lost or that
\* does half of its work, a patch undone by an older load, a reload of the key that
\* was selected at the click, queued work that ends after the last load was read.
ListTellsTheTruth ==
  (IsOpen /\ loads = {} /\ calls = {} /\ mishaps \subseteq {"crossed"}) =>
    shown.key = desk.key /\ shown.rows = Listed(desk.key)

\* A button that a flag disables
Locks(h) == h.flag # None \/ h.local

\* However dialogs are closed, opened again and retyped while a call is under way, an
\* entry whose button a flag disables takes effect once, unless the answer to its
\* first attempt was lost or that attempt did half of its work.
EntriesCountOnce ==
  mishaps \cap {"lost", "half"} # {} \/ \A a, b \in done :
    (a.of = b.of /\ a.at = b.at /\ a.entry = b.entry /\ a.entry # NoEntry /\ Locks(HandlerOf(a)))
      => a = b

\* A button that a flag disables until the list shows what it did is not clicked
\* twice for one row, as long as the list tells the truth and no other row was
\* clicked meanwhile.
RowsAreDoneOnce ==
  mishaps # {} \/ \A a, b \in done : (a.of = b.of /\ a.row = b.row /\ Guarded(HandlerOf(a))) => a = b

\* A button is disabled only while a call is under way that enables it again,
\* whatever fails.
HeldIsReleased == \A f \in desk.held : \E c \in calls : HandlerOf(c).flag = f[1]

\* The pages as a whole.
DesksHold == ListTellsTheTruth /\ EntriesCountOnce /\ RowsAreDoneOnce /\ HeldIsReleased
=============================================================================
