--------------------------- MODULE Notifications ---------------------------
(***************************************************************************)
(* Notifications of one user: the request or listener that stores one and  *)
(* queues its dispatch channel by channel, and the worker that dispatches  *)
(* with retries.  The worker handles one job at a time; a failed job waits *)
(* again until its attempts are spent, and one whose worker died is handed *)
(* out again once (maxStalledCount).                                       *)
(***************************************************************************)
EXTENDS Integers, SequencesExt

CONSTANTS
  Notices,      \* ids of notifications
  Channels,     \* the dispatched channels in the order notify takes them
  MaxAttempts,  \* attempts of a job (5)
  NoticeFaults  \* bound on crashes and failed statements

ASSUME NotificationsAssumption ==
  /\ Channels \in Seq(ToSet(Channels)) /\ IsInjective(Channels)
  /\ MaxAttempts \in Nat \ {0} /\ NoticeFaults \in Nat

VARIABLES
  notice,      \* ids that have a Notification row
  notifying,   \* where notify stands: not called, its step, over
  dispatch,    \* per notice and channel: the NotificationDelivery row
  sendJob,     \* per notice and channel: its job
  accepted,    \* messages the provider took (external)
  muted,       \* channels, or IN_APP, that the user has switched off
  reachable,   \* channels for which there is an address
  noticeFaults

noticeVars == <<notice, notifying, dispatch, sendJob, accepted, muted, reachable, noticeFaults>>

ChannelSet == ToSet(Channels)
NoDelivery == [status |-> "NONE", attempts |-> 0]
NoJob == [pc |-> "none", made |-> 0, stalled |-> FALSE]
JobAt(n, c, pc) == sendJob[n][c].pc = pc

NoticeInit ==
  /\ notice = {}
  /\ notifying = [n \in Notices |-> [pc |-> "none", left |-> Channels]]
  /\ dispatch = [n \in Notices |-> [c \in ChannelSet |-> NoDelivery]]
  /\ sendJob = [n \in Notices |-> [c \in ChannelSet |-> NoJob]]
  /\ accepted = [n \in Notices |-> [c \in ChannelSet |-> 0]]
  /\ muted = {} /\ reachable = ChannelSet
  /\ noticeFaults = 0

-----------------------------------------------------------------------------
(* notify                                                                  *)

Notifying(n, pc) == notifying[n].pc = pc
NotifyGoes(n, pc, left) ==
  notifying' = [notifying EXCEPT ![n] = [pc |-> IF pc = "channel" /\ left = <<>> THEN "over" ELSE pc,
                                         left |-> left]]

\* The preference for IN_APP decides for every channel.
Notify(n) ==
  /\ Notifying(n, "none")
  /\ IF "IN_APP" \in muted
     THEN NotifyGoes(n, "over", Channels) /\ UNCHANGED notice
     ELSE NotifyGoes(n, "in_app", Channels) /\ notice' = notice \cup {n}
  /\ UNCHANGED <<dispatch, sendJob, accepted, muted, reachable, noticeFaults>>

\* The IN_APP delivery, whose insert fails once the notification is deleted,
\* and the push to the stream.
MarkInApp(n) ==
  /\ Notifying(n, "in_app")
  /\ NotifyGoes(n, IF n \in notice THEN "channel" ELSE "over", Channels)
  /\ UNCHANGED <<notice, dispatch, sendJob, accepted, muted, reachable, noticeFaults>>

\* enqueueIfEligible up to the row; its catch goes on with the next channel.
Eligible(n) ==
  LET c == Head(notifying[n].left) rest == Tail(notifying[n].left) IN
  /\ Notifying(n, "channel")
  /\ IF c \notin muted /\ c \in reachable /\ n \in notice
     THEN /\ dispatch' = [dispatch EXCEPT ![n][c] = [status |-> "PENDING", attempts |-> 0]]
          /\ NotifyGoes(n, "add", notifying[n].left)
     ELSE NotifyGoes(n, "channel", rest) /\ UNCHANGED dispatch
  /\ UNCHANGED <<notice, sendJob, accepted, muted, reachable, noticeFaults>>

\* dispatchQueue.add
AddJob(n) ==
  LET c == Head(notifying[n].left) IN
  /\ Notifying(n, "add")
  /\ sendJob' = [sendJob EXCEPT ![n][c].pc = "waiting"]
  /\ NotifyGoes(n, "channel", Tail(notifying[n].left))
  /\ UNCHANGED <<notice, dispatch, accepted, muted, reachable, noticeFaults>>

\* It fails: logged, and the row stays PENDING.
AddJobFails(n) ==
  /\ Notifying(n, "add")
  /\ noticeFaults < NoticeFaults
  /\ NotifyGoes(n, "channel", Tail(notifying[n].left))
  /\ noticeFaults' = noticeFaults + 1
  /\ UNCHANGED <<notice, dispatch, sendJob, accepted, muted, reachable>>

-----------------------------------------------------------------------------
(* The worker                                                              *)

\* updateMany: a row that was deleted is not there to be updated.
UpdateDelivery(n, c, status, made) ==
  dispatch' = IF dispatch[n][c] = NoDelivery THEN dispatch
              ELSE [dispatch EXCEPT ![n][c] = [status |-> status, attempts |-> made]]

TakeJob(n, c) ==
  /\ JobAt(n, c, "waiting")
  /\ \A m \in Notices, d \in ChannelSet : sendJob[m][d].pc \notin {"send", "sent", "catch"}
  /\ sendJob' = [sendJob EXCEPT ![n][c].pc = "send"]
  /\ UNCHANGED <<notice, notifying, dispatch, accepted, muted, reachable, noticeFaults>>

\* A worker that does not look at what the channel reports.
SendUnread(n, c) ==
  /\ JobAt(n, c, "send")
  /\ c \in reachable
  /\ sendJob' = [sendJob EXCEPT ![n][c].pc = "sent"]
  /\ \E taken \in {0, 1} : accepted' = [accepted EXCEPT ![n][c] = @ + taken]
  /\ UNCHANGED <<notice, notifying, dispatch, muted, reachable, noticeFaults>>

\* dispatchWebhook, dispatchEmail, dispatchSms: the provider takes it or not.
Send(n, c) ==
  /\ JobAt(n, c, "send")
  /\ c \in reachable
  /\ \E taken \in {0, 1} :
       /\ accepted' = [accepted EXCEPT ![n][c] = @ + taken]
       /\ sendJob' = [sendJob EXCEPT ![n][c].pc = IF taken = 1 THEN "sent" ELSE "catch"]
  /\ UNCHANGED <<notice, notifying, dispatch, muted, reachable, noticeFaults>>

\* The address is gone: the delivery has failed, the job is done.
NotApplicable(n, c) ==
  /\ JobAt(n, c, "send")
  /\ c \notin reachable
  /\ UpdateDelivery(n, c, "FAILED", sendJob[n][c].made + 1)
  /\ sendJob' = [sendJob EXCEPT ![n][c].pc = "done"]
  /\ UNCHANGED <<notice, notifying, accepted, muted, reachable, noticeFaults>>

MarkSent(n, c) ==
  /\ JobAt(n, c, "sent")
  /\ UpdateDelivery(n, c, "SENT", sendJob[n][c].made + 1)
  /\ sendJob' = [sendJob EXCEPT ![n][c].pc = "done"]
  /\ UNCHANGED <<notice, notifying, accepted, muted, reachable, noticeFaults>>

\* A statement of the try block fails.
MarkFails(n, c) ==
  /\ JobAt(n, c, "sent") \/ (JobAt(n, c, "send") /\ c \notin reachable)
  /\ noticeFaults < NoticeFaults
  /\ sendJob' = [sendJob EXCEPT ![n][c].pc = "catch"]
  /\ noticeFaults' = noticeFaults + 1
  /\ UNCHANGED <<notice, notifying, dispatch, accepted, muted, reachable>>

\* isFinalAttempt
Final(made) == made >= MaxAttempts

\* The job after an attempt that threw, as BullMQ leaves it
Retried(job) == [job EXCEPT !.made = @ + 1,
                         !.pc = IF job.made + 1 >= MaxAttempts THEN "dead" ELSE "waiting"]

\* The catch: the row, and the error is rethrown.
CatchError(n, c) ==
  LET made == sendJob[n][c].made + 1 IN
  /\ JobAt(n, c, "catch")
  /\ UpdateDelivery(n, c, IF Final(made) THEN "FAILED" ELSE "RETRYING", made)
  /\ sendJob' = [sendJob EXCEPT ![n][c] = Retried(@)]
  /\ UNCHANGED <<notice, notifying, accepted, muted, reachable, noticeFaults>>

\* Its update fails.
CatchFails(n, c) ==
  /\ JobAt(n, c, "catch")
  /\ noticeFaults < NoticeFaults
  /\ sendJob' = [sendJob EXCEPT ![n][c] = Retried(@)]
  /\ noticeFaults' = noticeFaults + 1
  /\ UNCHANGED <<notice, notifying, dispatch, accepted, muted, reachable>>

\* The process dies with its calls to notify; the job it held is handed out
\* again, unless that happened before.
NoticeCrash ==
  /\ noticeFaults < NoticeFaults
  /\ notifying' = [n \in Notices |->
       IF Notifying(n, "none") THEN notifying[n] ELSE [notifying[n] EXCEPT !.pc = "over"]]
  /\ sendJob' = [n \in Notices |-> [c \in ChannelSet |->
       LET job == sendJob[n][c] IN
       IF job.pc \notin {"send", "sent", "catch"} THEN job
       ELSE [job EXCEPT !.pc = IF job.stalled THEN "dead" ELSE "waiting", !.stalled = TRUE]]]
  /\ noticeFaults' = noticeFaults + 1
  /\ UNCHANGED <<notice, dispatch, accepted, muted, reachable>>

-----------------------------------------------------------------------------
(* Users and administrators                                                *)

\* deleteNotification: the notification and its deliveries, in a transaction
DeleteNotification(n) ==
  /\ n \in notice
  /\ notice' = notice \ {n}
  /\ dispatch' = [dispatch EXCEPT ![n] = [c \in ChannelSet |-> NoDelivery]]
  /\ UNCHANGED <<notifying, sendJob, accepted, muted, reachable, noticeFaults>>

\* setPreference: one row per channel
SetPreference(c, on) ==
  /\ (c \in muted) = on
  /\ muted' = IF on THEN muted \ {c} ELSE muted \cup {c}
  /\ UNCHANGED <<notice, notifying, dispatch, sendJob, accepted, reachable, noticeFaults>>

\* The tenant's webhook, or the user's address, is removed.
RemoveAddress(c) ==
  /\ c \in reachable
  /\ reachable' = reachable \ {c}
  /\ UNCHANGED <<notice, notifying, dispatch, sendJob, accepted, muted, noticeFaults>>

-----------------------------------------------------------------------------
NotifySteps(n) == MarkInApp(n) \/ Eligible(n) \/ AddJob(n)
SendSteps ==
  \E n \in Notices, c \in ChannelSet :
    TakeJob(n, c) \/ Send(n, c) \/ NotApplicable(n, c) \/ MarkSent(n, c) \/ CatchError(n, c)

NoticeNext ==
  \/ \E n \in Notices : Notify(n) \/ NotifySteps(n) \/ AddJobFails(n) \/ DeleteNotification(n)
  \/ SendSteps
  \/ \E n \in Notices, c \in ChannelSet : MarkFails(n, c) \/ CatchFails(n, c)
  \/ NoticeCrash
  \/ \E c \in ChannelSet \cup {"IN_APP"}, on \in BOOLEAN : SetPreference(c, on)
  \/ \E c \in ChannelSet : RemoveAddress(c)

\* Started calls go on and the worker takes what waits, backoff included.
NoticeFairness ==
  /\ \A n \in Notices : WF_noticeVars(NotifySteps(n))
  /\ WF_noticeVars(SendSteps)

NoticeSpec == NoticeInit /\ [][NoticeNext]_noticeVars /\ NoticeFairness

-----------------------------------------------------------------------------
\* process: a row that says SENT is right, whatever failed.
SentWasAccepted ==
  \A n \in Notices, c \in ChannelSet :
    dispatch[n][c].status = "SENT" => accepted[n][c] > 0

\* process and the comment of its class: once the job is over, the row says
\* what became of the message, and a job that used up its attempts is kept.
\* Without faults no message is sent twice, although a retry does not know what
\* the provider took before.
DeliveryTellsTruth ==
  noticeFaults = 0 =>
    \A n \in Notices, c \in ChannelSet :
      LET row == dispatch[n][c] job == sendJob[n][c] IN
         /\ accepted[n][c] <= 1
         /\ (n \in notice /\ job.pc = "done") =>
              row.status = (IF accepted[n][c] = 1 THEN "SENT" ELSE "FAILED")
         /\ (n \in notice /\ job.pc = "dead") =>
              row = [status |-> "FAILED", attempts |-> MaxAttempts] /\ accepted[n][c] = 0

\* NotificationService and its dispatcher together: a delivery says what became of it.
NoticesHold == SentWasAccepted /\ DeliveryTellsTruth

\* enqueueIfEligible and process: unless something fails, a delivery does not
\* stay PENDING or RETRYING, whatever the provider answers, and also when its
\* address is removed between two attempts.
DeliverySettles ==
  \A n \in Notices, c \in ChannelSet :
    dispatch[n][c].status \in {"PENDING", "RETRYING"} ~>
      (dispatch[n][c].status \in {"SENT", "FAILED", "NONE"} \/ noticeFaults > 0)
=============================================================================
