----------------------------- MODULE MCPlatform -----------------------------
(* What has to come to an end: the delivery of committed events, payroll   *)
(* runs and the dispatch of notifications.  They share no state, so that a *)
(* run checks them side by side: each steps only while the others are as   *)
(* they began.  Nothing that is fair is enabled in an initial state.       *)
EXTENDS Delivery, PayrollRuns, Notifications, TLC

CONSTANTS ann, bob, cid, e1, s1

MCNetPay == (ann :> 1) @@ (bob :> 2) @@ (cid :> 0)
MCRoster == <<ann, bob, cid>>

MCChannels == <<"WEBHOOK", "EMAIL">>

\* Ids are interchangeable: the first event is e1, and it is about s1.
FirstIsFirst == DOMAIN event = {} \/ (e1 \in DOMAIN event /\ Source(e1) = s1)

PlatformInit == Init /\ PayrollInit /\ NoticeInit

PlatformNext ==
  \/ /\ PayrollInit /\ NoticeInit
     /\ Next /\ FirstIsFirst'
     /\ UNCHANGED <<payrollVars, noticeVars>>
  \/ Init /\ NoticeInit /\ PayrollNext /\ UNCHANGED <<vars, noticeVars>>
  \/ Init /\ PayrollInit /\ NoticeNext /\ UNCHANGED <<vars, payrollVars>>

PlatformSpec ==
  /\ PlatformInit /\ [][PlatformNext]_<<vars, payrollVars, noticeVars>>
  /\ DeliveryFairness /\ PayrollFairness /\ NoticeFairness

\* Events are delivered, runs end and are posted, deliveries settle.
PlatformSettles == EventsSettle /\ RunSettles /\ DeliverySettles
=============================================================================
