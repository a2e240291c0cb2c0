----------------------------- MODULE WebSession -----------------------------
(***************************************************************************)
(* Calls of the API from a page of the web client (lib/api/client.ts,      *)
(* lib/auth.ts, KeycloakProvider).  A call waits until the page knows      *)
(* whether a user is signed in, refreshes a token that is about to expire, *)
(* and after a 401 tries once more with a new token.                       *)
(***************************************************************************)
EXTENDS Integers

CONSTANTS
  Calls,     \* calls of apiClient and apiBlobClient, each made once
  MaxTokens  \* bound on the tokens a session gets

ASSUME SessionAssumption == MaxTokens \in Nat \ {0}

VARIABLES
  page,        \* closed, opening (init runs), ready (init has settled) or gone
  session,     \* keycloak.authenticated
  token,       \* the access token, counted; 0: none
  age,         \* fresh, stale (expires within the 30 or 70 seconds) or expired
  refreshing,  \* whether a refresh runs; keycloak-js lets all callers share it
  request,     \* where each call stands
  ran          \* how often the API ran each call (not stored)

sessionVars == <<page, session, token, age, refreshing, request, ran>>

NotMade == [at |-> "none"]
Settled(outcome) == [at |-> "over", outcome |-> outcome]
InProgress == {c \in Calls : request[c].at \notin {"none", "over"}}

SessionInit ==
  /\ page = "closed" /\ session = FALSE /\ token = 0 /\ age = "fresh" /\ refreshing = FALSE
  /\ request = [c \in Calls |-> NotMade]
  /\ ran = [c \in Calls |-> 0]

-----------------------------------------------------------------------------
OpenPage ==
  /\ page = "closed"
  /\ page' = "opening"
  /\ UNCHANGED <<session, token, age, refreshing, request, ran>>

\* markAuthReady: who waits for it goes on.
MarkAuthReady ==
  /\ page' = "ready"
  /\ request' = [c \in Calls |-> IF request[c].at = "waiting"
                                 THEN [request[c] EXCEPT !.at = "fresh"] ELSE request[c]]

\* init resolves, with or without a user.
InitResolves(auth) ==
  /\ page = "opening"
  /\ session' = auth
  /\ token' = IF auth THEN 1 ELSE 0
  /\ MarkAuthReady
  /\ UNCHANGED <<age, refreshing, ran>>

\* Nobody is told.
InitRejectsSilently ==
  /\ page = "opening" /\ page' = "ready"
  /\ UNCHANGED <<session, token, age, refreshing, request, ran>>

InitRejects ==
  /\ page = "opening"
  /\ MarkAuthReady
  /\ UNCHANGED <<session, token, age, refreshing, ran>>

\* A redirect to the login, a logout, or the user leaves.
LeavePage ==
  /\ page \in {"opening", "ready"}
  /\ page' = "gone"
  /\ refreshing' = FALSE
  /\ request' = [c \in Calls |-> IF c \in InProgress THEN Settled("gone") ELSE request[c]]
  /\ UNCHANGED <<session, token, age, ran>>

TokenAges ==
  /\ page = "ready" /\ session
  /\ \/ age = "fresh" /\ age' = "stale"
     \/ age = "stale" /\ age' = "expired"
  /\ UNCHANGED <<page, session, token, refreshing, request, ran>>

\* refreshToken, every 30 seconds and when the token expires
PeriodicRefresh ==
  /\ page = "ready" /\ session /\ ~refreshing /\ age # "fresh"
  /\ refreshing' = TRUE
  /\ UNCHANGED <<page, session, token, age, request, ran>>

-----------------------------------------------------------------------------
\* What ensureFreshToken's caller does with the token t it gets.
Given(q, t) ==
  IF q.again /\ t \in {0, q.token} THEN Settled("refused")
  ELSE [q EXCEPT !.at = "sent", !.token = t]

AllGiven(t) ==
  [c \in Calls |-> IF request[c].at = "refresh" THEN Given(request[c], t) ELSE request[c]]

RefreshSucceeds ==
  /\ refreshing /\ token < MaxTokens
  /\ token' = token + 1 /\ age' = "fresh" /\ refreshing' = FALSE
  /\ request' = AllGiven(token')
  /\ UNCHANGED <<page, session, ran>>

\* The session has ended, or Keycloak is out of reach.  Who asked goes on
\* without a token, although the page is about to leave for the login.
RefreshFails ==
  /\ refreshing
  /\ session' \in {FALSE, session}
  /\ refreshing' = FALSE
  /\ request' = AllGiven(0)
  /\ UNCHANGED <<page, token, age, ran>>

CallApi(c, blob) ==
  /\ page \in {"opening", "ready"}
  /\ request[c] = NotMade
  /\ request' = [request EXCEPT ![c] =
       [at |-> IF page = "ready" THEN "fresh" ELSE "waiting",
        token |-> 0, again |-> FALSE, blob |-> blob]]
  /\ UNCHANGED <<page, session, token, age, refreshing, ran>>

\* updateToken(30), or updateToken(0) before the second try
MustRefresh(q) == age = "expired" \/ (age = "stale" /\ ~q.again)

EnsureFreshToken(c) ==
  /\ request[c].at = "fresh"
  /\ IF session /\ MustRefresh(request[c])
     THEN refreshing' = TRUE /\ request' = [request EXCEPT ![c].at = "refresh"]
     ELSE /\ request' = [request EXCEPT ![c] = Given(@, IF session THEN token ELSE 0)]
          /\ UNCHANGED refreshing
  /\ UNCHANGED <<page, session, token, age, ran>>

\* The API refuses the token, for instance because it has expired on the way.
Refuses(c) ==
  /\ request[c].at = "sent"
  /\ request' = [request EXCEPT ![c].at = "401"]
  /\ UNCHANGED <<page, session, token, age, refreshing, ran>>

\* The API runs the handler, which may fail half way.
Runs(c) ==
  /\ request[c].at = "sent"
  /\ ran' = [ran EXCEPT ![c] = @ + 1]
  /\ \E answer \in {"ok", "failed"} : request' = [request EXCEPT ![c].at = answer]
  /\ UNCHANGED <<page, session, token, age, refreshing>>

\* fetch rejects; the API may have run the call.
FetchRejects(c) ==
  /\ request[c].at \in {"sent", "401", "ok", "failed"}
  /\ request' = [request EXCEPT ![c] = Settled("lost")]
  /\ UNCHANGED <<page, session, token, age, refreshing, ran>>

\* Whatever is not ok is tried again.
TriesAgainAlways(q) == q.at # "ok" /\ q.token # 0 /\ ~q.again /\ ~q.blob

TriesAgain(q) == q.at = "401" /\ q.token # 0 /\ ~q.again /\ ~q.blob

Answered(c) ==
  /\ request[c].at \in {"401", "ok", "failed"}
  /\ request' = [request EXCEPT ![c] =
       IF TriesAgain(@) THEN [@ EXCEPT !.at = "fresh", !.again = TRUE]
       ELSE Settled(IF @.at = "ok" THEN "ok" ELSE "refused")]
  /\ UNCHANGED <<page, session, token, age, refreshing, ran>>

CallSteps(c) ==
  EnsureFreshToken(c) \/ Refuses(c) \/ Runs(c) \/ FetchRejects(c) \/ Answered(c)

InitSettles == (\E auth \in BOOLEAN : InitResolves(auth)) \/ InitRejects
RefreshSettles == RefreshSucceeds \/ RefreshFails

SessionNext ==
  \/ OpenPage \/ InitSettles \/ LeavePage \/ TokenAges \/ PeriodicRefresh \/ RefreshSettles
  \/ \E c \in Calls : (\E blob \in BOOLEAN : CallApi(c, blob)) \/ CallSteps(c)

\* Every promise of the browser settles.
SessionFairness ==
  /\ WF_sessionVars(InitSettles) /\ WF_sessionVars(RefreshSettles)
  /\ \A c \in Calls : WF_sessionVars(CallSteps(c))

SessionSpec == SessionInit /\ [][SessionNext]_sessionVars /\ SessionFairness

-----------------------------------------------------------------------------
\* apiClient: the second try never repeats a call that the API has run.
CallsRunOnce == \A c \in Calls : ran[c] <= 1

\* apiClient: a call that is reported to have succeeded has run.
SuccessHasRun == \A c \in Calls : request[c] = Settled("ok") => ran[c] = 1

\* apiClient and ensureFreshToken together: a call reaches a handler at most once,
\* and exactly once if its caller is told so.
CallsHold == CallsRunOnce /\ SuccessHasRun

\* ensureFreshToken, markAuthReady: a call made while the page signs in, or during
\* a refresh, comes to an end, also when the sign-in or the refresh fails.
CallsSettle == \A c \in Calls : (c \in InProgress) ~> (c \notin InProgress)
=============================================================================
