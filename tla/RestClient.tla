------------------------------ MODULE RestClient -----------------------------
(***************************************************************************)
(* The REST client: _api_request() and the circuit breaker of api.py on    *)
(* top of the TokenManager of browser.py, which reads the access token out *)
(* of Chrome's cookies and renews it by loading a page.                    *)
(*                                                                         *)
(* Tokens are numbered as Naukri issues them, 0 is none.  An action is the *)
(* code from one await to the next; an extract() holds what the cookies    *)
(* were when it asked, until the answer comes.                             *)
(*                                                                         *)
(* Abstractions.  Budgets of the waits are not measured: a wait may time   *)
(* out whenever it lasts.  The page pool only delays a refresh, and the    *)
(* metrics and the classifier's wording are left out.                      *)
(***************************************************************************)
EXTENDS Integers

CONSTANTS
  Callers,        \* requests in flight
  Nobody,         \* value of lock when it is free
  MaxToken,       \* bound: tokens Naukri issues
  Threshold,      \* failures that open the circuit
  MaxRetries      \* API_MAX_RETRIES

ASSUME NobodyAssumption == Nobody \notin Callers
ASSUME LimitsAssumption ==
  MaxToken \in Nat \ {0} /\ Threshold \in Nat \ {0} /\ MaxRetries \in Nat \ {0}

VARIABLES
  session,        \* the login on Naukri is alive
  valid,          \* the token Naukri accepts, 0 once it has expired
  issued,         \* tokens issued so far
  cookie,         \* the token in Chrome's cookies
  token,          \* TokenManager._token
  lock,           \* holder of _refresh_lock
  breaker,        \* state of the circuit
  failures,       \* _failures, up to the threshold
  cooled,         \* reset_timeout has passed since the last failure
  pc,             \* where each request is
  why,            \* what it asks the token manager for
  used,           \* the token it was sent with
  attempt,        \* _attempt
  seen,           \* the cookie an extract() in flight brings back
  ahead,          \* extracts in flight that were asked before its own
  told,           \* history: how each caller's last request ended
  renewals,       \* history: refreshes each expired token was replaced by
  env             \* environment: "calm": Chrome answers, in order, and keeps
                  \* expired cookies, and nobody logs in or out; "rough": it
                  \* need not, and they may; "clear": nothing fails any more

siteVars == <<session, valid, issued>>
breakerVars == <<breaker, failures, cooled>>
callVars == <<pc, why, used, attempt, seen, ahead, told>>
vars == <<siteVars, cookie, token, lock, breakerVars, callVars, renewals, env>>

Tokens == 0..MaxToken

TypeOK ==
  /\ session \in BOOLEAN /\ valid \in Tokens /\ issued \in Tokens
  /\ cookie \in Tokens /\ token \in Tokens
  /\ lock \in Callers \cup {Nobody}
  /\ breaker \in {"closed", "open", "half_open"}
  /\ failures \in 0..Threshold /\ cooled \in BOOLEAN
  /\ pc \in [Callers -> {"idle", "ensure", "extract", "export", "wait", "load", "send"}]
  /\ why \in [Callers -> {"cached", "renew", "expired", "bot"}]
  /\ used \in [Callers -> Tokens] /\ attempt \in [Callers -> 0..MaxRetries]
  /\ seen \in [Callers -> Tokens] /\ ahead \in [Callers -> SUBSET Callers]
  /\ told \in [Callers -> {"nothing", "ok", "error", "auth_expired"}]
  /\ renewals \in [Tokens -> Nat]
  /\ env \in {"calm", "rough", "clear"}

Init ==
  /\ session = TRUE /\ valid = 1 /\ issued = 1 /\ cookie \in {0, 1} /\ token = 0
  /\ lock = Nobody
  /\ breaker = "closed" /\ failures = 0 /\ cooled = FALSE
  /\ pc = [c \in Callers |-> "idle"] /\ why = [c \in Callers |-> "cached"]
  /\ used = [c \in Callers |-> 0] /\ attempt = [c \in Callers |-> 0]
  /\ seen = [c \in Callers |-> 0] /\ ahead = [c \in Callers |-> {}]
  /\ told = [c \in Callers |-> "nothing"]
  /\ renewals = [t \in Tokens |-> 0]
  /\ env \in {"calm", "rough"}

-----------------------------------------------------------------------------
(* ApiCircuitBreaker *)

RecordSuccess == breaker' = "closed" /\ failures' = 0 /\ cooled' = FALSE

RecordFailure ==
  LET n == IF failures < Threshold THEN failures + 1 ELSE failures
  IN /\ failures' = n
     /\ breaker' = IF n = Threshold THEN "open" ELSE breaker
     /\ cooled' = FALSE

\* Mutant of CanExecute: an open circuit stays open.
CanExecute_NeverAgain == breaker # "open" /\ UNCHANGED breakerVars

\* can_execute() refuses until reset_timeout has passed since the last failure;
\* half open, it lets everybody pass.
CanExecute ==
  /\ breaker # "open" \/ cooled
  /\ breaker' = IF breaker = "open" THEN "half_open" ELSE breaker
  /\ UNCHANGED <<failures, cooled>>

-----------------------------------------------------------------------------
(* How a request goes on; each says what becomes of pc, why and the rest.  *)

To(c, p) == pc' = [pc EXCEPT ![c] = p]

KeepRequest == UNCHANGED <<why, used, attempt>>

\* The request ends: raising, or with a result.
End(c, result) ==
  /\ To(c, "idle")
  /\ told' = [told EXCEPT ![c] = result]
  /\ used' = [used EXCEPT ![c] = 0] /\ attempt' = [attempt EXCEPT ![c] = 0]
  /\ why' = [why EXCEPT ![c] = "cached"]

\* ensure_token() has the token t.
SendWith(c, t) ==
  /\ To(c, "send")
  /\ used' = [used EXCEPT ![c] = t]
  /\ why' = [why EXCEPT ![c] = "cached"]
  /\ UNCHANGED <<attempt, told>>

\* refresh_via_pool() came back: _api_request() calls itself again.
Again(c) ==
  /\ To(c, "ensure")
  /\ attempt' = [attempt EXCEPT ![c] = @ + 1]
  /\ why' = [why EXCEPT ![c] = "cached"]
  /\ UNCHANGED <<used, told>>

\* The token manager raised.  The breaker hears of it after a bot check, or when
\* the session is gone; a token that cannot be had is not counted.
TokenError(c, result) ==
  /\ End(c, result)
  /\ IF why[c] = "bot" \/ (why[c] = "expired" /\ result = "auth_expired")
     THEN RecordFailure ELSE UNCHANGED breakerVars

FreeLock(c) == lock' = IF lock = c THEN Nobody ELSE lock

\* extract() is over, with t in the cache, and the lock, if held, is given back.
\* ensure_token() without a token goes on to renew it under the lock, and then
\* gives up; _do_refresh() without one takes the session for expired.
Extracted(c, t) ==
  /\ FreeLock(c)
  /\ \/ t # 0 /\ why[c] \in {"cached", "renew"} /\ SendWith(c, t) /\ UNCHANGED breakerVars
     \/ t # 0 /\ why[c] \in {"expired", "bot"} /\ Again(c) /\ UNCHANGED breakerVars
     \/ /\ t = 0 /\ why[c] = "cached"
        /\ To(c, "wait") /\ why' = [why EXCEPT ![c] = "renew"]
        /\ UNCHANGED <<used, attempt, told, breakerVars>>
     \/ t = 0 /\ why[c] = "renew" /\ TokenError(c, "error")
     \/ t = 0 /\ why[c] \in {"expired", "bot"} /\ TokenError(c, "auth_expired")

\* extract() asks Chrome for its cookies, which hold k.
Ask(c, k) ==
  /\ seen' = [seen EXCEPT ![c] = k]
  /\ ahead' = [ahead EXCEPT ![c] = {d \in Callers : pc[d] = "extract"}]

Forget(c) ==
  /\ seen' = [seen EXCEPT ![c] = 0]
  /\ ahead' = [d \in Callers |-> IF d = c THEN {} ELSE ahead[d] \ {c}]

-----------------------------------------------------------------------------
(* TokenManager *)

\* ensure_token(): the cache, or else the cookies, without the lock.
EnsureToken(c) ==
  /\ pc[c] = "ensure"
  /\ \/ token # 0 /\ SendWith(c, token) /\ UNCHANGED <<seen, ahead>>
     \/ token = 0 /\ To(c, "extract") /\ Ask(c, cookie) /\ KeepRequest /\ UNCHANGED told
  /\ UNCHANGED <<siteVars, cookie, token, lock, breakerVars, renewals, env>>

\* The cookies arrive.  A token is exported in a thread before extract() returns.
CookiesArrive(c) ==
  /\ pc[c] = "extract"
  /\ env = "rough" \/ ahead[c] = {}
  /\ token' = seen[c]
  /\ Forget(c)
  /\ IF seen[c] # 0
     THEN To(c, "export") /\ KeepRequest /\ UNCHANGED <<lock, breakerVars, told>>
     ELSE Extracted(c, 0)
  /\ UNCHANGED <<siteVars, cookie, renewals, env>>

\* cookies() raises or takes longer than BROWSER_OP_TIMEOUT.
CookiesFail(c) ==
  /\ pc[c] = "extract" /\ env = "rough"
  /\ token' = 0
  /\ Forget(c)
  /\ Extracted(c, 0)
  /\ UNCHANGED <<siteVars, cookie, renewals, env>>

\* What is in the cache when the export is done decides.
ExportEnds(c) ==
  /\ pc[c] = "export"
  /\ Extracted(c, token)
  /\ UNCHANGED <<siteVars, cookie, token, seen, ahead, renewals, env>>

\* Mutant of TakeLock: the token is not looked at again under the lock.
TakeLock_NoDoubleCheck(c) ==
  /\ pc[c] = "wait" /\ lock = Nobody
  /\ lock' = c /\ To(c, "load") /\ KeepRequest
  /\ token' = IF why[c] = "renew" THEN token ELSE 0
  /\ UNCHANGED <<siteVars, cookie, breakerVars, seen, ahead, told, renewals, env>>

\* Mutant of TakeLock: 401s and renewals do not share one lock.
TakeLock_Unserialised(c) ==
  /\ pc[c] = "wait"
  /\ lock' = c /\ To(c, "load") /\ KeepRequest
  /\ token' = IF why[c] = "renew" THEN token ELSE 0
  /\ UNCHANGED <<siteVars, cookie, breakerVars, seen, ahead, told, renewals, env>>

\* _with_refresh_lock(): somebody else may have renewed the token meanwhile; a
\* refresh forgets the one that was refused.
TakeLock(c) ==
  /\ pc[c] = "wait" /\ lock = Nobody
  /\ \/ why[c] = "renew" /\ token # 0 /\ SendWith(c, token) /\ UNCHANGED <<lock, token>>
     \/ /\ why[c] = "renew" /\ token = 0
        /\ lock' = c /\ To(c, "load") /\ KeepRequest /\ UNCHANGED <<token, told>>
     \/ /\ why[c] # "renew" /\ token \notin {0, used[c]}
        /\ Again(c) /\ UNCHANGED <<lock, token>>
     \/ /\ why[c] # "renew" /\ token \in {0, used[c]}
        /\ lock' = c /\ token' = 0 /\ To(c, "load") /\ KeepRequest /\ UNCHANGED told
  /\ UNCHANGED <<siteVars, cookie, breakerVars, seen, ahead, renewals, env>>

\* TOKEN_LOCK_WAIT_TIMEOUT.
WaitTimesOut(c) ==
  /\ pc[c] = "wait" /\ lock # Nobody /\ env = "rough"
  /\ TokenError(c, "error")
  /\ UNCHANGED <<siteVars, cookie, token, lock, seen, ahead, renewals, env>>

\* A page is loaded and Naukri issues a token if the last one has expired, or sends
\* the browser to the login page; then extract() asks.
PageLoads(c) ==
  /\ pc[c] = "load"
  /\ LET fresh == session /\ valid = 0
         now == IF fresh THEN issued + 1 ELSE valid
     IN /\ valid' = now /\ cookie' = now
        /\ issued' = IF fresh THEN now ELSE issued
        /\ Ask(c, now)
        /\ renewals' = IF why[c] = "expired" /\ session
                       THEN [renewals EXCEPT ![used[c]] = @ + 1] ELSE renewals
  /\ To(c, "extract") /\ KeepRequest
  /\ UNCHANGED <<session, token, lock, breakerVars, told, env>>

\* The load fails: a renewal swallows that, a refresh raises it.
LoadFails(c) ==
  /\ pc[c] = "load" /\ env = "rough"
  /\ IF why[c] = "renew" THEN Extracted(c, token)
     ELSE TokenError(c, "error") /\ FreeLock(c)
  /\ UNCHANGED <<siteVars, cookie, token, seen, ahead, renewals, env>>

\* Mutant of HoldTimesOut: a refresh may take for ever.
HoldTimesOut_Never(c) == FALSE /\ UNCHANGED vars

\* TOKEN_REFRESH_TIMEOUT cuts the refresh off and gives the lock back.
HoldTimesOut(c) ==
  /\ lock = c /\ env = "rough"
  /\ TokenError(c, "error") /\ FreeLock(c)
  /\ Forget(c)
  /\ UNCHANGED <<siteVars, cookie, token, renewals, env>>

-----------------------------------------------------------------------------
(* _api_request() *)

\* Only a request's first attempt asks the breaker.
Begin(c) ==
  /\ pc[c] = "idle"
  /\ CanExecute
  /\ To(c, "ensure")
  /\ told' = [told EXCEPT ![c] = "nothing"]
  /\ KeepRequest
  /\ UNCHANGED <<siteVars, cookie, token, lock, seen, ahead, renewals, env>>

Succeeds(c) ==
  /\ pc[c] = "send" /\ used[c] = valid /\ valid # 0
  /\ RecordSuccess /\ End(c, "ok")
  /\ UNCHANGED <<siteVars, cookie, token, lock, seen, ahead, renewals, env>>

\* 401 on the first attempt refreshes the token, and so do 403 and 406.
Refused(c) ==
  /\ pc[c] = "send"
  /\ \E cause \in {"expired", "bot"} :
       /\ IF cause = "expired" THEN used[c] # valid ELSE env # "clear"
       /\ \/ /\ attempt[c] = 0
             /\ To(c, "wait") /\ why' = [why EXCEPT ![c] = cause]
             /\ UNCHANGED <<used, attempt, told, breakerVars>>
          \/ attempt[c] > 0 /\ RecordFailure /\ End(c, "error")
  /\ UNCHANGED <<siteVars, cookie, token, lock, seen, ahead, renewals, env>>

\* 429, 5xx and transport errors are retried; then, and for all other answers at
\* once, the failure is counted.
Fails(c) ==
  /\ pc[c] = "send" /\ env # "clear"
  /\ \/ attempt[c] < MaxRetries /\ Again(c) /\ UNCHANGED breakerVars
     \/ RecordFailure /\ End(c, "error")
  /\ UNCHANGED <<siteVars, cookie, token, lock, seen, ahead, renewals, env>>

-----------------------------------------------------------------------------
(* The environment *)

Cools ==
  /\ breaker = "open" /\ ~cooled
  /\ cooled' = TRUE
  /\ UNCHANGED <<siteVars, cookie, token, lock, breaker, failures, callVars, renewals, env>>

TokenExpires ==
  /\ env # "clear" /\ valid # 0 /\ issued < MaxToken
  /\ valid' = 0
  /\ cookie' \in IF env = "rough" THEN {cookie, 0} ELSE {cookie}
  /\ UNCHANGED <<session, issued, token, lock, breakerVars, callVars, renewals, env>>

SessionEnds ==
  /\ env # "clear" /\ session
  /\ session' = FALSE /\ valid' = 0
  /\ UNCHANGED <<issued, cookie, token, lock, breakerVars, callVars, renewals, env>>

\* invalidate(), by a logout, or by a start() that finds the token refused.
Invalidate ==
  /\ env = "rough"
  /\ token' = 0
  /\ UNCHANGED <<siteVars, cookie, lock, breakerVars, callVars, renewals, env>>

\* From now on nothing fails.
Clears ==
  /\ env # "clear" /\ session
  /\ env' = "clear"
  /\ UNCHANGED <<siteVars, cookie, token, lock, breakerVars, callVars, renewals>>

Chrome(c) == CookiesArrive(c) \/ PageLoads(c)

Code(c) ==
  \/ EnsureToken(c) \/ CookiesFail(c) \/ ExportEnds(c) \/ TakeLock(c)
  \/ WaitTimesOut(c) \/ HoldTimesOut(c)
  \/ Succeeds(c) \/ Refused(c) \/ Fails(c)

Next ==
  \/ \E c \in Callers : Begin(c) \/ Chrome(c) \/ LoadFails(c) \/ Code(c)
  \/ Cools \/ TokenExpires \/ SessionEnds \/ Invalidate \/ Clears

Spec == Init /\ [][Next]_vars

\* Timeouts bound what a rough Chrome does; otherwise Chrome answers.  Callers call
\* again, and time passes.
Fairness ==
  /\ \A c \in Callers :
       /\ WF_vars(Code(c)) /\ WF_vars(env # "rough" /\ Chrome(c))
       /\ WF_vars(Begin(c))
       /\ SF_vars(TakeLock(c))
  /\ WF_vars(Cools)

LiveSpec == Spec /\ Fairness

-----------------------------------------------------------------------------
(* Properties *)

\* While Chrome answers in order and nobody logs in or out, a caller is told that the
\* session has expired only when it has, whatever the requests and refreshes of
\* others do to the cache while a token is being exported.
NoFalseExpiry ==
  env = "calm" => \A c \in Callers : told[c] = "auth_expired" => ~session

\* A storm of 401s for one expired token collapses to a single refresh.
StormCollapses == env = "calm" => \A t \in Tokens \ {0} : renewals[t] <= 1

\* Every request ends, although Chrome may never answer again: no holder of the
\* refresh lock keeps the others waiting for ever.
RequestsEnd == \A c \in Callers : pc[c] # "idle" ~> pc[c] = "idle"

\* Once nothing fails any more the circuit closes for good, out of whatever state
\* the trouble left token, lock and breaker in.
CircuitRecovers == <>[](env = "clear") => <>[](breaker = "closed")
=============================================================================
