-------------------------- MODULE RestClientProofs --------------------------
(***************************************************************************)
(* What requests that share one token and one refresh lock can count on,   *)
(* for any callers, tokens, retries and threshold.                         *)
(*                                                                         *)
(* In any environment: the lock is held by the request that refreshes, no  *)
(* token is known before it is issued, and the extracts in flight, asked   *)
(* one after the other, form a queue.                                      *)
(*                                                                         *)
(* While Chrome is calm and nobody logs in or out: no false expiry, and    *)
(* one refresh per token.                                                  *)
(* Neither is inductive.  A refresh that ends looks into the cache, which  *)
(* any other extract may have overwritten meanwhile, so it has to be known *)
(* that every extract in flight brings a token once one has (CookiesStay,  *)
(* RefreshFinds); and that a renewed token is in the cache or the cookies  *)
(* no more, but for answers that arrive before the one of the refresh      *)
(* still in flight (Renewed).                                              *)
(*                                                                         *)
(* Steps are sorted by what they move, so that each invariant is looked at *)
(* seven times rather than at every action.                                *)
(***************************************************************************)
EXTENDS RestClient, TLAPS

-----------------------------------------------------------------------------
(* Types *)

Steps == {"idle", "ensure", "extract", "export", "wait", "load", "send"}
Reasons == {"cached", "renew", "expired", "bot"}
Endings == {"nothing", "ok", "error", "auth_expired"}

SiteTypes ==
  /\ session \in BOOLEAN /\ valid \in Tokens /\ issued \in Tokens
  /\ cookie \in Tokens /\ token \in Tokens
  /\ lock \in Callers \cup {Nobody}
  /\ renewals \in [Tokens -> Nat]
  /\ env \in {"calm", "rough", "clear"}

BreakerTypes ==
  /\ breaker \in {"closed", "open", "half_open"}
  /\ failures \in 0..Threshold /\ cooled \in BOOLEAN

RequestTypes ==
  /\ pc \in [Callers -> Steps] /\ why \in [Callers -> Reasons]
  /\ used \in [Callers -> Tokens] /\ attempt \in [Callers -> 0..MaxRetries]
  /\ told \in [Callers -> Endings]

AnswerTypes == seen \in [Callers -> Tokens] /\ ahead \in [Callers -> SUBSET Callers]

\* The type invariant, in parts.
LEMMA TypeParts == TypeOK <=> SiteTypes /\ BreakerTypes /\ RequestTypes /\ AnswerTypes
  BY DEF TypeOK, SiteTypes, BreakerTypes, RequestTypes, AnswerTypes, Steps, Reasons, Endings

LEMMA TypePartsNext ==
  TypeOK' <=> SiteTypes' /\ BreakerTypes' /\ RequestTypes' /\ AnswerTypes'
  BY DEF TypeOK, SiteTypes, BreakerTypes, RequestTypes, AnswerTypes, Steps, Reasons, Endings

-----------------------------------------------------------------------------
(* What is always so *)

\* The steps at which a request holds the refresh lock.
Refreshing(c) == pc[c] = "load" \/ (pc[c] \in {"extract", "export"} /\ why[c] # "cached")

LockIsHeld == \A c \in Callers : lock = c <=> Refreshing(c)

Asking == {c \in Callers : pc[c] = "extract"}

\* Why a request asks fits where it is; only first attempts are refused a token.
RequestsFit ==
  \A c \in Callers :
    /\ pc[c] \in {"idle", "ensure", "send"} => why[c] = "cached"
    /\ pc[c] \in {"wait", "load"} => why[c] # "cached"
    /\ why[c] \in {"expired", "bot"} => attempt[c] = 0
    /\ pc[c] = "send" => used[c] # 0

\* No token is known before it is issued, and none is valid again.
TokensFit ==
  /\ issued > 0 /\ valid \in {0, issued} /\ cookie <= issued /\ token <= issued
  /\ session => valid # 0 \/ issued < MaxToken
  /\ ~session => valid = 0
  /\ \A c \in Callers : seen[c] <= issued /\ used[c] <= issued
  /\ \A c \in Callers : why[c] = "expired" => used[c] \notin {0, valid}

\* Of two extracts in flight one was asked before the other.
AnswersQueue ==
  /\ \A c, d \in Callers : d \in ahead[c] => d # c /\ {c, d} \subseteq Asking
  /\ \A c, d \in Asking : c = d \/ c \in ahead[d] \/ d \in ahead[c]

RequestInv == TypeOK /\ LockIsHeld /\ RequestsFit /\ TokensFit /\ AnswersQueue

-----------------------------------------------------------------------------
(* How a request moves *)

\* Only the request of c moves.
Turn(c, p, w, u, a, r) ==
  /\ pc' = [pc EXCEPT ![c] = p] /\ why' = [why EXCEPT ![c] = w]
  /\ used' = [used EXCEPT ![c] = u] /\ attempt' = [attempt EXCEPT ![c] = a]
  /\ told' = [told EXCEPT ![c] = r]

\* Where it moves to, with what and why, fits.
Fit(p, w, u, a) ==
  /\ p \in Steps /\ w \in Reasons /\ u \in Tokens /\ a \in 0..MaxRetries
  /\ p \in {"idle", "ensure", "send"} => w = "cached"
  /\ p \in {"wait", "load"} => w # "cached"
  /\ w \in {"expired", "bot"} => a = 0
  /\ p = "send" => u # 0
  /\ u <= issued
  /\ w = "expired" => u \notin {0, valid}

Turns(c, P, R) ==
  \E p \in P, w \in Reasons, u \in Tokens, a \in 0..MaxRetries, r \in R :
    Turn(c, p, w, u, a, r) /\ Fit(p, w, u, a)

\* Steps at which a request holds neither the lock nor an extract.
Outside == {"idle", "ensure", "send", "wait"}

\* The valid token stays, expires, or is a new one.
TokensMove ==
  \/ issued' = issued /\ valid' \in {valid, 0}
  \/ issued' = issued + 1 /\ valid' = issued'

LEMMA SendTurns ==
  ASSUME RequestInv, NEW c \in Callers, NEW t \in Tokens \ {0}, t <= issued, SendWith(c, t)
  PROVE  Turns(c, {"send"}, {told[c]})
<1>1. Turn(c, "send", "cached", t, attempt[c], told[c])
  BY TypeParts DEF SendWith, To, Turn, RequestInv, RequestTypes
<1>2. Fit("send", "cached", t, attempt[c]) /\ attempt[c] \in 0..MaxRetries
  BY TypeParts DEF Fit, RequestInv, RequestTypes, Steps, Reasons
<1> QED
  BY <1>1, <1>2 DEF Turns, Fit

LEMMA AgainTurns ==
  ASSUME RequestInv, NEW c \in Callers, attempt[c] < MaxRetries, Again(c)
  PROVE  Turns(c, {"ensure"}, {told[c]})
<1>1. Turn(c, "ensure", "cached", used[c], attempt[c] + 1, told[c])
  BY TypeParts DEF Again, To, Turn, RequestInv, RequestTypes
<1>2. Fit("ensure", "cached", used[c], attempt[c] + 1)
  BY TypeParts, LimitsAssumption DEF Fit, RequestInv, RequestTypes, TokensFit, Steps, Reasons
<1> QED
  BY <1>1, <1>2 DEF Turns, Fit

LEMMA EndTurns ==
  ASSUME RequestInv, NEW c \in Callers, NEW r \in Endings, End(c, r)
  PROVE  Turns(c, {"idle"}, {r})
<1>1. Turn(c, "idle", "cached", 0, 0, r)
  BY DEF End, To, Turn
<1>2. Fit("idle", "cached", 0, 0)
  BY TypeParts, LimitsAssumption
     DEF Fit, RequestInv, SiteTypes, TokensFit, Tokens, Steps, Reasons
<1> QED
  BY <1>1, <1>2 DEF Turns, Fit

\* A request that keeps what it asks for.
LEMMA KeepTurns ==
  ASSUME RequestInv, NEW c \in Callers, NEW p \in Steps \ {"send"}, To(c, p), KeepRequest,
         p \in {"idle", "ensure"} => why[c] = "cached",
         p \in {"wait", "load"} => why[c] # "cached",
         NEW r \in Endings, told' = [told EXCEPT ![c] = r]
  PROVE  Turns(c, {p}, {r})
<1>1. Turn(c, p, why[c], used[c], attempt[c], r)
  BY TypeParts DEF To, KeepRequest, Turn, RequestInv, RequestTypes
<1>2. Fit(p, why[c], used[c], attempt[c])
  BY TypeParts DEF Fit, RequestInv, RequestTypes, RequestsFit, TokensFit
<1> QED
  BY <1>1, <1>2 DEF Turns, Fit

\* A request that waits for the lock.
LEMMA WaitTurns ==
  ASSUME RequestInv, NEW c \in Callers, To(c, "wait"),
         NEW w \in Reasons \ {"cached"}, why' = [why EXCEPT ![c] = w],
         w \in {"expired", "bot"} => attempt[c] = 0,
         w = "expired" => used[c] \notin {0, valid},
         UNCHANGED <<used, attempt, told>>
  PROVE  Turns(c, {"wait"}, {told[c]})
<1>1. Turn(c, "wait", w, used[c], attempt[c], told[c])
  BY TypeParts DEF To, Turn, RequestInv, RequestTypes
<1>2. Fit("wait", w, used[c], attempt[c])
  BY TypeParts DEF Fit, RequestInv, RequestTypes, RequestsFit, TokensFit, Steps
<1> QED
  BY <1>1, <1>2 DEF Turns, Fit

\* The breaker keeps its types.
LEMMA BreakerStep ==
  ASSUME TypeOK, CanExecute \/ RecordSuccess \/ RecordFailure \/ UNCHANGED breakerVars
  PROVE  BreakerTypes'
<1> USE TypeParts, LimitsAssumption DEF BreakerTypes
<1>1. CASE CanExecute
  BY <1>1 DEF CanExecute
<1>2. CASE RecordSuccess
  <2>1. cooled' \in BOOLEAN
    BY <1>2, Zenon DEF RecordSuccess
  <2> QED
    BY <1>2, <2>1 DEF RecordSuccess
<1>3. CASE RecordFailure
  <2>1. cooled' \in BOOLEAN
    BY <1>3, Zenon DEF RecordFailure
  <2> QED
    BY <1>3, <2>1 DEF RecordFailure
<1>4. CASE UNCHANGED breakerVars
  BY <1>4 DEF breakerVars
<1> QED
  BY <1>1, <1>2, <1>3, <1>4

LEMMA TokenErrorTurns ==
  ASSUME RequestInv, NEW c \in Callers, NEW r \in {"error", "auth_expired"}, TokenError(c, r)
  PROVE  Turns(c, {"idle"}, {r}) /\ BreakerTypes'
  BY EndTurns, BreakerStep DEF TokenError, RequestInv, Endings

\* The end of extract(): out of the lock, and told of an expired session only by a
\* refresh that has no token.
LEMMA ExtractedTurns ==
  ASSUME RequestInv, NEW c \in Callers, NEW t \in Tokens, t <= issued, Extracted(c, t)
  PROVE  /\ BreakerTypes' /\ FreeLock(c)
         /\ \E r \in Endings :
              /\ Turns(c, Outside, {r})
              /\ r \notin {told[c], "error"} =>
                   r = "auth_expired" /\ t = 0 /\ why[c] \in {"expired", "bot"}
<1> USE DEF Outside, Turns
<1>0. told[c] \in Endings
  BY TypeParts DEF RequestInv, RequestTypes
<1>1. CASE t # 0 /\ SendWith(c, t) /\ UNCHANGED breakerVars
  BY <1>0, <1>1, SendTurns, BreakerStep DEF Extracted, RequestInv
<1>2. CASE why[c] \in {"expired", "bot"} /\ Again(c) /\ UNCHANGED breakerVars
  <2>1. attempt[c] < MaxRetries
    BY <1>2, LimitsAssumption DEF RequestInv, RequestsFit
  <2> QED
    BY <1>0, <1>2, <2>1, AgainTurns, BreakerStep DEF Extracted, RequestInv
<1>3. CASE /\ To(c, "wait") /\ why' = [why EXCEPT ![c] = "renew"]
           /\ UNCHANGED <<used, attempt, told, breakerVars>>
  <2>1. UNCHANGED breakerVars /\ UNCHANGED <<used, attempt, told>>
    BY <1>3
  <2>2. "renew" \in Reasons \ {"cached"}
    BY DEF Reasons
  <2>3. Turns(c, {"wait"}, {told[c]})
    BY <1>3, <2>1, <2>2, WaitTurns
  <2>4. BreakerTypes'
    BY <2>1, BreakerStep DEF RequestInv
  <2> QED
    BY <1>0, <2>3, <2>4 DEF Extracted
<1>4. CASE TokenError(c, "error")
  BY <1>4, TokenErrorTurns DEF Extracted, Endings
<1>5. CASE t = 0 /\ why[c] \in {"expired", "bot"} /\ TokenError(c, "auth_expired")
  BY <1>5, TokenErrorTurns DEF Extracted, Endings
<1> QED
  BY <1>1, <1>2, <1>3, <1>4, <1>5 DEF Extracted

-----------------------------------------------------------------------------
(* What a move keeps *)

\* A move leaves the other requests alone, and all of them fit.
LEMMA TurnKeeps ==
  ASSUME RequestInv, NEW c \in Callers, NEW P \in SUBSET Steps, NEW R \in SUBSET Endings,
         Turns(c, P, R), TokensMove
  PROVE  /\ RequestTypes' /\ RequestsFit'
         /\ pc'[c] \in P /\ told'[c] \in R
         /\ \A d \in Callers \ {c} : pc'[d] = pc[d] /\ why'[d] = why[d]
                                     /\ used'[d] = used[d] /\ told'[d] = told[d]
         /\ \A d \in Callers : /\ used'[d] <= issued'
                               /\ why'[d] = "expired" => used'[d] \notin {0, valid'}
<1> PICK p \in P, w \in Reasons, u \in Tokens, a \in 0..MaxRetries, r \in R :
           Turn(c, p, w, u, a, r) /\ Fit(p, w, u, a)
  BY DEF Turns
<1> RequestTypes /\ SiteTypes
  BY TypeParts DEF RequestInv
<1>1. RequestTypes'
  BY DEF Turn, RequestTypes
<1>2. pc'[c] = p /\ why'[c] = w /\ used'[c] = u /\ attempt'[c] = a /\ told'[c] = r
  BY DEF Turn, RequestTypes
<1>3. \A d \in Callers \ {c} : /\ pc'[d] = pc[d] /\ why'[d] = why[d] /\ used'[d] = used[d]
                               /\ attempt'[d] = attempt[d] /\ told'[d] = told[d]
  BY DEF Turn, RequestTypes
<1>4. RequestsFit'
  BY <1>2, <1>3 DEF RequestInv, RequestsFit, Fit
<1>5. \A d \in Callers : used[d] \in Tokens /\ issued \in Tokens /\ valid \in Tokens
  BY DEF RequestTypes, SiteTypes
<1>6. \A d \in Callers \ {c} : /\ used'[d] <= issued'
                               /\ why'[d] = "expired" => used'[d] \notin {0, valid'}
  BY <1>3, <1>5, LimitsAssumption DEF RequestInv, TokensFit, TokensMove, Tokens
<1>7. u <= issued' /\ (w = "expired" => u \notin {0, valid'})
  BY <1>5, LimitsAssumption DEF Fit, RequestInv, TokensFit, TokensMove, Tokens
<1> QED
  BY <1>1, <1>2, <1>3, <1>4, <1>6, <1>7

\* A request that leaves gives the lock back if it has it.
LEMMA LockIsLeft ==
  ASSUME RequestInv, NEW c \in Callers, pc'[c] \in Outside, FreeLock(c),
         \A d \in Callers \ {c} : pc'[d] = pc[d] /\ why'[d] = why[d]
  PROVE  LockIsHeld' /\ lock' \in Callers \cup {Nobody}
<1>1. lock \in Callers \cup {Nobody}
  BY TypeParts DEF RequestInv, SiteTypes
<1> QED
  BY <1>1, NobodyAssumption DEF RequestInv, LockIsHeld, Refreshing, Outside, FreeLock

\* The extracts in flight stay a queue.
LEMMA QueueStays ==
  ASSUME RequestInv, NEW c \in Callers, pc[c] # "extract", pc'[c] # "extract",
         \A d \in Callers \ {c} : pc'[d] = pc[d], UNCHANGED <<seen, ahead>>
  PROVE  AnswersQueue' /\ AnswerTypes' /\ Asking' = Asking
<1>1. Asking' = Asking
  BY DEF Asking
<1> QED
  BY <1>1, TypeParts DEF RequestInv, AnswerTypes, AnswersQueue

LEMMA QueueGrows ==
  ASSUME RequestInv, NEW c \in Callers, pc[c] # "extract", pc'[c] = "extract",
         \A d \in Callers \ {c} : pc'[d] = pc[d], NEW k \in Tokens, Ask(c, k)
  PROVE  /\ AnswersQueue' /\ AnswerTypes' /\ Asking' = Asking \cup {c}
         /\ ahead'[c] = Asking /\ seen'[c] = k
         /\ \A d \in Callers \ {c} : ahead'[d] = ahead[d] /\ seen'[d] = seen[d]
<1> AnswerTypes
  BY TypeParts DEF RequestInv
<1>1. Asking' = Asking \cup {c}
  BY DEF Asking
<1>2. /\ ahead'[c] = Asking /\ seen'[c] = k
      /\ \A d \in Callers \ {c} : ahead'[d] = ahead[d] /\ seen'[d] = seen[d]
  BY DEF Ask, Asking, AnswerTypes
<1>3. AnswerTypes'
  BY DEF Ask, AnswerTypes
<1>4. AnswersQueue'
  BY <1>1, <1>2 DEF RequestInv, AnswersQueue, Asking
<1> QED
  BY <1>1, <1>2, <1>3, <1>4

LEMMA QueueShrinks ==
  ASSUME RequestInv, NEW c \in Callers, pc'[c] # "extract",
         \A d \in Callers \ {c} : pc'[d] = pc[d], Forget(c)
  PROVE  /\ AnswersQueue' /\ AnswerTypes' /\ Asking' = Asking \ {c}
         /\ seen'[c] = 0
         /\ \A d \in Callers \ {c} : ahead'[d] = ahead[d] \ {c} /\ seen'[d] = seen[d]
<1> AnswerTypes
  BY TypeParts DEF RequestInv
<1>1. Asking' = Asking \ {c}
  BY DEF Asking
<1>2. /\ ahead'[c] = {} /\ seen'[c] = 0
      /\ \A d \in Callers \ {c} : ahead'[d] = ahead[d] \ {c} /\ seen'[d] = seen[d]
  BY DEF Forget, AnswerTypes
<1>3. AnswerTypes'
  <2>1. 0 \in Tokens
    BY LimitsAssumption DEF Tokens
  <2> QED
    BY <2>1 DEF Forget, AnswerTypes
<1>4. AnswersQueue'
  BY <1>1, <1>2 DEF RequestInv, AnswersQueue, Asking
<1> QED
  BY <1>1, <1>2, <1>3, <1>4

\* What Naukri, Chrome and the cache hold stays in order, with the requests.
LEMMA TokensStay ==
  ASSUME RequestInv, AnswerTypes', UNCHANGED <<siteVars, cookie, renewals, env>>,
         token' \in Tokens, token' <= issued, lock' \in Callers \cup {Nobody},
         \A d \in Callers : /\ used'[d] <= issued'
                            /\ why'[d] = "expired" => used'[d] \notin {0, valid'},
         \A d \in Callers : seen'[d] <= issued
  PROVE  TokensFit' /\ SiteTypes'
  BY TypeParts DEF RequestInv, SiteTypes, TokensFit, siteVars

-----------------------------------------------------------------------------
(* The steps by what they move *)

\* c goes on without the lock; told that the session expired only when a refresh has
\* exported and finds no token.
Departs(c) ==
  /\ pc[c] # "extract" /\ FreeLock(c) /\ BreakerTypes'
  /\ UNCHANGED <<siteVars, cookie, token, seen, ahead, renewals, env>>
  /\ pc[c] = "load" => env = "rough"
  /\ \E r \in Endings :
       /\ Turns(c, Outside, {r})
       /\ r \notin {told[c], "nothing", "ok", "error"} =>
            pc[c] = "export" /\ token = 0 /\ why[c] # "cached"

\* extract() ends without a token, or is cut off.
Forgets(c) ==
  /\ Forget(c) /\ FreeLock(c) /\ BreakerTypes'
  /\ UNCHANGED <<siteVars, cookie, renewals, env>>
  /\ token' \in Tokens /\ token' <= issued
  /\ env # "rough" => pc[c] = "extract" /\ ahead[c] = {} /\ seen[c] = 0 /\ token' = 0
  /\ \E r \in Endings :
       /\ Turns(c, Outside, {r})
       /\ r \notin {told[c], "error"} => why[c] # "cached"

\* extract() brings a token.
Exports(c) ==
  /\ pc[c] = "extract" /\ Forget(c) /\ token' = seen[c] /\ seen[c] # 0
  /\ env = "rough" \/ ahead[c] = {}
  /\ To(c, "export") /\ KeepRequest
  /\ UNCHANGED <<siteVars, cookie, lock, breakerVars, told, renewals, env>>

\* ensure_token() asks Chrome for its cookies.
Asks(c) ==
  /\ pc[c] = "ensure" /\ token = 0
  /\ To(c, "extract") /\ Ask(c, cookie) /\ KeepRequest
  /\ UNCHANGED <<siteVars, cookie, token, lock, breakerVars, told, renewals, env>>

\* A request has the lock and is to load a page.
Locks(c) ==
  /\ pc[c] = "wait" /\ lock = Nobody /\ lock' = c
  /\ To(c, "load") /\ KeepRequest
  /\ why[c] # "renew" => token \in {0, used[c]}
  /\ token' \in {token, 0}
  /\ UNCHANGED <<siteVars, cookie, breakerVars, seen, ahead, told, renewals, env>>

LEMMA NotHolding ==
  ASSUME RequestInv, NEW c \in Callers, pc[c] \in Outside \cup {"ensure"}, UNCHANGED lock
  PROVE  FreeLock(c)
  BY DEF RequestInv, LockIsHeld, Refreshing, Outside, FreeLock

LEMMA BeginDeparts ==
  ASSUME RequestInv, NEW c \in Callers, Begin(c)
  PROVE  Departs(c)
<1>1. BreakerTypes'
  BY BreakerStep DEF Begin, RequestInv
<1>2. Turns(c, {"ensure"}, {"nothing"})
  BY KeepTurns DEF Begin, Steps, Endings, RequestInv, RequestsFit
<1>3. FreeLock(c)
  BY NotHolding DEF Begin, Outside
<1> QED
  BY <1>1, <1>2, <1>3 DEF Begin, Departs, Turns, Outside, Endings

LEMMA EnsureTokenIs ==
  ASSUME RequestInv, NEW c \in Callers, EnsureToken(c)
  PROVE  Departs(c) \/ Asks(c)
<1>0. TypeOK /\ told[c] \in Endings /\ token \in Tokens /\ token <= issued
  BY TypeParts DEF RequestInv, RequestTypes, SiteTypes, TokensFit
<1>1. CASE token # 0 /\ SendWith(c, token) /\ UNCHANGED <<seen, ahead>>
  <2>1. Turns(c, {"send"}, {told[c]})
    BY <1>0, <1>1, SendTurns
  <2>2. FreeLock(c)
    BY NotHolding DEF EnsureToken, Outside
  <2>3. BreakerTypes'
    BY <1>0, BreakerStep DEF EnsureToken
  <2> QED
    BY <1>0, <1>1, <2>1, <2>2, <2>3 DEF EnsureToken, Departs, Turns, Outside
<1>2. CASE token = 0 /\ To(c, "extract") /\ Ask(c, cookie) /\ KeepRequest /\ UNCHANGED told
  BY <1>2 DEF EnsureToken, Asks
<1> QED
  BY <1>1, <1>2 DEF EnsureToken

LEMMA ExportEndsDeparts ==
  ASSUME RequestInv, NEW c \in Callers, ExportEnds(c)
  PROVE  Departs(c)
<1>1. token \in Tokens /\ token <= issued
  BY TypeParts DEF RequestInv, SiteTypes, TokensFit
<1> QED
  BY <1>1, ExtractedTurns DEF ExportEnds, Departs

LEMMA TakeLockIs ==
  ASSUME RequestInv, NEW c \in Callers, TakeLock(c)
  PROVE  Departs(c) \/ Locks(c)
<1>0. TypeOK /\ told[c] \in Endings /\ token \in Tokens /\ token <= issued /\ why[c] \in Reasons
  BY TypeParts DEF RequestInv, RequestTypes, SiteTypes, TokensFit
<1>1. BreakerTypes'
  BY <1>0, BreakerStep DEF TakeLock
<1>2. ASSUME UNCHANGED <<lock, token>>, NEW p \in {"send", "ensure"}, Turns(c, {p}, {told[c]})
      PROVE  Departs(c)
  <2>1. FreeLock(c)
    BY <1>2, NotHolding DEF TakeLock, Outside
  <2>2. Turns(c, Outside, {told[c]})
    BY <1>2 DEF Turns, Outside
  <2> QED
    BY <1>0, <1>1, <1>2, <2>1, <2>2 DEF TakeLock, Departs
<1>3. CASE why[c] = "renew" /\ token # 0 /\ SendWith(c, token) /\ UNCHANGED <<lock, token>>
  BY <1>0, <1>2, <1>3, SendTurns
<1>4. CASE /\ why[c] = "renew" /\ token = 0
           /\ lock' = c /\ To(c, "load") /\ KeepRequest /\ UNCHANGED <<token, told>>
  BY <1>4 DEF TakeLock, Locks
<1>5. CASE /\ why[c] # "renew" /\ token \notin {0, used[c]}
           /\ Again(c) /\ UNCHANGED <<lock, token>>
  <2>1. why[c] \in {"expired", "bot"}
    BY <1>0, <1>5 DEF TakeLock, RequestInv, RequestsFit, Reasons
  <2>2. attempt[c] < MaxRetries
    BY <2>1, LimitsAssumption DEF RequestInv, RequestsFit
  <2> QED
    BY <1>2, <1>5, <2>2, AgainTurns
<1>6. CASE /\ why[c] # "renew" /\ token \in {0, used[c]}
           /\ lock' = c /\ token' = 0 /\ To(c, "load") /\ KeepRequest /\ UNCHANGED told
  BY <1>6 DEF TakeLock, Locks
<1> QED
  BY <1>3, <1>4, <1>5, <1>6 DEF TakeLock

LEMMA WaitTimesOutDeparts ==
  ASSUME RequestInv, NEW c \in Callers, WaitTimesOut(c)
  PROVE  Departs(c)
<1>1. Turns(c, {"idle"}, {"error"}) /\ BreakerTypes'
  BY TokenErrorTurns DEF WaitTimesOut
<1>2. FreeLock(c)
  BY NotHolding DEF WaitTimesOut, Outside
<1> QED
  BY <1>1, <1>2 DEF WaitTimesOut, Departs, Turns, Outside, Endings

LEMMA LoadFailsDeparts ==
  ASSUME RequestInv, NEW c \in Callers, LoadFails(c)
  PROVE  Departs(c)
<1>0. token \in Tokens /\ token <= issued
  BY TypeParts DEF RequestInv, SiteTypes, TokensFit
<1>1. CASE why[c] = "renew" /\ Extracted(c, token)
  BY <1>0, <1>1, ExtractedTurns DEF LoadFails, Departs
<1>2. CASE TokenError(c, "error") /\ FreeLock(c)
  <2>1. Turns(c, {"idle"}, {"error"}) /\ BreakerTypes'
    BY <1>2, TokenErrorTurns
  <2> QED
    BY <1>2, <2>1 DEF LoadFails, Departs, Turns, Outside, Endings
<1> QED
  BY <1>1, <1>2 DEF LoadFails

\* Requests that have been sent.
LEMMA SentDeparts ==
  ASSUME RequestInv, NEW c \in Callers, Succeeds(c) \/ Refused(c) \/ Fails(c)
  PROVE  Departs(c)
<1>0. TypeOK /\ told[c] \in Endings /\ attempt[c] \in 0..MaxRetries
  BY TypeParts DEF RequestInv, RequestTypes
<1>1. FreeLock(c)
  BY NotHolding DEF Succeeds, Refused, Fails, Outside
<1>2. ASSUME BreakerTypes', NEW p \in Outside, NEW r \in {told[c], "ok", "error"},
             Turns(c, {p}, {r})
      PROVE  Departs(c)
  <2>1. Turns(c, Outside, {r})
    BY <1>2 DEF Turns
  <2> QED
    BY <1>0, <1>1, <1>2, <2>1 DEF Departs, Succeeds, Refused, Fails, Endings
<1>3. CASE Succeeds(c)
  BY <1>0, <1>2, <1>3, EndTurns, BreakerStep DEF Succeeds, Outside, Endings
<1>4. CASE Refused(c)
  <2> PICK cause \in {"expired", "bot"} :
         /\ IF cause = "expired" THEN used[c] # valid ELSE env # "clear"
         /\ \/ /\ attempt[c] = 0
               /\ To(c, "wait") /\ why' = [why EXCEPT ![c] = cause]
               /\ UNCHANGED <<used, attempt, told, breakerVars>>
            \/ attempt[c] > 0 /\ RecordFailure /\ End(c, "error")
    BY <1>4 DEF Refused
  <2>1. CASE /\ attempt[c] = 0
             /\ To(c, "wait") /\ why' = [why EXCEPT ![c] = cause]
             /\ UNCHANGED <<used, attempt, told, breakerVars>>
    <3>1. UNCHANGED breakerVars /\ UNCHANGED <<used, attempt, told>>
      BY <2>1
    <3>2. cause = "expired" => used[c] \notin {0, valid}
      BY <1>4 DEF Refused, RequestInv, RequestsFit
    <3>3. Turns(c, {"wait"}, {told[c]})
      BY <2>1, <3>1, <3>2, WaitTurns DEF Reasons
    <3> QED
      BY <1>0, <1>2, <3>1, <3>3, BreakerStep DEF Outside
  <2>2. CASE RecordFailure /\ End(c, "error")
    BY <1>0, <1>2, <2>2, EndTurns, BreakerStep DEF Outside, Endings
  <2> QED
    BY <2>1, <2>2
<1>5. CASE Fails(c)
  BY <1>0, <1>2, <1>5, AgainTurns, EndTurns, BreakerStep DEF Fails, Outside, Endings
<1> QED
  BY <1>3, <1>4, <1>5

LEMMA CookiesArriveIs ==
  ASSUME RequestInv, NEW c \in Callers, CookiesArrive(c)
  PROVE  Exports(c) \/ Forgets(c)
<1>0. 0 \in Tokens /\ 0 <= issued /\ told[c] \in Endings
  BY TypeParts, LimitsAssumption DEF RequestInv, SiteTypes, RequestTypes, Tokens
<1>1. CASE seen[c] # 0
  BY <1>1 DEF CookiesArrive, Exports
<1>2. CASE seen[c] = 0 /\ Extracted(c, 0)
  <2>1. PICK r \in Endings :
           /\ Turns(c, Outside, {r})
           /\ r \notin {told[c], "error"} => why[c] \in {"expired", "bot"}
    BY <1>0, <1>2, ExtractedTurns
  <2>2. BreakerTypes' /\ FreeLock(c)
    BY <1>0, <1>2, ExtractedTurns
  <2> QED
    BY <1>0, <1>2, <2>1, <2>2 DEF CookiesArrive, Forgets
<1> QED
  BY <1>1, <1>2 DEF CookiesArrive

LEMMA CutOffForgets ==
  ASSUME RequestInv, NEW c \in Callers, CookiesFail(c) \/ HoldTimesOut(c)
  PROVE  Forgets(c)
<1>0. 0 \in Tokens /\ 0 <= issued /\ token \in Tokens /\ token <= issued /\ told[c] \in Endings
  BY TypeParts, LimitsAssumption DEF RequestInv, SiteTypes, RequestTypes, TokensFit, Tokens
<1>1. CASE CookiesFail(c)
  <2>1. PICK r \in Endings :
           /\ Turns(c, Outside, {r})
           /\ r \notin {told[c], "error"} => why[c] \in {"expired", "bot"}
    BY <1>0, <1>1, ExtractedTurns DEF CookiesFail
  <2>2. BreakerTypes' /\ FreeLock(c)
    BY <1>0, <1>1, ExtractedTurns DEF CookiesFail
  <2> QED
    BY <1>0, <1>1, <2>1, <2>2 DEF CookiesFail, Forgets
<1>2. CASE HoldTimesOut(c)
  <2>1. Turns(c, {"idle"}, {"error"}) /\ BreakerTypes'
    BY <1>2, TokenErrorTurns DEF HoldTimesOut
  <2>2. Turns(c, Outside, {"error"})
    BY <2>1 DEF Turns, Outside
  <2> QED
    BY <1>0, <1>2, <2>1, <2>2 DEF HoldTimesOut, Forgets, Endings
<1> QED
  BY <1>1, <1>2

-----------------------------------------------------------------------------
(* Every step keeps the invariant *)

LEMMA DepartsKeeps ==
  ASSUME RequestInv, NEW c \in Callers, Departs(c)
  PROVE  RequestInv'
<1>0. SiteTypes /\ AnswerTypes
  BY TypeParts DEF RequestInv
<1>1. PICK r \in Endings : Turns(c, Outside, {r})
  BY DEF Departs
<1>2. TokensMove
  BY DEF Departs, TokensMove, siteVars
<1>3. /\ RequestTypes' /\ RequestsFit' /\ pc'[c] \in Outside
      /\ \A d \in Callers \ {c} : pc'[d] = pc[d] /\ why'[d] = why[d]
      /\ \A d \in Callers : /\ used'[d] <= issued'
                            /\ why'[d] = "expired" => used'[d] \notin {0, valid'}
  BY <1>1, <1>2, TurnKeeps DEF Outside, Steps
<1>4. LockIsHeld' /\ lock' \in Callers \cup {Nobody}
  BY <1>3, LockIsLeft DEF Departs
<1>5. AnswersQueue' /\ AnswerTypes'
  BY <1>3, QueueStays DEF Departs, Outside
<1>6. TokensFit' /\ SiteTypes'
  <2>1. token' \in Tokens /\ token' <= issued /\ \A d \in Callers : seen'[d] <= issued
    BY <1>0 DEF Departs, RequestInv, SiteTypes, TokensFit
  <2> QED
    BY <1>3, <1>4, <1>5, <2>1, TokensStay DEF Departs
<1> QED
  BY <1>3, <1>4, <1>5, <1>6, TypePartsNext DEF Departs, RequestInv

LEMMA ForgetsKeeps ==
  ASSUME RequestInv, NEW c \in Callers, Forgets(c)
  PROVE  RequestInv'
<1>0. SiteTypes /\ AnswerTypes
  BY TypeParts DEF RequestInv
<1>1. PICK r \in Endings : Turns(c, Outside, {r})
  BY DEF Forgets
<1>2. TokensMove
  BY DEF Forgets, TokensMove, siteVars
<1>3. /\ RequestTypes' /\ RequestsFit' /\ pc'[c] \in Outside
      /\ \A d \in Callers \ {c} : pc'[d] = pc[d] /\ why'[d] = why[d]
      /\ \A d \in Callers : /\ used'[d] <= issued'
                            /\ why'[d] = "expired" => used'[d] \notin {0, valid'}
  BY <1>1, <1>2, TurnKeeps DEF Outside, Steps
<1>4. LockIsHeld' /\ lock' \in Callers \cup {Nobody}
  BY <1>3, LockIsLeft DEF Forgets
<1>5. /\ AnswersQueue' /\ AnswerTypes' /\ seen'[c] = 0
      /\ \A d \in Callers \ {c} : seen'[d] = seen[d]
  BY <1>3, QueueShrinks DEF Forgets, Outside
<1>6. TokensFit' /\ SiteTypes'
  <2>1. \A d \in Callers : seen'[d] <= issued
    BY <1>0, <1>5 DEF RequestInv, SiteTypes, TokensFit, Tokens
  <2> QED
    BY <1>3, <1>4, <1>5, <2>1, TokensStay DEF Forgets
<1> QED
  BY <1>3, <1>4, <1>5, <1>6, TypePartsNext DEF Forgets, RequestInv

LEMMA ExportsKeeps ==
  ASSUME RequestInv, NEW c \in Callers, Exports(c)
  PROVE  RequestInv'
<1>0. SiteTypes /\ BreakerTypes /\ AnswerTypes /\ RequestTypes
  BY TypeParts DEF RequestInv
<1>1. Turns(c, {"export"}, {told[c]})
  BY <1>0, KeepTurns DEF Exports, Steps, RequestTypes
<1>2. TokensMove
  BY DEF Exports, TokensMove, siteVars
<1>3. /\ RequestTypes' /\ RequestsFit' /\ pc'[c] = "export"
      /\ \A d \in Callers \ {c} : pc'[d] = pc[d] /\ why'[d] = why[d]
      /\ \A d \in Callers : /\ used'[d] <= issued'
                            /\ why'[d] = "expired" => used'[d] \notin {0, valid'}
  <2>1. {told[c]} \in SUBSET Endings /\ {"export"} \in SUBSET Steps
    BY <1>0 DEF RequestTypes, Steps
  <2> QED
    BY <1>1, <1>2, <2>1, TurnKeeps
<1>4. LockIsHeld' /\ lock' \in Callers \cup {Nobody}
  BY <1>0, <1>3 DEF Exports, RequestInv, LockIsHeld, Refreshing, KeepRequest, SiteTypes
<1>5. /\ AnswersQueue' /\ AnswerTypes' /\ seen'[c] = 0
      /\ \A d \in Callers \ {c} : seen'[d] = seen[d]
  BY <1>3, QueueShrinks DEF Exports
<1>6. TokensFit' /\ SiteTypes'
  <2>1. \A d \in Callers : seen'[d] <= issued
    BY <1>0, <1>5 DEF RequestInv, SiteTypes, TokensFit, Tokens
  <2>2. token' \in Tokens /\ token' <= issued
    BY <1>0 DEF Exports, AnswerTypes, RequestInv, TokensFit
  <2> QED
    BY <1>3, <1>4, <1>5, <2>1, <2>2, TokensStay DEF Exports
<1>7. BreakerTypes'
  BY <1>0 DEF Exports, BreakerTypes, breakerVars
<1> QED
  BY <1>3, <1>4, <1>5, <1>6, <1>7, TypePartsNext DEF RequestInv

LEMMA AsksKeeps ==
  ASSUME RequestInv, NEW c \in Callers, Asks(c)
  PROVE  RequestInv'
<1>0. SiteTypes /\ BreakerTypes /\ AnswerTypes /\ RequestTypes
  BY TypeParts DEF RequestInv
<1>1. Turns(c, {"extract"}, {told[c]})
  BY <1>0, KeepTurns DEF Asks, Steps, RequestTypes
<1>2. TokensMove
  BY DEF Asks, TokensMove, siteVars
<1>3. /\ RequestTypes' /\ RequestsFit' /\ pc'[c] = "extract"
      /\ \A d \in Callers \ {c} : pc'[d] = pc[d] /\ why'[d] = why[d]
      /\ \A d \in Callers : /\ used'[d] <= issued'
                            /\ why'[d] = "expired" => used'[d] \notin {0, valid'}
  <2>1. {told[c]} \in SUBSET Endings /\ {"extract"} \in SUBSET Steps
    BY <1>0 DEF RequestTypes, Steps
  <2> QED
    BY <1>1, <1>2, <2>1, TurnKeeps
<1>4. LockIsHeld' /\ lock' \in Callers \cup {Nobody}
  BY <1>0, <1>3
     DEF Asks, RequestInv, LockIsHeld, RequestsFit, Refreshing, KeepRequest, SiteTypes
<1>5. /\ AnswersQueue' /\ AnswerTypes' /\ seen'[c] = cookie
      /\ \A d \in Callers \ {c} : seen'[d] = seen[d]
  BY <1>0, <1>3, QueueGrows DEF Asks, SiteTypes
<1>6. TokensFit' /\ SiteTypes'
  <2>1. \A d \in Callers : seen'[d] <= issued
    BY <1>5 DEF RequestInv, TokensFit
  <2>2. token' \in Tokens /\ token' <= issued
    BY <1>0 DEF Asks, SiteTypes, RequestInv, TokensFit
  <2> QED
    BY <1>3, <1>4, <1>5, <2>1, <2>2, TokensStay DEF Asks
<1>7. BreakerTypes'
  BY <1>0 DEF Asks, BreakerTypes, breakerVars
<1> QED
  BY <1>3, <1>4, <1>5, <1>6, <1>7, TypePartsNext DEF RequestInv

LEMMA LocksKeeps ==
  ASSUME RequestInv, NEW c \in Callers, Locks(c)
  PROVE  RequestInv'
<1>0. SiteTypes /\ BreakerTypes /\ AnswerTypes /\ RequestTypes
  BY TypeParts DEF RequestInv
<1>1. Turns(c, {"load"}, {told[c]})
  BY <1>0, KeepTurns DEF Locks, Steps, RequestTypes, RequestInv, RequestsFit
<1>2. TokensMove
  BY DEF Locks, TokensMove, siteVars
<1>3. /\ RequestTypes' /\ RequestsFit' /\ pc'[c] = "load"
      /\ \A d \in Callers \ {c} : pc'[d] = pc[d] /\ why'[d] = why[d]
      /\ \A d \in Callers : /\ used'[d] <= issued'
                            /\ why'[d] = "expired" => used'[d] \notin {0, valid'}
  <2>1. {told[c]} \in SUBSET Endings /\ {"load"} \in SUBSET Steps
    BY <1>0 DEF RequestTypes, Steps
  <2> QED
    BY <1>1, <1>2, <2>1, TurnKeeps
<1>4. LockIsHeld' /\ lock' \in Callers \cup {Nobody}
  BY <1>3, NobodyAssumption DEF Locks, RequestInv, LockIsHeld, Refreshing
<1>5. AnswersQueue' /\ AnswerTypes'
  BY <1>3, QueueStays DEF Locks
<1>6. TokensFit' /\ SiteTypes'
  <2>1. token' \in Tokens /\ token' <= issued /\ \A d \in Callers : seen'[d] <= issued
    BY <1>0, LimitsAssumption DEF Locks, RequestInv, SiteTypes, TokensFit, Tokens
  <2> QED
    BY <1>3, <1>4, <1>5, <2>1, TokensStay DEF Locks
<1>7. BreakerTypes'
  BY <1>0 DEF Locks, BreakerTypes, breakerVars
<1> QED
  BY <1>3, <1>4, <1>5, <1>6, <1>7, TypePartsNext DEF RequestInv

\* What a page load issues: the valid token, or the next one.
LEMMA LoadIssues ==
  ASSUME RequestInv, NEW c \in Callers, PageLoads(c)
  PROVE  /\ TokensMove /\ issued <= issued' /\ cookie' = valid'
         /\ valid' \in Tokens /\ issued' \in Tokens /\ Ask(c, valid')
         /\ session => valid' # 0
         /\ \A t \in Tokens : t <= issued /\ t # valid /\ t # 0 => t # valid'
         /\ valid' \in {0, issued'} /\ (~session => valid' = 0)
<1>0. SiteTypes /\ TokensFit
  BY TypeParts DEF RequestInv
<1>1. /\ valid' = (IF session /\ valid = 0 THEN issued + 1 ELSE valid) /\ cookie' = valid'
      /\ issued' = (IF session /\ valid = 0 THEN valid' ELSE issued)
      /\ Ask(c, valid')
  BY Zenon DEF PageLoads
<1>2. /\ issued \in 0..MaxToken /\ valid \in 0..MaxToken /\ issued > 0 /\ valid \in {0, issued}
      /\ session => valid # 0 \/ issued < MaxToken
      /\ ~session => valid = 0
  BY <1>0 DEF SiteTypes, TokensFit, Tokens
<1>3. CASE session /\ valid = 0
  <2>1. valid' = issued + 1 /\ issued' = issued + 1 /\ issued < MaxToken
    BY <1>1, <1>2, <1>3
  <2> QED
    BY <1>1, <1>2, <1>3, <2>1, LimitsAssumption DEF TokensMove, Tokens
<1>4. CASE ~(session /\ valid = 0)
  <2>1. valid' = valid /\ issued' = issued
    BY <1>1, <1>4
  <2> QED
    BY <1>1, <1>2, <1>4, <2>1, LimitsAssumption DEF TokensMove, Tokens
<1> QED
  BY <1>3, <1>4

LEMMA PageLoadsKeeps ==
  ASSUME RequestInv, NEW c \in Callers, PageLoads(c)
  PROVE  RequestInv'
<1>0. SiteTypes /\ BreakerTypes /\ AnswerTypes /\ RequestTypes
  BY TypeParts DEF RequestInv
<1>1. Turns(c, {"extract"}, {told[c]})
  BY <1>0, KeepTurns DEF PageLoads, Steps, RequestTypes
<1>3. /\ RequestTypes' /\ RequestsFit' /\ pc'[c] = "extract"
      /\ \A d \in Callers \ {c} : pc'[d] = pc[d] /\ why'[d] = why[d]
      /\ \A d \in Callers : /\ used'[d] <= issued'
                            /\ why'[d] = "expired" => used'[d] \notin {0, valid'}
  <2>1. {told[c]} \in SUBSET Endings /\ {"extract"} \in SUBSET Steps
    BY <1>0 DEF RequestTypes, Steps
  <2> QED
    BY <1>1, LoadIssues, <2>1, TurnKeeps
<1>4. LockIsHeld' /\ lock' \in Callers \cup {Nobody}
  <2>1. why[c] # "cached" /\ lock' = lock /\ why' = why /\ lock = c
    BY DEF PageLoads, KeepRequest, RequestInv, RequestsFit, LockIsHeld, Refreshing
  <2> QED
    BY <1>0, <1>3, <2>1 DEF RequestInv, LockIsHeld, Refreshing, SiteTypes
<1>5. /\ AnswersQueue' /\ AnswerTypes' /\ seen'[c] = valid'
      /\ \A d \in Callers \ {c} : seen'[d] = seen[d]
  BY <1>0, <1>3, LoadIssues, QueueGrows DEF PageLoads
<1>6. issued > 0 /\ issued <= issued' /\ issued \in Int /\ issued' \in Int /\ token <= issued
  BY <1>0, LoadIssues, LimitsAssumption DEF SiteTypes, RequestInv, TokensFit, Tokens
<1>7. \A d \in Callers : seen'[d] <= issued'
  <2>1. \A d \in Callers \ {c} : seen'[d] \in Int /\ seen'[d] <= issued
    BY <1>0, <1>5, LimitsAssumption DEF AnswerTypes, RequestInv, TokensFit, Tokens
  <2>2. valid' <= issued'
    BY <1>6, LoadIssues
  <2> QED
    BY <1>5, <1>6, <2>1, <2>2
<1>8. TokensFit'
  <2>1. session' = session /\ token' = token /\ token \in Int
    BY <1>0, LimitsAssumption DEF PageLoads, SiteTypes, Tokens
  <2>2. cookie' <= issued' /\ token' <= issued' /\ issued' > 0
    BY <1>6, <2>1, LoadIssues
  <2>3. session' => valid' # 0
    BY <2>1, LoadIssues
  <2>4. ~session' => valid' = 0
    BY <2>1, LoadIssues
  <2> QED
    BY <1>3, <1>7, <2>2, <2>3, <2>4, LoadIssues DEF TokensFit
<1>9. SiteTypes'
  <2>1. session' \in BOOLEAN /\ env' \in {"calm", "rough", "clear"} /\ token' \in Tokens
    BY <1>0 DEF PageLoads, SiteTypes
  <2>2. renewals' \in [Tokens -> Nat]
    BY <1>0 DEF PageLoads, SiteTypes, RequestTypes
  <2> QED
    BY <1>4, <2>1, <2>2, LoadIssues DEF SiteTypes
<1>10. BreakerTypes'
  BY <1>0 DEF PageLoads, BreakerTypes, breakerVars
<1> QED
  BY <1>3, <1>4, <1>5, <1>8, <1>9, <1>10, TypePartsNext DEF RequestInv

\* The environment: the requests stay, and tokens only get lost.
Weathers ==
  /\ UNCHANGED <<issued, lock, callVars, renewals>> /\ BreakerTypes'
  /\ session' \in BOOLEAN /\ env' \in {"calm", "rough", "clear"} /\ env' \in {env, "clear"}
  /\ valid' \in {valid, 0} /\ cookie' \in {cookie, 0} /\ token' \in {token, 0}
  /\ session' => session /\ (valid' # 0 \/ issued < MaxToken)
  /\ ~session' => valid' = 0
  /\ env' = "calm" => cookie' = cookie /\ token' = token

LEMMA EnvironmentWeathers ==
  ASSUME RequestInv,
         \/ Cools \/ TokenExpires \/ SessionEnds \/ Invalidate \/ Clears \/ UNCHANGED vars
  PROVE  Weathers
<1>0. TypeOK /\ SiteTypes /\ BreakerTypes /\ TokensFit
  BY TypeParts DEF RequestInv
<1>1. /\ session \in BOOLEAN /\ env \in {"calm", "rough", "clear"}
      /\ session => valid # 0 \/ issued < MaxToken
      /\ ~session => valid = 0
  BY <1>0 DEF SiteTypes, TokensFit
<1>2. CASE Cools
  <2>1. BreakerTypes'
    <3>1. cooled' \in BOOLEAN
      BY <1>2, Zenon DEF Cools
    <3> QED
      BY <1>0, <1>2, <3>1 DEF Cools, BreakerTypes
  <2> QED
    BY <1>1, <1>2, <2>1 DEF Cools, Weathers, siteVars
<1>3. ASSUME UNCHANGED breakerVars  PROVE BreakerTypes'
  BY <1>0, <1>3, BreakerStep
<1>4. CASE TokenExpires
  BY <1>1, <1>3, <1>4 DEF TokenExpires, Weathers
<1>5. CASE SessionEnds
  <2>1. session' \in BOOLEAN /\ ~session'
    BY <1>5, Zenon DEF SessionEnds
  <2> QED
    BY <1>1, <1>3, <1>5, <2>1 DEF SessionEnds, Weathers
<1>6. CASE Invalidate
  BY <1>1, <1>3, <1>6 DEF Invalidate, Weathers, siteVars
<1>7. CASE Clears
  BY <1>1, <1>3, <1>7 DEF Clears, Weathers, siteVars
<1>8. CASE UNCHANGED vars
  BY <1>1, <1>3, <1>8 DEF vars, Weathers, siteVars
<1> QED
  BY <1>2, <1>4, <1>5, <1>6, <1>7, <1>8

LEMMA WeathersKeeps ==
  ASSUME RequestInv, Weathers
  PROVE  RequestInv'
<1>0. SiteTypes /\ BreakerTypes /\ AnswerTypes /\ RequestTypes
  BY TypeParts DEF RequestInv
<1>1. 0 \in Tokens /\ valid \in Tokens /\ cookie \in Tokens /\ token \in Tokens /\ issued \in Tokens
  BY <1>0, LimitsAssumption DEF SiteTypes, Tokens
<1>2. SiteTypes'
  BY <1>0, <1>1 DEF Weathers, SiteTypes
<1>3. RequestTypes' /\ AnswerTypes'
  BY <1>0 DEF Weathers, callVars, RequestTypes, AnswerTypes
<1>4. LockIsHeld' /\ RequestsFit'
  BY DEF Weathers, callVars, RequestInv, LockIsHeld, RequestsFit, Refreshing
<1>5. AnswersQueue'
  BY DEF Weathers, callVars, RequestInv, AnswersQueue, Asking
<1>6. TokensFit'
  <2>1. cookie' <= issued /\ token' <= issued /\ issued' = issued /\ valid' \in {0, issued}
    BY <1>1 DEF Weathers, RequestInv, TokensFit, Tokens
  <2>2. \A c \in Callers : seen'[c] <= issued /\ used'[c] <= issued
    BY DEF Weathers, callVars, RequestInv, TokensFit
  <2>3. \A c \in Callers : why'[c] = "expired" => used'[c] \notin {0, valid'}
    BY DEF Weathers, callVars, RequestInv, TokensFit
  <2> QED
    BY <2>1, <2>2, <2>3 DEF Weathers, RequestInv, TokensFit
<1> QED
  BY <1>2, <1>3, <1>4, <1>5, <1>6, TypePartsNext DEF Weathers, RequestInv

\* Each step is one of these.
LEMMA StepIs ==
  ASSUME RequestInv, [Next]_vars
  PROVE  \/ Weathers
         \/ \E c \in Callers : \/ Departs(c) \/ Forgets(c) \/ Exports(c) \/ Asks(c)
                               \/ Locks(c) \/ PageLoads(c)
<1>1. CASE \/ Cools \/ TokenExpires \/ SessionEnds \/ Invalidate \/ Clears \/ UNCHANGED vars
  BY <1>1, EnvironmentWeathers
<1>2. ASSUME NEW c \in Callers, Begin(c) \/ Chrome(c) \/ LoadFails(c) \/ Code(c)
      PROVE  \/ Departs(c) \/ Forgets(c) \/ Exports(c) \/ Asks(c) \/ Locks(c) \/ PageLoads(c)
  BY <1>2, BeginDeparts, EnsureTokenIs, ExportEndsDeparts, TakeLockIs, WaitTimesOutDeparts,
     LoadFailsDeparts, SentDeparts, CookiesArriveIs, CutOffForgets DEF Chrome, Code
<1> QED
  BY <1>1, <1>2 DEF Next

LEMMA InitRequests == Init => RequestInv
<1> SUFFICES ASSUME Init PROVE RequestInv
  OBVIOUS
<1> USE DEF Init
<1>0. 0 \in Tokens /\ 1 \in Tokens /\ 0 \in 0..MaxRetries /\ 0 \in 0..Threshold
  BY LimitsAssumption DEF Tokens
<1>1. BreakerTypes
  <2>1. cooled \in BOOLEAN
    BY Zenon
  <2> QED
    BY <1>0, <2>1 DEF BreakerTypes
<1>2. SiteTypes
  <2>1. session \in BOOLEAN
    BY Zenon
  <2> QED
    BY <1>0, <2>1 DEF SiteTypes
<1>3. RequestTypes /\ AnswerTypes
  BY <1>0 DEF RequestTypes, AnswerTypes, Steps, Reasons, Endings
<1>4. LockIsHeld /\ RequestsFit /\ AnswersQueue
  BY NobodyAssumption DEF LockIsHeld, RequestsFit, AnswersQueue, Refreshing, Asking
<1>5. TokensFit
  <2>1. session
    BY Zenon
  <2> QED
    BY <1>0, <2>1 DEF TokensFit
<1> QED
  BY <1>1, <1>2, <1>3, <1>4, <1>5, TypeParts DEF RequestInv

\* The refresh lock is held by the request that refreshes and by no other, no request
\* knows a token that was never issued, and extracts in flight form a queue.
THEOREM RequestInvariant == Spec => []RequestInv
<1>1. RequestInv /\ [Next]_vars => RequestInv'
  BY StepIs, WeathersKeeps, DepartsKeeps, ForgetsKeeps, ExportsKeeps, AsksKeeps, LocksKeeps,
     PageLoadsKeeps
<1> QED
  BY InitRequests, <1>1, PTL DEF Spec

\* The type invariant.
THEOREM RequestTypesHold == Spec => []TypeOK
<1>1. RequestInv => TypeOK
  BY DEF RequestInv
<1> QED
  BY <1>1, RequestInvariant, PTL

-----------------------------------------------------------------------------
(* A calm Chrome *)

\* While the session lives, cookies come and stay.
CookiesStay ==
  /\ \A c \in Asking : seen[c] # 0 => cookie # 0
  /\ \A c \in Asking : \A d \in ahead[c] : seen[d] # 0 => seen[c] # 0
  /\ \A c \in Asking : why[c] # "cached" => seen[c] # 0

\* A refresh whose cookies have arrived finds a token in the cache at its end.
RefreshFinds ==
  \A c \in Callers : pc[c] = "export" /\ why[c] # "cached" =>
    token # 0 /\ cookie # 0 /\ \A d \in Asking : seen[d] # 0

\* An expired token that was renewed is gone for good, but for the extracts that
\* were asked before the refresh that is still in flight.
Renewed(t) ==
  /\ t # valid /\ t <= issued /\ cookie \notin {0, t}
  /\ \A c \in Asking : seen[c] \in {0, t} => lock \in Callers /\ c \in ahead[lock]
  /\ token \in {0, t} => lock \in Callers /\ pc[lock] \in {"load", "extract"}

RenewedAreGone == \A t \in Tokens \ {0} : renewals[t] # 0 => Renewed(t)

LoadsRenewNew ==
  \A c \in Callers : pc[c] = "load" /\ why[c] = "expired" => renewals[used[c]] = 0

NobodyMisled == \A c \in Callers : told[c] = "auth_expired" => ~session

RenewedOnce == \A t \in Tokens \ {0} : renewals[t] <= 1

LoggedIn == CookiesStay /\ RefreshFinds /\ RenewedAreGone /\ LoadsRenewNew

CalmInv == env = "calm" => NobodyMisled /\ RenewedOnce /\ (session => LoggedIn)

\* The holder of the lock is the only one that refreshes.
LEMMA OneRefreshes ==
  ASSUME RequestInv, NEW c \in Callers, NEW d \in Callers, Refreshing(c), Refreshing(d)
  PROVE  c = d
  BY DEF RequestInv, LockIsHeld

LEMMA DepartsCalmly ==
  ASSUME RequestInv, CalmInv, NEW c \in Callers, Departs(c), env = "calm"
  PROVE  NobodyMisled' /\ RenewedOnce' /\ (session' => LoggedIn')
<1>0. SiteTypes /\ AnswerTypes
  BY TypeParts DEF RequestInv
<1>1. PICK r \in Endings :
         /\ Turns(c, Outside, {r})
         /\ r \notin {told[c], "nothing", "ok", "error"} =>
              pc[c] = "export" /\ token = 0 /\ why[c] # "cached"
  BY DEF Departs
<1>2. TokensMove
  BY DEF Departs, TokensMove, siteVars
<1>3. /\ pc'[c] \in Outside /\ told'[c] = r
      /\ \A d \in Callers \ {c} : pc'[d] = pc[d] /\ why'[d] = why[d]
                                  /\ used'[d] = used[d] /\ told'[d] = told[d]
  <2>1. {r} \in SUBSET Endings /\ Outside \in SUBSET Steps
    BY DEF Outside, Steps
  <2> QED
    BY <1>1, <1>2, <2>1, TurnKeeps
<1>4. UNCHANGED <<session, valid, issued, cookie, token, seen, ahead, renewals, env>>
  BY DEF Departs, siteVars
<1>5. pc[c] \notin {"extract", "load"}
  BY DEF Departs
<1>6. Asking' = Asking /\ c \notin Asking
  BY <1>3, <1>5 DEF Asking, Outside
<1>7. NobodyMisled'
  <2>1. CASE told'[c] = "auth_expired" /\ told[c] # "auth_expired" /\ session
    BY <1>1, <1>3, <2>1 DEF CalmInv, LoggedIn, RefreshFinds
  <2> QED
    BY <1>3, <1>4, <2>1 DEF CalmInv, NobodyMisled
<1>8. RenewedOnce'
  BY <1>4 DEF CalmInv, RenewedOnce
<1>9. ASSUME session  PROVE LoggedIn'
  <2> LoggedIn
    BY <1>9 DEF CalmInv
  <2>1. CookiesStay'
    <3>1. \A d \in Asking : why'[d] = why[d]
      BY <1>3, <1>6 DEF Asking
    <3> QED
      BY <1>4, <1>6, <3>1 DEF LoggedIn, CookiesStay
  <2>2. RefreshFinds'
    BY <1>3, <1>4, <1>6 DEF LoggedIn, RefreshFinds, Outside
  <2>3. ASSUME NEW t \in Tokens \ {0}, renewals[t] # 0  PROVE Renewed(t)'
    <3>1. Renewed(t)
      BY <2>3 DEF LoggedIn, RenewedAreGone
    <3>2. CASE lock = c
      <4>1. lock' = Nobody /\ pc[c] = "export" /\ why[c] # "cached"
        BY <1>5, <3>2 DEF Departs, FreeLock, RequestInv, LockIsHeld, Refreshing
      <4>2. token \notin {0, t}
        BY <3>1, <3>2, <4>1 DEF Renewed
      <4>3. ahead[c] = {}
        BY <1>0, <1>5 DEF AnswerTypes, RequestInv, AnswersQueue, Asking
      <4> QED
        BY <1>4, <1>6, <3>1, <3>2, <4>2, <4>3 DEF Renewed
    <3>3. CASE lock # c
      BY <1>3, <1>4, <1>6, <3>1, <3>3 DEF Renewed, Departs, FreeLock
    <3> QED
      BY <3>2, <3>3
  <2>4. LoadsRenewNew'
    BY <1>3, <1>4 DEF LoggedIn, LoadsRenewNew, Outside
  <2> QED
    BY <1>4, <2>1, <2>2, <2>3, <2>4 DEF LoggedIn, RenewedAreGone
<1> QED
  BY <1>4, <1>7, <1>8, <1>9

\* No cookies came: only an ensure_token() sees that, before any refresh has ended.
LEMMA ForgetsCalmly ==
  ASSUME RequestInv, CalmInv, NEW c \in Callers, Forgets(c), env = "calm"
  PROVE  NobodyMisled' /\ RenewedOnce' /\ (session' => LoggedIn')
<1>1. PICK r \in Endings :
         /\ Turns(c, Outside, {r})
         /\ r \notin {told[c], "error"} => why[c] # "cached"
  BY DEF Forgets
<1>2. TokensMove
  BY DEF Forgets, TokensMove, siteVars
<1>3. /\ pc'[c] \in Outside /\ told'[c] = r
      /\ \A d \in Callers \ {c} : pc'[d] = pc[d] /\ why'[d] = why[d]
                                  /\ used'[d] = used[d] /\ told'[d] = told[d]
  <2>1. {r} \in SUBSET Endings /\ Outside \in SUBSET Steps
    BY DEF Outside, Steps
  <2> QED
    BY <1>1, <1>2, <2>1, TurnKeeps
<1>4. UNCHANGED <<session, valid, issued, cookie, renewals, env>>
  BY DEF Forgets, siteVars
<1>5. c \in Asking /\ pc[c] = "extract" /\ ahead[c] = {} /\ seen[c] = 0 /\ token' = 0
  BY DEF Forgets, Asking
<1>6. /\ Asking' = Asking \ {c}
      /\ \A d \in Callers \ {c} : ahead'[d] = ahead[d] \ {c} /\ seen'[d] = seen[d]
  BY <1>3, QueueShrinks DEF Forgets, Outside
<1>7. session => why[c] = "cached"
  BY <1>5 DEF CalmInv, LoggedIn, CookiesStay
<1>8. NobodyMisled'
  BY <1>1, <1>3, <1>4, <1>7 DEF CalmInv, NobodyMisled
<1>9. RenewedOnce'
  BY <1>4 DEF CalmInv, RenewedOnce
<1>10. ASSUME session  PROVE LoggedIn'
  <2> LoggedIn
    BY <1>10 DEF CalmInv
  <2>0. lock # c /\ lock' = lock
    BY <1>7, <1>10, <1>5 DEF Forgets, FreeLock, RequestInv, LockIsHeld, Refreshing
  <2>1. CookiesStay'
    <3>1. \A d \in Asking' : d \in Asking /\ ahead'[d] \subseteq ahead[d] /\ seen'[d] = seen[d]
                             /\ why'[d] = why[d] /\ c \notin ahead'[d]
      BY <1>3, <1>6 DEF Asking
    <3>2. \A d \in Asking : ahead[d] \subseteq Callers
      BY DEF RequestInv, AnswersQueue, TypeOK, Asking
    <3> QED
      BY <1>4, <1>6, <3>1, <3>2 DEF LoggedIn, CookiesStay
  <2>2. RefreshFinds'
    BY <1>3, <1>5 DEF LoggedIn, RefreshFinds, Outside
  <2>3. ASSUME NEW t \in Tokens \ {0}, renewals[t] # 0  PROVE Renewed(t)'
    <3>1. Renewed(t)
      BY <2>3 DEF LoggedIn, RenewedAreGone
    <3>2. lock \in Callers /\ c \in ahead[lock]
      BY <1>5, <3>1 DEF Renewed
    <3>3. pc[lock] = "extract"
      BY <3>2 DEF RequestInv, AnswersQueue, Asking
    <3>4. pc'[lock'] = "extract" /\ lock' \in Callers /\ ahead'[lock'] = ahead[lock] \ {c}
      BY <1>3, <1>6, <2>0, <3>2, <3>3
    <3>5. \A d \in Asking' : d \in Asking /\ d # c /\ d \in Callers /\ seen'[d] = seen[d]
      BY <1>6 DEF Asking
    <3> QED
      BY <1>4, <3>1, <3>4, <3>5 DEF Renewed
  <2>4. LoadsRenewNew'
    BY <1>3, <1>4 DEF LoggedIn, LoadsRenewNew, Outside
  <2> QED
    BY <1>4, <2>1, <2>2, <2>3, <2>4 DEF LoggedIn, RenewedAreGone
<1> QED
  BY <1>4, <1>8, <1>9, <1>10

\* The requests that do not move, when c only changes where it is.
LEMMA MovesOn ==
  ASSUME TypeOK, NEW c \in Callers, NEW p \in Steps, To(c, p), KeepRequest, UNCHANGED told
  PROVE  /\ pc'[c] = p /\ \A d \in Callers \ {c} : pc'[d] = pc[d]
         /\ why' = why /\ used' = used /\ told' = told
  BY TypeParts DEF RequestTypes, To, KeepRequest

LEMMA ExportsCalmly ==
  ASSUME RequestInv, CalmInv, NEW c \in Callers, Exports(c), env = "calm"
  PROVE  NobodyMisled' /\ RenewedOnce' /\ (session' => LoggedIn')
<1>3. /\ pc'[c] = "export" /\ \A d \in Callers \ {c} : pc'[d] = pc[d]
      /\ why' = why /\ used' = used /\ told' = told
  BY MovesOn DEF Exports, RequestInv, Steps
<1>4. UNCHANGED <<session, valid, issued, cookie, lock, renewals, env>>
  BY DEF Exports, siteVars
<1>5. c \in Asking /\ pc[c] = "extract" /\ ahead[c] = {} /\ seen[c] # 0 /\ token' = seen[c]
  BY DEF Exports, Asking
<1>6. /\ Asking' = Asking \ {c}
      /\ \A d \in Callers \ {c} : ahead'[d] = ahead[d] \ {c} /\ seen'[d] = seen[d]
  BY <1>3, QueueShrinks DEF Exports
<1>8. NobodyMisled'
  BY <1>3, <1>4 DEF CalmInv, NobodyMisled
<1>9. RenewedOnce'
  BY <1>4 DEF CalmInv, RenewedOnce
<1>10. ASSUME session  PROVE LoggedIn'
  <2> LoggedIn
    BY <1>10 DEF CalmInv
  <2>0. \A d \in Asking' : d \in Asking /\ d # c /\ d \in Callers /\ seen'[d] = seen[d]
                           /\ ahead'[d] = ahead[d] \ {c} /\ ahead[d] \subseteq Callers
    BY <1>6 DEF Asking, RequestInv, TypeOK
  <2>1. CookiesStay'
    BY <1>3, <1>4, <1>6, <2>0 DEF LoggedIn, CookiesStay
  <2>2. RefreshFinds'
    <3>1. cookie # 0
      BY <1>5 DEF LoggedIn, CookiesStay
    <3>2. \A d \in Asking' : seen'[d] # 0
      <4>1. \A d \in Asking' : c \in ahead[d]
        BY <1>5, <2>0 DEF RequestInv, AnswersQueue
      <4> QED
        BY <1>5, <2>0, <4>1 DEF LoggedIn, CookiesStay
    <3> QED
      BY <1>4, <1>5, <3>1, <3>2 DEF RefreshFinds
  <2>3. ASSUME NEW t \in Tokens \ {0}, renewals[t] # 0  PROVE Renewed(t)'
    <3>1. Renewed(t)
      BY <2>3 DEF LoggedIn, RenewedAreGone
    <3>2. \A d \in Asking' : seen'[d] \in {0, t} => lock \in Callers /\ d \in ahead'[lock]
      BY <1>5, <1>6, <2>0, <3>1 DEF Renewed
    <3>3. token' \in {0, t} => lock \in Callers /\ pc'[lock] \in {"load", "extract"}
      <4>1. token' \in {0, t} => lock \in Callers /\ c \in ahead[lock]
        BY <1>5, <3>1 DEF Renewed
      <4>2. \A d \in Callers : c \in ahead[d] => d # c /\ pc[d] = "extract"
        BY <1>5 DEF RequestInv, AnswersQueue, Asking
      <4> QED
        BY <1>3, <4>1, <4>2
    <3> QED
      BY <1>4, <3>1, <3>2, <3>3 DEF Renewed
  <2>4. LoadsRenewNew'
    BY <1>3, <1>4 DEF LoggedIn, LoadsRenewNew
  <2> QED
    BY <1>4, <2>1, <2>2, <2>3, <2>4 DEF LoggedIn, RenewedAreGone
<1> QED
  BY <1>4, <1>8, <1>9, <1>10

LEMMA AsksCalmly ==
  ASSUME RequestInv, CalmInv, NEW c \in Callers, Asks(c), env = "calm"
  PROVE  NobodyMisled' /\ RenewedOnce' /\ (session' => LoggedIn')
<1>1. cookie \in Tokens
  BY TypeParts DEF RequestInv, SiteTypes
<1>3. /\ pc'[c] = "extract" /\ \A d \in Callers \ {c} : pc'[d] = pc[d]
      /\ why' = why /\ used' = used /\ told' = told
  BY MovesOn DEF Asks, RequestInv, Steps
<1>4. UNCHANGED <<session, valid, issued, cookie, token, lock, renewals, env>> /\ token = 0
  BY DEF Asks, siteVars
<1>5. why[c] = "cached" /\ lock # c
  BY DEF Asks, RequestInv, RequestsFit, LockIsHeld, Refreshing
<1>6. /\ Asking' = Asking \cup {c} /\ seen'[c] = cookie /\ ahead'[c] = Asking
      /\ \A d \in Callers \ {c} : ahead'[d] = ahead[d] /\ seen'[d] = seen[d]
  BY <1>1, <1>3, QueueGrows DEF Asks
<1>7. \A d \in Asking : d \in Callers /\ d # c /\ seen'[d] = seen[d] /\ ahead'[d] = ahead[d]
                        /\ ahead[d] \subseteq Asking
  BY <1>6 DEF Asks, Asking, RequestInv, AnswersQueue, TypeOK
<1>8. NobodyMisled'
  BY <1>3, <1>4 DEF CalmInv, NobodyMisled
<1>9. RenewedOnce'
  BY <1>4 DEF CalmInv, RenewedOnce
<1>10. ASSUME session  PROVE LoggedIn'
  <2> LoggedIn
    BY <1>10 DEF CalmInv
  <2>1. CookiesStay'
    BY <1>3, <1>4, <1>5, <1>6, <1>7 DEF LoggedIn, CookiesStay
  <2>2. RefreshFinds'
    BY <1>3, <1>4 DEF LoggedIn, RefreshFinds
  <2>3. ASSUME NEW t \in Tokens \ {0}, renewals[t] # 0  PROVE Renewed(t)'
    <3>1. Renewed(t)
      BY <2>3 DEF LoggedIn, RenewedAreGone
    <3>2. lock \in Callers /\ pc'[lock] \in {"load", "extract"} /\ ahead'[lock] = ahead[lock]
      BY <1>3, <1>4, <1>5, <1>6, <3>1 DEF Renewed
    <3> QED
      BY <1>4, <1>6, <1>7, <3>1, <3>2 DEF Renewed
  <2>4. LoadsRenewNew'
    BY <1>3, <1>4 DEF LoggedIn, LoadsRenewNew
  <2> QED
    BY <1>4, <2>1, <2>2, <2>3, <2>4 DEF LoggedIn, RenewedAreGone
<1> QED
  BY <1>4, <1>8, <1>9, <1>10

\* Under the lock the token is looked at again: one that was renewed is not renewed twice.
LEMMA LocksCalmly ==
  ASSUME RequestInv, CalmInv, NEW c \in Callers, Locks(c), env = "calm"
  PROVE  NobodyMisled' /\ RenewedOnce' /\ (session' => LoggedIn')
<1>3. /\ pc'[c] = "load" /\ \A d \in Callers \ {c} : pc'[d] = pc[d]
      /\ why' = why /\ used' = used /\ told' = told
  BY MovesOn DEF Locks, RequestInv, Steps
<1>4. /\ UNCHANGED <<session, valid, issued, cookie, seen, ahead, renewals, env>>
      /\ lock = Nobody /\ lock' = c /\ lock \notin Callers
  BY NobodyAssumption DEF Locks, siteVars
<1>5. \A d \in Callers : ~Refreshing(d)
  BY <1>4 DEF RequestInv, LockIsHeld
<1>6. Asking' = Asking
  BY <1>3 DEF Locks, Asking
<1>8. NobodyMisled'
  BY <1>3, <1>4 DEF CalmInv, NobodyMisled
<1>9. RenewedOnce'
  BY <1>4 DEF CalmInv, RenewedOnce
<1>10. ASSUME session  PROVE LoggedIn'
  <2> LoggedIn
    BY <1>10 DEF CalmInv
  <2>1. CookiesStay'
    BY <1>3, <1>4, <1>6 DEF LoggedIn, CookiesStay
  <2>2. RefreshFinds'
    BY <1>3, <1>5 DEF RefreshFinds, Refreshing
  <2>3. ASSUME NEW t \in Tokens \ {0}, renewals[t] # 0  PROVE Renewed(t)'
    <3>1. Renewed(t)
      BY <2>3 DEF LoggedIn, RenewedAreGone
    <3> QED
      BY <1>3, <1>4, <1>6, <3>1 DEF Renewed
  <2>4. LoadsRenewNew'
    <3>1. ASSUME NEW d \in Callers, pc'[d] = "load", why'[d] = "expired"  PROVE d = c
      BY <1>3, <1>5, <3>1 DEF Refreshing
    <3>2. ASSUME why[c] = "expired"  PROVE renewals[used[c]] = 0
      <4>1. used[c] \in Tokens \ {0}
        BY <3>2 DEF RequestInv, TypeOK, TokensFit
      <4>2. Renewed(used[c]) => token \notin {0, used[c]}
        BY <1>4 DEF Renewed
      <4>3. token \in {0, used[c]}
        BY <3>2 DEF Locks
      <4> QED
        BY <4>1, <4>2, <4>3 DEF LoggedIn, RenewedAreGone
    <3> QED
      BY <1>3, <1>4, <3>1, <3>2 DEF LoadsRenewNew
  <2> QED
    BY <1>4, <2>1, <2>2, <2>3, <2>4 DEF LoggedIn, RenewedAreGone
<1> QED
  BY <1>4, <1>8, <1>9, <1>10

LEMMA PageLoadsCalmly ==
  ASSUME RequestInv, CalmInv, NEW c \in Callers, PageLoads(c), env = "calm"
  PROVE  NobodyMisled' /\ RenewedOnce' /\ (session' => LoggedIn')
<1>0. SiteTypes /\ AnswerTypes /\ RequestTypes
  BY TypeParts DEF RequestInv
<1>3. /\ pc'[c] = "extract" /\ \A d \in Callers \ {c} : pc'[d] = pc[d]
      /\ why' = why /\ used' = used /\ told' = told
  BY MovesOn DEF PageLoads, RequestInv, Steps
<1>4. UNCHANGED <<session, token, lock, env>> /\ pc[c] = "load"
  BY DEF PageLoads
<1>5. lock = c /\ \A d \in Callers \ {c} : ~Refreshing(d)
  BY <1>4 DEF RequestInv, LockIsHeld, Refreshing
<1>6. /\ Asking' = Asking \cup {c} /\ seen'[c] = valid' /\ ahead'[c] = Asking
      /\ \A d \in Callers \ {c} : ahead'[d] = ahead[d] /\ seen'[d] = seen[d]
  BY <1>3, <1>4, LoadIssues, QueueGrows
<1>7. \A d \in Asking : /\ d \in Callers /\ d # c /\ seen'[d] = seen[d]
                        /\ ahead'[d] = ahead[d] /\ ahead[d] \subseteq Asking
  BY <1>4, <1>6 DEF Asking, RequestInv, AnswersQueue, TypeOK
<1>8. NobodyMisled'
  BY <1>3, <1>4 DEF CalmInv, NobodyMisled
<1>9. /\ ~session => renewals' = renewals
      /\ \A t \in Tokens : renewals'[t] = IF why[c] = "expired" /\ session /\ t = used[c]
                                          THEN renewals[t] + 1 ELSE renewals[t]
  BY <1>0 DEF PageLoads, SiteTypes
<1>10. ASSUME ~session  PROVE RenewedOnce'
  BY <1>9, <1>10 DEF CalmInv, RenewedOnce
<1>11. ASSUME session  PROVE RenewedOnce' /\ LoggedIn'
  <2> LoggedIn /\ valid' # 0 /\ cookie' = valid'
    BY <1>11, LoadIssues DEF CalmInv
  <2>0. why[c] = "expired" => renewals[used[c]] = 0
    BY <1>4 DEF LoggedIn, LoadsRenewNew
  <2>1. CookiesStay'
    BY <1>3, <1>6, <1>7 DEF LoggedIn, CookiesStay
  <2>2. RefreshFinds'
    BY <1>3, <1>5 DEF RefreshFinds, Refreshing
  <2>3. ASSUME NEW t \in Tokens \ {0}, t <= issued, t # valid  PROVE Renewed(t)'
    <3>1. t # valid' /\ t <= issued'
      BY <1>0, <2>3, LoadIssues, LimitsAssumption DEF SiteTypes, Tokens
    <3>2. lock' = c /\ pc'[lock'] = "extract" /\ \A d \in Asking : d \in ahead'[lock']
      BY <1>3, <1>4, <1>5, <1>6
    <3>3. seen'[c] \notin {0, t} /\ cookie' \notin {0, t}
      BY <1>6, <3>1
    <3> QED
      BY <1>6, <3>1, <3>2, <3>3 DEF Renewed
  <2>4. ASSUME NEW t \in Tokens \ {0}, renewals'[t] # 0  PROVE Renewed(t)'
    <3>1. CASE why[c] = "expired" /\ t = used[c]
      BY <2>3, <3>1 DEF RequestInv, TokensFit
    <3>2. CASE renewals[t] # 0
      BY <2>3, <3>2 DEF LoggedIn, RenewedAreGone, Renewed
    <3> QED
      BY <1>9, <2>4, <3>1, <3>2
  <2>5. LoadsRenewNew'
    BY <1>3, <1>5 DEF LoadsRenewNew, Refreshing
  <2>6. RenewedOnce'
    BY <1>9, <2>0 DEF CalmInv, RenewedOnce
  <2> QED
    BY <2>1, <2>2, <2>4, <2>5, <2>6 DEF LoggedIn, RenewedAreGone
<1> QED
  BY <1>4, <1>8, <1>10, <1>11

LEMMA WeathersCalmly ==
  ASSUME RequestInv, CalmInv, Weathers, env' = "calm"
  PROVE  NobodyMisled' /\ RenewedOnce' /\ (session' => LoggedIn')
<1>1. /\ env = "calm" /\ UNCHANGED <<issued, lock, renewals, cookie, token>>
      /\ UNCHANGED <<pc, why, used, seen, ahead, told>>
      /\ valid' \in {valid, 0} /\ (session' => session)
  BY DEF Weathers, callVars
<1>2. Asking' = Asking
  BY <1>1 DEF Asking
<1>3. NobodyMisled' /\ RenewedOnce'
  BY <1>1 DEF CalmInv, NobodyMisled, RenewedOnce
<1>4. ASSUME session'  PROVE LoggedIn'
  <2> LoggedIn
    BY <1>1, <1>4 DEF CalmInv
  <2>1. CookiesStay' /\ RefreshFinds' /\ LoadsRenewNew'
    BY <1>1, <1>2 DEF LoggedIn, CookiesStay, RefreshFinds, LoadsRenewNew
  <2>2. ASSUME NEW t \in Tokens \ {0}, renewals[t] # 0  PROVE Renewed(t)'
    BY <1>1, <1>2, <2>2 DEF LoggedIn, RenewedAreGone, Renewed
  <2> QED
    BY <1>1, <2>1, <2>2 DEF LoggedIn, RenewedAreGone
<1> QED
  BY <1>3, <1>4

LEMMA InitCalm == Init => CalmInv
<1> SUFFICES ASSUME Init PROVE CalmInv
  OBVIOUS
<1>1. NobodyMisled /\ RenewedOnce
  BY DEF Init, NobodyMisled, RenewedOnce
<1>2. CookiesStay /\ RefreshFinds /\ LoadsRenewNew
  BY DEF Init, CookiesStay, RefreshFinds, LoadsRenewNew, Asking
<1>3. RenewedAreGone
  BY DEF Init, RenewedAreGone
<1> QED
  BY <1>1, <1>2, <1>3 DEF CalmInv, LoggedIn

LEMMA CalmStep ==
  ASSUME RequestInv, CalmInv, [Next]_vars
  PROVE  CalmInv'
<1> SUFFICES ASSUME env' = "calm"
             PROVE  NobodyMisled' /\ RenewedOnce' /\ (session' => LoggedIn')
  BY DEF CalmInv
<1>1. CASE Weathers
  BY <1>1, WeathersCalmly
<1>2. ASSUME NEW c \in Callers,
             \/ Departs(c) \/ Forgets(c) \/ Exports(c) \/ Asks(c) \/ Locks(c) \/ PageLoads(c)
      PROVE  NobodyMisled' /\ RenewedOnce' /\ (session' => LoggedIn')
  <2>1. env = "calm"
    BY <1>2 DEF Departs, Forgets, Exports, Asks, Locks, PageLoads
  <2> QED
    BY <1>2, <2>1, DepartsCalmly, ForgetsCalmly, ExportsCalmly, AsksCalmly, LocksCalmly,
       PageLoadsCalmly
<1> QED
  BY <1>1, <1>2, StepIs

\* With a calm Chrome, what an expired token was renewed for comes back neither to the
\* cookies nor to the cache, and a refresh that exports a token finds one at its end,
\* however callers interleave and however the cache changes hands.
THEOREM CalmInvariant == Spec => []CalmInv
<1>1. RequestInv /\ CalmInv /\ [Next]_vars => CalmInv'
  BY CalmStep
<1> QED
  BY InitCalm, <1>1, RequestInvariant, PTL DEF Spec

\* While Chrome is calm and nobody logs in or out, no caller is told that the session
\* has expired as long as it lives, however requests and refreshes interleave.
THEOREM NobodyIsMisled == Spec => []NoFalseExpiry
<1>1. CalmInv => NoFalseExpiry
  BY DEF CalmInv, NobodyMisled, NoFalseExpiry
<1> QED
  BY <1>1, CalmInvariant, PTL

\* Under the same premise a storm of 401s renews an expired token once.
THEOREM OneRefreshPerToken == Spec => []StormCollapses
<1>1. CalmInv => StormCollapses
  BY DEF CalmInv, RenewedOnce, StormCollapses
<1> QED
  BY <1>1, CalmInvariant, PTL

=============================================================================
