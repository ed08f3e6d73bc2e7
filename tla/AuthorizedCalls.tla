-------------------------- MODULE AuthorizedCalls ---------------------------
(***************************************************************************)
(* HTTP calls of the polling input and the HTTP output with OAuth2: the    *)
(* retry loop of internal/httpclient/doretry.go and                        *)
(* internal/errhandling/retry.go, the 401 handling of both modules, and    *)
(* the token cache they share.                                             *)
(*                                                                         *)
(* The request, its Authorization header included, is built once per call  *)
(* and cloned for every attempt.                                           *)
(***************************************************************************)
EXTENDS TokenCache

CONSTANTS
    Pollers,            \* the callers that are polling inputs; the others
                        \* are HTTP outputs
    MaxAttempts,        \* RetryConfig.MaxAttempts: retries after the first
    MaxOAuth2Retries

ASSUME AuthorizedCallsAssumption ==
    /\ Pollers \subseteq Callers
    /\ MaxAttempts \in Nat
    /\ MaxOAuth2Retries \in Nat \ {0}

VARIABLES
    config,     \* what the configuration makes of a status, fixed
    call,       \* each caller's call
    canceled,   \* callers whose context is canceled
    rejected,   \* tokens the API no longer accepts
    dead        \* tokens whose 401 some caller has handled

vars == <<tokenVars, config, call, canceled, rejected, dead>>

-----------------------------------------------------------------------------

Statuses == {"2xx", "401", "4xx", "5xx", "network"}   \* 5xx includes 429
Hints    == {"none", "retry", "stop"}                 \* retryHintFromBody

(* codes: RetryableStatusCodes, {} for none.  expressionOnly: an output    *)
(* with success.expression and no success.statusCodes.                     *)
ConfigType == [codes : {{}, {"401", "5xx"}}, expressionOnly : BOOLEAN]

CallPcs == {"idle", "auth", "send", "unauthorized", "wait", "returned"}
Results == {"none", "ok", "failed", "unauthorized", "invalidCredentials",
            "authFailed", "canceled"}

CallType ==
    [pc : CallPcs, header : Tokens \cup {0}, attempt : 0..MaxAttempts,
     oauth2Retries : 0..MaxOAuth2Retries, hint : Hints,
     delays : 0..MaxAttempts, immediate : 0..MaxAttempts,
     made : 0..MaxAttempts+1, result : Results]

IdleCall == [pc |-> "idle", header |-> 0, attempt |-> 0, oauth2Retries |-> 0,
             hint |-> "none", delays |-> 0, immediate |-> 0, made |-> 0,
             result |-> "none"]

Set(c, r) == call' = [call EXCEPT ![c] = r]

(* statusAllowedAsSuccess: with an expression alone every status passes.   *)
StatusAllowed(c, status) ==
    status = "2xx" \/ (config.expressionOnly /\ c \notin Pollers)

(* ClassifyHTTPStatus, ClassifyNetworkError and the configured codes.      *)
Retryable(status) ==
    \/ status = "network"
    \/ IF config.codes = {} THEN status = "5xx" ELSE status \in config.codes

(* The decision on an attempt that failed for status and hint, unless the  *)
(* 401 handler forces a retry: a hint "stop" vetoes.                       *)
RetryFailed(status, hint) == Retryable(status) /\ hint # "stop"

Init ==
    /\ TokenInit
    /\ config \in ConfigType
    /\ call = [c \in Callers |-> IdleCall]
    /\ canceled = {}
    /\ rejected = {}
    /\ dead = {}

-----------------------------------------------------------------------------

(* A call starts with its authentication.  The output counts 401 retries   *)
(* per call, the polling input per Fetch, which goes on to another page    *)
(* only after a page that succeeded.                                       *)
BeginCall(c) ==
    /\ call[c].pc \in {"idle", "returned"}
    /\ \E samefetch \in BOOLEAN :
         /\ samefetch => c \in Pollers /\ call[c].result = "ok"
         /\ Set(c, [IdleCall EXCEPT !.pc = "auth",
                      !.oauth2Retries = IF samefetch THEN call[c].oauth2Retries
                                                     ELSE 0])
    /\ getter' = [getter EXCEPT ![c] = [NotGetting EXCEPT !.pc = "lookup"]]
    /\ UNCHANGED <<cache, flight, issued, ended, config, canceled, rejected,
                   dead>>

(* Fault: the caller stores the token it was given, outside the flight.    *)
ApplyAuth_Stores(c) ==
    /\ call[c].pc = "auth"
    /\ getter[c].pc \in {"got", "failed"}
    /\ Set(c, [call[c] EXCEPT
                 !.pc = IF getter[c].pc = "got" THEN "send" ELSE "returned",
                 !.result = IF getter[c].pc = "got" THEN "none" ELSE "authFailed",
                 !.header = getter[c].token])
    /\ cache' = IF getter[c].pc = "got"
                THEN [token |-> getter[c].token, valid |-> TRUE] ELSE cache
    /\ getter' = [getter EXCEPT ![c] = NotGetting]
    /\ UNCHANGED <<flight, issued, ended, config, canceled, rejected, dead>>

(* ApplyAuth sets the header; a token that could not be had ends the call. *)
ApplyAuth(c) ==
    /\ call[c].pc = "auth"
    /\ getter[c].pc \in {"got", "failed"}
    /\ Set(c, [call[c] EXCEPT
                 !.pc = IF getter[c].pc = "got" THEN "send" ELSE "returned",
                 !.result = IF getter[c].pc = "got" THEN "none" ELSE "authFailed",
                 !.header = getter[c].token])
    /\ getter' = [getter EXCEPT ![c] = NotGetting]
    /\ UNCHANGED <<cache, flight, issued, ended, config, canceled, rejected,
                   dead>>

(* Fault: the limit on retries is not looked at.                           *)
Conclude_NoLimit(c, r, retryable, result) ==
    \/ retryable /\ Set(c, [r EXCEPT !.pc = "wait", !.immediate = @ + 1])
    \/ ~retryable /\ Set(c, [r EXCEPT !.pc = "returned", !.result = result])

(* The end of an attempt that failed: another one after a delay, which the *)
(* modules record only if it is positive, or the end of the call.  The     *)
(* delay is zero for delayMs = 0 and for a Retry-After that has passed.    *)
Conclude(c, r, retryable, result) ==
    \/ /\ retryable
       /\ r.attempt < MaxAttempts
       /\ \/ Set(c, [r EXCEPT !.pc = "wait", !.delays = @ + 1])
          \/ Set(c, [r EXCEPT !.pc = "wait", !.immediate = @ + 1])
    \/ /\ ~(retryable /\ r.attempt < MaxAttempts)
       /\ Set(c, [r EXCEPT !.pc = "returned", !.result = result])

(* An attempt: the context is looked at, the request sent, the answer      *)
(* classified.  The API answers 401 to tokens it does not accept.          *)
Attempt(c) ==
    /\ call[c].pc = "send"
    /\ \/ /\ c \in canceled
          /\ Set(c, [call[c] EXCEPT !.pc = "returned", !.result = "canceled"])
       \/ /\ c \notin canceled
          /\ \E status \in Statuses, hint \in Hints :
               LET r == [call[c] EXCEPT !.made = @ + 1] IN
               /\ status = "network" => hint = "none"
               /\ status # "network" => (status = "401" <=> r.header \in rejected)
               /\ \/ /\ StatusAllowed(c, status)
                     /\ hint = "retry"
                     /\ Conclude(c, r, TRUE, "failed")
                  \/ /\ StatusAllowed(c, status)
                     /\ hint # "retry"
                     /\ \E result \in {"ok", "failed"} :
                          Set(c, [r EXCEPT !.pc = "returned",
                                           !.result = result])
                  \/ /\ ~StatusAllowed(c, status)
                     /\ status = "401"
                     /\ Set(c, [r EXCEPT !.pc = "unauthorized", !.hint = hint])
                  \/ /\ ~StatusAllowed(c, status)
                     /\ status # "401"
                     /\ Conclude(c, r, RetryFailed(status, hint), "failed")
    /\ UNCHANGED <<tokenVars, config, canceled, rejected, dead>>

(* handleOAuth2Unauthorized: invalidate and force a retry, up to a limit,  *)
(* then the typed error once the limit is reached.                         *)
HandleUnauthorized(c) ==
    LET again == call[c].oauth2Retries < MaxOAuth2Retries
        r     == [call[c] EXCEPT !.oauth2Retries = IF again THEN @ + 1 ELSE @]
    IN
    /\ call[c].pc = "unauthorized"
    /\ IF again THEN InvalidateToken ELSE UNCHANGED <<cache, ended>>
    /\ dead' = dead \cup {call[c].header}
    /\ Conclude(c, [r EXCEPT !.hint = "none"],
                again \/ RetryFailed("401", call[c].hint),
                IF r.oauth2Retries >= MaxOAuth2Retries
                THEN "invalidCredentials" ELSE "unauthorized")
    /\ UNCHANGED <<flight, getter, issued, config, canceled, rejected>>

(* The delay passes, or the context is canceled first.  The next attempt   *)
(* clones the request built at the start.                                  *)
Backoff(c) ==
    /\ call[c].pc = "wait"
    /\ \/ Set(c, [call[c] EXCEPT !.pc = "send", !.attempt = @ + 1])
       \/ /\ c \in canceled
          /\ Set(c, [call[c] EXCEPT !.pc = "returned", !.result = "canceled"])
    /\ UNCHANGED <<tokenVars, config, canceled, rejected, dead>>

Cancel(c) ==
    /\ c \notin canceled
    /\ canceled' = canceled \cup {c}
    /\ UNCHANGED <<tokenVars, config, call, rejected, dead>>

(* The API stops accepting a token: revoked, or past its lifetime.         *)
RejectToken(t) ==
    /\ t <= issued
    /\ t \notin rejected
    /\ rejected' = rejected \cup {t}
    /\ UNCHANGED <<tokenVars, config, call, canceled, dead>>

-----------------------------------------------------------------------------

CallStep(c) ==
    \/ GetterStep(c) /\ UNCHANGED <<config, call, canceled, rejected, dead>>
    \/ ApplyAuth(c)
    \/ Attempt(c)
    \/ HandleUnauthorized(c)
    \/ Backoff(c)

SharedFlightStep == FlightStep /\ UNCHANGED <<config, call, canceled, rejected,
                                              dead>>

Next ==
    \/ SharedFlightStep
    \/ ExpireToken /\ UNCHANGED <<config, call, canceled, rejected, dead>>
    \/ \E c \in Callers : BeginCall(c) \/ CallStep(c) \/ Cancel(c)
    \/ \E t \in Tokens : RejectToken(t)

Spec == Init /\ [][Next]_vars

(* A call and a fetch under way go on: requests and delays are bounded by  *)
(* timeouts.                                                               *)
FairSpec ==
    /\ Spec
    /\ WF_vars(SharedFlightStep)
    /\ \A c \in Callers : WF_vars(CallStep(c))

-----------------------------------------------------------------------------

(* Type invariant.                                                         *)
TypeOK ==
    /\ TokenTypeOK
    /\ config \in ConfigType
    /\ call \in [Callers -> CallType]
    /\ canceled \subseteq Callers
    /\ rejected \subseteq 1..issued
    /\ dead \subseteq rejected

(* A token whose 401 was handled never comes back to the cache, so a       *)
(* caller that misses later gets another one: getValidToken stores a token *)
(* inside the flight, before anybody can use it and see it rejected.       *)
RejectedStaysOut == cache.token \notin dead

(* The RetryInfo a finished call leaves (delays + 1 attempts) is short of  *)
(* the attempts made by exactly the retries without a delay, unless the    *)
(* call was canceled.                                                      *)
RetryInfoCounts ==
    \A c \in Callers :
        call[c].pc = "returned" /\ call[c].result \notin {"canceled", "authFailed"}
            => call[c].delays + call[c].immediate + 1 = call[c].made

(* Every call returns, whoever leads the fetch it waits for.               *)
CallReturns ==
    \A c \in Callers : call[c].pc = "auth" ~> call[c].pc = "returned"

-----------------------------------------------------------------------------

(* "It invalidates the cached token and asks the retry loop to try again   *)
(* with a fresh token" (handleOAuth2Unauthorized): the retry does not send *)
(* a token that was handled as rejected.                                   *)
RetryUsesFreshToken ==
    \A c \in Callers :
        call[c].pc = "send" /\ call[c].oauth2Retries > 0 => call[c].header \notin dead
=============================================================================
