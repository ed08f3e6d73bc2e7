----------------------------- MODULE TokenCache -----------------------------
(***************************************************************************)
(* The OAuth2 tokens of internal/auth: the process-wide token cache and    *)
(* getValidToken, which collapses concurrent misses into one fetch with a  *)
(* singleflight group.  All callers here use the same credentials, hence   *)
(* one cache entry and one key of the group.                               *)
(*                                                                         *)
(* Tokens are numbered in the order the endpoint issues them.  Of time     *)
(* only this matters: whether the expiry computed for the cached token has *)
(* passed.                                                                 *)
(***************************************************************************)
EXTENDS Naturals

CONSTANTS
    Callers,     \* goroutines that need a token
    MaxTokens    \* bound: tokens issued; the endpoint refuses further ones

ASSUME TokenCacheAssumption == MaxTokens \in Nat

VARIABLES
    cache,      \* the entry of sharedTokenCache, and whether get accepts it
    flight,     \* the call in progress in tokenFetchGroup
    getter,     \* where each caller is in getValidToken
    issued,     \* tokens issued so far
    ended       \* valid cache entries that expired or were invalidated

tokenVars == <<cache, flight, getter, issued, ended>>

Tokens    == 1..MaxTokens
NoEntry   == [token |-> 0, valid |-> FALSE]
NoFlight  == [pc |-> "none", token |-> 0]
FlightPcs == {"none", "recheck", "fetching", "storing", "ending"}
GetterPcs == {"out", "lookup", "join", "waiting", "got", "failed"}
NotGetting == [pc |-> "out", token |-> 0]

TokenTypeOK ==
    /\ cache \in [token : Tokens \cup {0}, valid : BOOLEAN]
    /\ flight \in [pc : FlightPcs, token : Tokens \cup {0}]
    /\ getter \in [Callers -> [pc : GetterPcs, token : Tokens \cup {0}]]
    /\ issued \in 0..MaxTokens
    /\ ended \in Nat

TokenInit ==
    /\ cache = NoEntry
    /\ flight = NoFlight
    /\ getter = [c \in Callers |-> NotGetting]
    /\ issued = 0
    /\ ended = 0

-----------------------------------------------------------------------------

(* The first look at the cache in getValidToken.                           *)
GetValidToken(c) ==
    /\ getter[c].pc = "lookup"
    /\ getter' = [getter EXCEPT ![c] =
                    IF cache.valid THEN [pc |-> "got", token |-> cache.token]
                                   ELSE [pc |-> "join", token |-> 0]]
    /\ UNCHANGED <<cache, flight, issued, ended>>

(* Group.Do: start the call for the key or wait for the one in progress.   *)
(* The leader waits like the others; what sets it apart is its context.    *)
JoinFlight(c) ==
    /\ getter[c].pc = "join"
    /\ getter' = [getter EXCEPT ![c].pc = "waiting"]
    /\ flight' = IF flight.pc = "none" THEN [pc |-> "recheck", token |-> 0]
                                       ELSE flight
    /\ UNCHANGED <<cache, issued, ended>>

(* Fault: the leader does not look at the cache again.                     *)
FlightRecheck_Skips ==
    /\ flight.pc = "recheck"
    /\ flight' = [flight EXCEPT !.pc = "fetching"]
    /\ UNCHANGED <<cache, getter, issued, ended>>

(* The leader looks again before paying for a request.                     *)
FlightRecheck ==
    /\ flight.pc = "recheck"
    /\ flight' = IF cache.valid THEN [pc |-> "ending", token |-> cache.token]
                                ELSE [pc |-> "fetching", token |-> 0]
    /\ UNCHANGED <<cache, getter, issued, ended>>

(* fetchToken: the endpoint issues a token, or the request fails: refused, *)
(* unreadable, or the leader's context is canceled.                        *)
FetchToken ==
    /\ flight.pc = "fetching"
    /\ \/ /\ issued < MaxTokens
          /\ issued' = issued + 1
          /\ flight' = [pc |-> "storing", token |-> issued + 1]
       \/ /\ flight' = [pc |-> "ending", token |-> 0]
          /\ UNCHANGED issued
    /\ UNCHANGED <<cache, getter, ended>>

(* put.  A lifetime within tokenExpiryBuffer makes an entry that get never *)
(* accepts.                                                                *)
StoreToken ==
    /\ flight.pc = "storing"
    /\ \E valid \in BOOLEAN :
         /\ cache' = [token |-> flight.token, valid |-> valid]
         /\ ended' = IF valid THEN ended ELSE ended + 1
    /\ flight' = [flight EXCEPT !.pc = "ending"]
    /\ UNCHANGED <<getter, issued>>

(* Fault: an error releases nobody.                                        *)
EndFlight_KeepsWaiters ==
    /\ flight.pc = "ending"
    /\ flight' = NoFlight
    /\ getter' = [c \in Callers |->
                    IF getter[c].pc # "waiting" \/ flight.token = 0
                    THEN getter[c]
                    ELSE [pc |-> "got", token |-> flight.token]]
    /\ UNCHANGED <<cache, issued, ended>>

(* Do returns the token, or the error, to everyone who waited.             *)
EndFlight ==
    /\ flight.pc = "ending"
    /\ flight' = NoFlight
    /\ getter' = [c \in Callers |->
                    IF getter[c].pc # "waiting" THEN getter[c]
                    ELSE IF flight.token = 0 THEN [pc |-> "failed", token |-> 0]
                    ELSE [pc |-> "got", token |-> flight.token]]
    /\ UNCHANGED <<cache, issued, ended>>

(* The expiry computed for the cached token passes.                        *)
ExpireToken ==
    /\ cache.valid
    /\ cache' = [cache EXCEPT !.valid = FALSE]
    /\ ended' = ended + 1
    /\ UNCHANGED <<flight, getter, issued>>

(* InvalidateToken drops the entry, whichever token it holds by now.       *)
InvalidateToken ==
    /\ cache' = NoEntry
    /\ ended' = IF cache.valid THEN ended + 1 ELSE ended

FlightStep == FlightRecheck \/ FetchToken \/ StoreToken \/ EndFlight

GetterStep(c) == GetValidToken(c) \/ JoinFlight(c)

-----------------------------------------------------------------------------

(* "Concurrent misses on the same credentials are collapsed into a single  *)
(* fetch" (getValidToken): however callers, expiry and invalidation        *)
(* interleave, every token requested beyond the first replaces a valid     *)
(* entry that expired or was invalidated.                                  *)
FetchesAreJustified == issued <= ended + 1
=============================================================================
