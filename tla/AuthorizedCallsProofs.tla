----------------------- MODULE AuthorizedCallsProofs -----------------------
(***************************************************************************)
(* Proofs about AuthorizedCalls for every number of callers, tokens and    *)
(* retries.                                                                *)
(***************************************************************************)
EXTENDS AuthorizedCalls, TLAPS

USE TokenCacheAssumption, AuthorizedCallsAssumption
    DEF TokenCacheAssumption, AuthorizedCallsAssumption

-----------------------------------------------------------------------------

Flag(b) == IF b THEN 1 ELSE 0

(* Every token issued is about to be stored, is the valid entry, or had    *)
(* its entry end; and the leader fetches only while no entry is valid.     *)
TokenAccounts ==
    /\ issued = ended + Flag(cache.valid) + Flag(flight.pc = "storing")
    /\ flight.pc \in {"fetching", "storing"} => ~cache.valid

(* What is known of a call r of caller c when n tokens were issued, the    *)
(* tokens of rej are refused and the 401s of those in dd handled.          *)
CallOK(c, r, n, rej, dd) ==
    /\ r \in CallType
    /\ r.header <= n
    /\ r.pc = "unauthorized" => r.header \in rej
    /\ r.pc \in {"send", "unauthorized", "wait"} /\ r.oauth2Retries > 0
         => r.header \in dd
    /\ r.pc = "auth" => r.oauth2Retries = 0
    /\ r.pc = "idle" => r.result = "none"
    /\ r.pc = "returned" /\ r.result = "ok" /\ c \in Pollers
         => r.oauth2Retries = 0
    /\ r.pc \in {"auth", "send"}
         => r.made = r.attempt /\ r.delays + r.immediate = r.attempt
    /\ r.pc = "unauthorized"
         => r.made = r.attempt + 1 /\ r.delays + r.immediate = r.attempt
    /\ r.pc = "wait"
         => /\ r.made = r.attempt + 1
            /\ r.delays + r.immediate = r.attempt + 1
            /\ r.attempt < MaxAttempts
    /\ r.pc = "returned" /\ r.result \notin {"canceled", "authFailed"}
         => r.delays + r.immediate + 1 = r.made

(* A token that is not stored yet is known to nobody but the leader.       *)
FlightTokenIsFresh ==
    flight.pc = "storing" =>
        /\ flight.token = issued
        /\ issued > 0
        /\ cache.token < issued
        /\ \A c \in Callers : getter[c].token < issued /\ call[c].header < issued
        /\ issued \notin dead

TokensWereIssued ==
    /\ cache.token <= issued
    /\ flight.token <= issued
    /\ \A c \in Callers : getter[c].token <= issued

RejectionInv ==
    /\ rejected \subseteq 1..issued
    /\ dead \subseteq rejected

IInv ==
    /\ TokenTypeOK
    /\ config \in ConfigType
    /\ canceled \subseteq Callers
    /\ call \in [Callers -> CallType]
    /\ \A c \in Callers : CallOK(c, call[c], issued, rejected, dead)
    /\ TokenAccounts
    /\ TokensWereIssued
    /\ FlightTokenIsFresh
    /\ RejectionInv
    /\ RejectedStaysOut

-----------------------------------------------------------------------------

(* What is known of a call stays true when tokens are issued, refused or   *)
(* handled.                                                                *)
LEMMA CallOKGrows ==
    ASSUME NEW c, NEW r, NEW n \in Nat, NEW m \in Nat, n <= m,
           NEW rej, NEW rej2, rej \subseteq rej2,
           NEW dd, NEW dd2, dd \subseteq dd2,
           CallOK(c, r, n, rej, dd)
    PROVE  CallOK(c, r, m, rej2, dd2)
  <1>1. r.header \in Nat
    BY DEF CallOK, CallType, Tokens
  <1> QED
    BY <1>1 DEF CallOK

(* A step that writes one call and nothing else keeps the invariant if the *)
(* record it writes satisfies CallOK and keeps the header.                 *)
LEMMA OneCall ==
    ASSUME IInv, NEW c \in Callers, NEW r, Set(c, r),
           CallOK(c, r, issued, rejected, dead),
           r.header = call[c].header,
           UNCHANGED <<tokenVars, config, canceled, rejected, dead>>
    PROVE  IInv'
  <1>1. r \in CallType
    BY DEF CallOK
  <1>2. call' \in [Callers -> CallType]
    BY <1>1 DEF IInv, Set
  <1>3. ASSUME NEW d \in Callers
        PROVE  /\ CallOK(d, call'[d], issued, rejected, dead)
               /\ call'[d].header = call[d].header
    BY <1>3 DEF IInv, Set
  <1>4. FlightTokenIsFresh'
    BY <1>3 DEF IInv, FlightTokenIsFresh, tokenVars
  <1>5. \A d \in Callers : CallOK(d, call[d], issued, rejected, dead)'
    BY <1>3 DEF tokenVars
  <1>6. /\ TokenTypeOK' /\ (config \in ConfigType)' /\ (canceled \subseteq Callers)'
        /\ TokenAccounts' /\ TokensWereIssued' /\ RejectionInv'
        /\ RejectedStaysOut'
    BY DEF IInv, tokenVars, TokenTypeOK, TokenAccounts, TokensWereIssued,
           RejectionInv, RejectedStaysOut
  <1> QED
    BY <1>2, <1>4, <1>5, <1>6 DEF IInv

(* The initial state satisfies the invariant.                              *)
LEMMA InitIInv == Init => IInv
  <1> SUFFICES ASSUME Init PROVE IInv
    OBVIOUS
  <1>1. TokenTypeOK
    BY DEF Init, TokenInit, TokenTypeOK, NoEntry, NoFlight, NotGetting,
           FlightPcs, GetterPcs
  <1>2. \A c \in Callers : CallOK(c, IdleCall, 0, {}, {})
    BY DEF CallOK, IdleCall, CallType, CallPcs, Hints, Results
  <1>3. call \in [Callers -> CallType]
    BY <1>2 DEF Init, CallOK
  <1>4. \A c \in Callers : CallOK(c, call[c], issued, rejected, dead)
    BY <1>2 DEF Init, TokenInit
  <1>5. TokenAccounts /\ TokensWereIssued /\ FlightTokenIsFresh
    BY DEF Init, TokenInit, TokenAccounts, TokensWereIssued,
           FlightTokenIsFresh, NoEntry, NoFlight, NotGetting, Flag
  <1> QED
    BY <1>1, <1>3, <1>4, <1>5
       DEF Init, TokenInit, IInv, RejectionInv, RejectedStaysOut

-----------------------------------------------------------------------------

(* The steps of getValidToken and of the flight: calls do not change.      *)
LEMMA TokenSteps ==
    ASSUME IInv,
           \/ FlightStep
           \/ ExpireToken
           \/ \E c \in Callers : GetterStep(c),
           UNCHANGED <<config, call, canceled, rejected, dead>>
    PROVE  IInv'
  <1> USE DEF IInv
  <1>g. \A c \in Callers :
          getter[c] \in [pc : GetterPcs, token : Tokens \cup {0}]
    BY DEF TokenTypeOK
  <1>0. SUFFICES /\ TokenTypeOK' /\ TokenAccounts' /\ TokensWereIssued'
                 /\ FlightTokenIsFresh' /\ RejectedStaysOut'
                 /\ issued' \in Nat /\ issued <= issued'
    <2>1. issued \in Nat /\ issued' \in Nat /\ issued <= issued'
      BY <1>0 DEF TokenTypeOK
    <2>2. \A c \in Callers : CallOK(c, call[c], issued', rejected, dead)
      BY <2>1, CallOKGrows
    <2>3. RejectionInv'
      BY <2>1 DEF RejectionInv
    <2> QED
      BY <1>0, <2>2, <2>3
  <1>1. ASSUME NEW c \in Callers, GetValidToken(c)
        PROVE  /\ TokenTypeOK' /\ TokenAccounts' /\ TokensWereIssued'
               /\ FlightTokenIsFresh' /\ RejectedStaysOut'
               /\ issued' \in Nat /\ issued <= issued'
    <2>1. getter' \in [Callers -> [pc : GetterPcs, token : Tokens \cup {0}]]
      BY <1>1 DEF GetValidToken, TokenTypeOK, GetterPcs
    <2>2. TokenTypeOK' /\ TokenAccounts' /\ RejectedStaysOut'
      BY <1>1, <2>1 DEF GetValidToken, TokenTypeOK, TokenAccounts,
                        RejectedStaysOut
    <2>3. ASSUME NEW d \in Callers
          PROVE  getter'[d].token \in {getter[d].token, cache.token, 0}
      BY <1>1 DEF GetValidToken, TokenTypeOK
    <2>4. TokensWereIssued' /\ FlightTokenIsFresh'
      BY <1>1, <2>3 DEF GetValidToken, TokensWereIssued, FlightTokenIsFresh,
                        TokenTypeOK
    <2> QED
      BY <1>1, <2>2, <2>4 DEF GetValidToken, TokenTypeOK
  <1>2. ASSUME NEW c \in Callers, JoinFlight(c)
        PROVE  /\ TokenTypeOK' /\ TokenAccounts' /\ TokensWereIssued'
               /\ FlightTokenIsFresh' /\ RejectedStaysOut'
               /\ issued' \in Nat /\ issued <= issued'
    <2>1. getter' \in [Callers -> [pc : GetterPcs, token : Tokens \cup {0}]]
      BY <1>2, <1>g DEF JoinFlight, TokenTypeOK, GetterPcs
    <2>2. flight' = flight \/ (flight.pc = "none" /\ flight'.pc = "recheck"
                                /\ flight' = [pc |-> "recheck", token |-> 0])
      BY <1>2 DEF JoinFlight
    <2>3. TokenTypeOK' /\ TokenAccounts' /\ RejectedStaysOut'
      BY <1>2, <2>1, <2>2 DEF JoinFlight, TokenTypeOK, TokenAccounts,
                              RejectedStaysOut, FlightPcs
    <2>4. \A d \in Callers : getter'[d].token = getter[d].token
      BY <1>2, <1>g DEF JoinFlight, TokenTypeOK
    <2>5. TokensWereIssued' /\ FlightTokenIsFresh'
      BY <1>2, <2>2, <2>4 DEF JoinFlight, TokensWereIssued,
                              FlightTokenIsFresh, TokenTypeOK
    <2> QED
      BY <1>2, <2>3, <2>5 DEF JoinFlight, TokenTypeOK
  <1>3. CASE FlightRecheck
    BY <1>3 DEF FlightRecheck, TokenTypeOK, TokenAccounts, TokensWereIssued,
                FlightTokenIsFresh, RejectedStaysOut, FlightPcs
  <1>4. CASE FetchToken
    <2>1. CASE issued' = issued
      <3>1. flight' = [pc |-> "ending", token |-> 0]
        BY <1>4, <2>1 DEF FetchToken, TokenTypeOK
      <3> QED
        BY <1>4, <2>1, <3>1 DEF FetchToken, TokenTypeOK, TokenAccounts,
           TokensWereIssued, FlightTokenIsFresh, RejectedStaysOut, FlightPcs
    <2>2. CASE issued' # issued
      <3>1. /\ issued' = issued + 1
            /\ issued < MaxTokens
            /\ flight' = [pc |-> "storing", token |-> issued + 1]
            /\ UNCHANGED <<cache, getter, ended>>
        BY <1>4, <2>2 DEF FetchToken
      <3>2. TokenTypeOK'
        BY <3>1 DEF TokenTypeOK, FlightPcs, Tokens
      <3>3. ASSUME NEW c \in Callers
            PROVE  getter[c].token <= issued /\ call[c].header <= issued
        BY DEF TokensWereIssued, CallOK
      <3>4. \A c \in Callers : call[c].header \in Nat /\ getter[c].token \in Nat
        BY <1>g DEF CallType, Tokens
      <3>5. issued + 1 \notin dead
        BY DEF RejectionInv, TokenTypeOK
      <3>6. FlightTokenIsFresh'
        <4> cache.token \in Nat /\ issued \in Nat
          BY DEF TokenTypeOK, Tokens
        <4>1. cache'.token < issued' /\ issued' > 0 /\ issued' \notin dead'
          BY <3>1, <3>5 DEF TokensWereIssued
        <4>2. \A c \in Callers : getter'[c].token < issued'
                                  /\ call'[c].header < issued'
          BY <3>1, <3>3, <3>4
        <4> QED
          BY <3>1, <4>1, <4>2 DEF FlightTokenIsFresh
      <3>7. TokensWereIssued'
        <4> cache.token \in Nat /\ issued \in Nat
          BY DEF TokenTypeOK, Tokens
        <4> QED
          BY <3>1, <3>4 DEF TokensWereIssued
      <3>8. TokenAccounts'
        BY <1>4, <3>1 DEF FetchToken, TokenAccounts, Flag, TokenTypeOK
      <3> QED
        BY <3>1, <3>2, <3>6, <3>7, <3>8 DEF TokenTypeOK, RejectedStaysOut
    <2> QED
      BY <2>1, <2>2
  <1>5. CASE StoreToken
    <2>1. PICK valid \in BOOLEAN :
             /\ cache' = [token |-> flight.token, valid |-> valid]
             /\ ended' = IF valid THEN ended ELSE ended + 1
      BY <1>5 DEF StoreToken
    <2>2. flight' = [pc |-> "ending", token |-> flight.token]
      BY <1>5 DEF StoreToken, TokenTypeOK
    <2>3. TokenTypeOK'
      BY <1>5, <2>1, <2>2 DEF StoreToken, TokenTypeOK, FlightPcs
    <2>4. TokenAccounts'
      BY <1>5, <2>1, <2>2 DEF StoreToken, TokenTypeOK, TokenAccounts, Flag
    <2>5. TokensWereIssued' /\ FlightTokenIsFresh' /\ RejectedStaysOut'
      BY <1>5, <2>1, <2>2 DEF StoreToken, TokenTypeOK, TokensWereIssued,
         FlightTokenIsFresh, RejectedStaysOut
    <2> QED
      BY <1>5, <2>3, <2>4, <2>5 DEF StoreToken, TokenTypeOK
  <1>6. CASE EndFlight
    <2>1. getter' \in [Callers -> [pc : GetterPcs, token : Tokens \cup {0}]]
      BY <1>6, <1>g DEF EndFlight, TokenTypeOK, GetterPcs
    <2>2. \A d \in Callers :
             getter'[d].token \in {getter[d].token, flight.token, 0}
      BY <1>6, <1>g DEF EndFlight
    <2>3. TokenTypeOK' /\ TokenAccounts' /\ RejectedStaysOut'
      BY <1>6, <2>1 DEF EndFlight, TokenTypeOK, TokenAccounts,
                        RejectedStaysOut, NoFlight, FlightPcs
    <2>4. TokensWereIssued' /\ FlightTokenIsFresh'
      BY <1>6, <2>2 DEF EndFlight, TokensWereIssued, FlightTokenIsFresh,
                        TokenTypeOK, NoFlight
    <2> QED
      BY <1>6, <2>3, <2>4 DEF EndFlight, TokenTypeOK
  <1>7. CASE ExpireToken
    <2>1. cache' = [token |-> cache.token, valid |-> FALSE]
      BY <1>7 DEF ExpireToken, TokenTypeOK
    <2>2. TokenTypeOK'
      <3>1. cache.token \in Tokens \cup {0} /\ ended + 1 \in Nat
        BY DEF TokenTypeOK
      <3>2. cache' \in [token : Tokens \cup {0}, valid : BOOLEAN]
        BY <2>1, <3>1
      <3> QED
        BY <1>7, <3>1, <3>2 DEF ExpireToken, TokenTypeOK
    <2>3. TokenAccounts'
      <3>1. flight'.pc = flight.pc /\ cache.valid = TRUE
        BY <1>7 DEF ExpireToken, TokenTypeOK
      <3>2. flight.pc # "storing"
        BY <3>1 DEF TokenAccounts
      <3> QED
        BY <1>7, <2>1, <3>1, <3>2 DEF ExpireToken, TokenTypeOK, TokenAccounts,
                                      Flag
    <2>4. TokensWereIssued' /\ FlightTokenIsFresh' /\ RejectedStaysOut'
      BY <1>7, <2>1 DEF ExpireToken, TokensWereIssued, FlightTokenIsFresh,
                        RejectedStaysOut
    <2> QED
      BY <1>7, <2>2, <2>3, <2>4 DEF ExpireToken, TokenTypeOK
  <1> QED
    BY <1>1, <1>2, <1>3, <1>4, <1>5, <1>6, <1>7 DEF FlightStep, GetterStep

-----------------------------------------------------------------------------

(* A call that starts has made no attempt and no 401 retry.                *)
LEMMA BegunCallOK ==
    ASSUME NEW c, NEW n \in Nat, NEW rej, NEW dd
    PROVE  CallOK(c, [IdleCall EXCEPT !.pc = "auth", !.oauth2Retries = 0],
                  n, rej, dd)
  <1> DEFINE b == [IdleCall EXCEPT !.pc = "auth", !.oauth2Retries = 0]
  <1>1. /\ IdleCall \in CallType /\ IdleCall.header = 0 /\ IdleCall.made = 0
        /\ IdleCall.attempt = 0 /\ IdleCall.delays = 0 /\ IdleCall.immediate = 0
    BY DEF IdleCall, CallType, CallPcs, Hints, Results
  <1>2. b \in CallType /\ b.pc = "auth" /\ b.oauth2Retries = 0
    <2>1. 0 \in 0..MaxOAuth2Retries /\ "auth" \in CallPcs
      BY DEF CallPcs
    <2>2. ASSUME NEW i \in CallType
          PROVE  /\ [i EXCEPT !.pc = "auth", !.oauth2Retries = 0] \in CallType
                 /\ [i EXCEPT !.pc = "auth", !.oauth2Retries = 0].pc = "auth"
                 /\ [i EXCEPT !.pc = "auth", !.oauth2Retries = 0].oauth2Retries = 0
      BY <2>1 DEF CallType
    <2> QED
      BY <1>1, <2>2
  <1>3. /\ b.header = 0 /\ b.made = 0 /\ b.attempt = 0 /\ b.delays = 0
        /\ b.immediate = 0
    BY <1>1 DEF CallType
  <1> HIDE DEF b
  <1>4. CallOK(c, b, n, rej, dd)
    BY <1>2, <1>3 DEF CallOK
  <1> QED
    BY <1>4 DEF b

(* A step that starts a call or hands it its token keeps the invariant.    *)
LEMMA AuthSteps ==
    ASSUME IInv, NEW c \in Callers, BeginCall(c) \/ ApplyAuth(c)
    PROVE  IInv'
  <1> USE DEF IInv
  <1>g. /\ getter \in [Callers -> [pc : GetterPcs, token : Tokens \cup {0}]]
        /\ issued \in Nat
    BY DEF TokenTypeOK
  <1>0. SUFFICES ASSUME NEW r, NEW g, Set(c, r), getter' = [getter EXCEPT ![c] = g],
                        UNCHANGED <<cache, flight, issued, ended, config,
                                    canceled, rejected, dead>>,
                        CallOK(c, r, issued, rejected, dead),
                        r.header \in {0, getter[c].token},
                        g \in [pc : GetterPcs, token : {0}]
                 PROVE  IInv'
    <2>1. CASE BeginCall(c)
      <3>1. PICK samefetch \in BOOLEAN :
              /\ samefetch => c \in Pollers /\ call[c].result = "ok"
              /\ Set(c, [IdleCall EXCEPT !.pc = "auth",
                           !.oauth2Retries = IF samefetch
                              THEN call[c].oauth2Retries ELSE 0])
        BY <2>1 DEF BeginCall
      <3>2. samefetch => call[c].oauth2Retries = 0
        BY <2>1, <3>1 DEF BeginCall, CallOK
      <3>3. Set(c, [IdleCall EXCEPT !.pc = "auth", !.oauth2Retries = 0])
        BY <3>1, <3>2
      <3>4. CallOK(c, [IdleCall EXCEPT !.pc = "auth", !.oauth2Retries = 0],
                   issued, rejected, dead)
        BY <1>g, BegunCallOK
      <3>5. [NotGetting EXCEPT !.pc = "lookup"] \in [pc : GetterPcs, token : {0}]
        BY DEF NotGetting, GetterPcs
      <3> QED
        BY <1>0, <2>1, <3>3, <3>4, <3>5 DEF BeginCall, IdleCall
    <2>2. CASE ApplyAuth(c)
      <3> DEFINE r == [call[c] EXCEPT
             !.pc = IF getter[c].pc = "got" THEN "send" ELSE "returned",
             !.result = IF getter[c].pc = "got" THEN "none" ELSE "authFailed",
             !.header = getter[c].token]
      <3>1. /\ call[c].pc = "auth" /\ call[c] \in CallType
            /\ CallOK(c, call[c], issued, rejected, dead)
        BY <2>2 DEF ApplyAuth
      <3>2. getter[c].token \in Tokens \cup {0} /\ getter[c].token <= issued
        BY <1>g DEF TokensWereIssued
      <3>3. r \in CallType /\ r.header = getter[c].token
        BY <3>1, <3>2 DEF CallType, CallPcs, Results
      <3>4. CallOK(c, r, issued, rejected, dead)
        BY <3>1, <3>2, <3>3 DEF CallOK, CallType
      <3>5. NotGetting \in [pc : GetterPcs, token : {0}]
        BY DEF NotGetting, GetterPcs
      <3> QED
        BY <1>0, <2>2, <3>3, <3>4, <3>5 DEF ApplyAuth
    <2> QED
      BY <2>1, <2>2
  <1>1. r \in CallType
    BY <1>0 DEF CallOK
  <1>2. call' \in [Callers -> CallType]
    BY <1>0, <1>1 DEF Set
  <1>3. \A d \in Callers : CallOK(d, call[d], issued, rejected, dead)'
    BY <1>0 DEF Set
  <1>4. getter' \in [Callers -> [pc : GetterPcs, token : Tokens \cup {0}]]
    BY <1>0, <1>g
  <1>5. TokenTypeOK' /\ TokenAccounts' /\ RejectionInv' /\ RejectedStaysOut'
    BY <1>0, <1>4 DEF TokenTypeOK, TokenAccounts, RejectionInv, RejectedStaysOut
  <1>6. \A d \in Callers : getter'[d].token \in {0, getter[d].token}
    BY <1>0, <1>g
  <1>7. TokensWereIssued'
    BY <1>0, <1>6, <1>g DEF TokensWereIssued
  <1>8. \A d \in Callers :
          call'[d].header \in {0, getter[d].token, call[d].header}
    BY <1>0 DEF Set
  <1>9. FlightTokenIsFresh'
    BY <1>0, <1>6, <1>8, <1>g DEF FlightTokenIsFresh
  <1> QED
    BY <1>0, <1>2, <1>3, <1>5, <1>7, <1>9

(* The end of an attempt that failed: r is the call with this attempt      *)
(* counted.                                                                *)
LEMMA ConcludeOK ==
    ASSUME NEW c \in Callers, NEW r \in CallType, NEW b \in BOOLEAN,
           NEW result \in Results \ {"ok", "canceled", "authFailed"},
           Conclude(c, r, b, result),
           NEW n \in Nat, NEW rej, NEW dd,
           r.header <= n,
           r.made = r.attempt + 1, r.delays + r.immediate = r.attempt,
           r.oauth2Retries > 0 => r.header \in dd
    PROVE  \E s : /\ Set(c, s)
                  /\ s.header = r.header
                  /\ CallOK(c, s, n, rej, dd)
  <1>1. CASE b /\ r.attempt < MaxAttempts
    <2>1. r.delays + 1 \in 0..MaxAttempts /\ r.immediate + 1 \in 0..MaxAttempts
      BY <1>1 DEF CallType
    <2>2. [r EXCEPT !.pc = "wait", !.delays = @ + 1] \in CallType
      BY <2>1 DEF CallType, CallPcs
    <2>3. [r EXCEPT !.pc = "wait", !.immediate = @ + 1] \in CallType
      BY <2>1 DEF CallType, CallPcs
    <2>4. CallOK(c, [r EXCEPT !.pc = "wait", !.delays = @ + 1], n, rej, dd)
      BY <1>1, <2>2 DEF CallOK, CallType
    <2>5. CallOK(c, [r EXCEPT !.pc = "wait", !.immediate = @ + 1], n, rej, dd)
      BY <1>1, <2>3 DEF CallOK, CallType
    <2>6. \/ Set(c, [r EXCEPT !.pc = "wait", !.delays = @ + 1])
          \/ Set(c, [r EXCEPT !.pc = "wait", !.immediate = @ + 1])
      BY <1>1 DEF Conclude
    <2>7. /\ [r EXCEPT !.pc = "wait", !.delays = @ + 1].header = r.header
          /\ [r EXCEPT !.pc = "wait", !.immediate = @ + 1].header = r.header
      BY DEF CallType
    <2> QED
      BY <2>4, <2>5, <2>6, <2>7
  <1>2. CASE ~(b /\ r.attempt < MaxAttempts)
    <2>1. Set(c, [r EXCEPT !.pc = "returned", !.result = result])
      BY <1>2 DEF Conclude
    <2>2. [r EXCEPT !.pc = "returned", !.result = result] \in CallType
      BY DEF CallType, CallPcs
    <2>3. CallOK(c, [r EXCEPT !.pc = "returned", !.result = result], n, rej, dd)
      BY <2>2 DEF CallOK, CallType
    <2>4. [r EXCEPT !.pc = "returned", !.result = result].header = r.header
      BY DEF CallType
    <2> QED
      BY <2>1, <2>3, <2>4
  <1> QED
    BY <1>1, <1>2

-----------------------------------------------------------------------------

(* An attempt keeps the invariant: a handled token is refused again, so a  *)
(* polling call that saw a 401 does not end well.                          *)
LEMMA AttemptStep ==
    ASSUME IInv, NEW c \in Callers, Attempt(c)
    PROVE  IInv'
  <1> DEFINE q == call[c]
             r == [q EXCEPT !.made = @ + 1]
  <1>1. /\ q \in CallType /\ q.pc = "send"
        /\ CallOK(c, q, issued, rejected, dead)
        /\ UNCHANGED <<tokenVars, config, canceled, rejected, dead>>
    BY DEF IInv, Attempt
  <1>n. issued \in Nat
    BY DEF IInv, TokenTypeOK
  <1>2. /\ q.header <= issued /\ q.made = q.attempt
        /\ q.delays + q.immediate = q.attempt
        /\ q.oauth2Retries > 0 => q.header \in dead
    BY <1>1 DEF CallOK
  <1>3. r \in CallType
    BY <1>1, <1>2 DEF CallType
  <1>4. /\ r.header = q.header /\ r.oauth2Retries = q.oauth2Retries
        /\ r.made = r.attempt + 1 /\ r.delays + r.immediate = r.attempt
    BY <1>1, <1>2 DEF CallType
  <1>5. SUFFICES \E s : /\ Set(c, s) /\ s.header = q.header
                        /\ CallOK(c, s, issued, rejected, dead)
    BY <1>1, OneCall
  <1>6. CASE Set(c, [q EXCEPT !.pc = "returned", !.result = "canceled"])
    <2> DEFINE s == [q EXCEPT !.pc = "returned", !.result = "canceled"]
    <2>1. /\ s \in CallType /\ s.pc = "returned" /\ s.result = "canceled"
          /\ s.header = q.header
      BY <1>1 DEF CallType, CallPcs, Results
    <2> HIDE DEF s
    <2>2. CallOK(c, s, issued, rejected, dead)
      BY <1>2, <2>1 DEF CallOK
    <2> QED
      BY <1>6, <2>1, <2>2 DEF s
  <1>7. ASSUME NEW b \in BOOLEAN, Conclude(c, r, b, "failed")
        PROVE  \E s : /\ Set(c, s) /\ s.header = q.header
                      /\ CallOK(c, s, issued, rejected, dead)
    <2>1. "failed" \in Results \ {"ok", "canceled", "authFailed"}
      BY DEF Results
    <2> HIDE DEF r
    <2>2. \E s : /\ Set(c, s) /\ s.header = r.header
                 /\ CallOK(c, s, issued, rejected, dead)
      BY <1>n, <1>2, <1>3, <1>4, <1>7, <2>1, ConcludeOK
    <2> QED
      BY <1>4, <2>2
  <1>8. ASSUME NEW result \in {"ok", "failed"},
               result = "ok" /\ c \in Pollers => q.header \notin rejected,
               Set(c, [r EXCEPT !.pc = "returned", !.result = result])
        PROVE  \E s : /\ Set(c, s) /\ s.header = q.header
                      /\ CallOK(c, s, issued, rejected, dead)
    <2> DEFINE s == [r EXCEPT !.pc = "returned", !.result = result]
    <2> HIDE DEF r
    <2>1. /\ s \in CallType /\ s.pc = "returned" /\ s.result = result
          /\ s.header = q.header /\ s.oauth2Retries = q.oauth2Retries
          /\ s.made = s.attempt + 1 /\ s.delays + s.immediate = s.attempt
      BY <1>3, <1>4 DEF CallType, CallPcs, Results
    <2>2. result = "ok" /\ c \in Pollers => ~(q.oauth2Retries > 0)
      BY <1>2, <1>8 DEF IInv, RejectionInv
    <2> HIDE DEF s
    <2>3. q.oauth2Retries \in Nat /\ s.attempt \in Nat
      BY <1>1, <2>1 DEF CallType
    <2>4. CallOK(c, s, issued, rejected, dead)
      BY <1>2, <2>1, <2>2, <2>3 DEF CallOK
    <2> QED
      BY <1>8, <2>1, <2>4 DEF s
  <1>9. ASSUME NEW hint \in Hints, q.header \in rejected,
               Set(c, [r EXCEPT !.pc = "unauthorized", !.hint = hint])
        PROVE  \E s : /\ Set(c, s) /\ s.header = q.header
                      /\ CallOK(c, s, issued, rejected, dead)
    <2> DEFINE s == [r EXCEPT !.pc = "unauthorized", !.hint = hint]
    <2> HIDE DEF r
    <2>1. /\ s \in CallType /\ s.pc = "unauthorized"
          /\ s.header = q.header /\ s.oauth2Retries = q.oauth2Retries
          /\ s.made = s.attempt + 1 /\ s.delays + s.immediate = s.attempt
      BY <1>3, <1>4 DEF CallType, CallPcs
    <2> HIDE DEF s
    <2>2. CallOK(c, s, issued, rejected, dead)
      BY <1>2, <1>9, <2>1 DEF CallOK
    <2> QED
      BY <1>9, <2>1, <2>2 DEF s
  <1>10. CASE ~Set(c, [q EXCEPT !.pc = "returned", !.result = "canceled"])
    <2>1. PICK status \in Statuses, hint \in Hints :
            /\ status # "network" => (status = "401" <=> r.header \in rejected)
            /\ \/ StatusAllowed(c, status) /\ Conclude(c, r, TRUE, "failed")
               \/ /\ StatusAllowed(c, status)
                  /\ \E result \in {"ok", "failed"} :
                       Set(c, [r EXCEPT !.pc = "returned", !.result = result])
               \/ /\ status = "401"
                  /\ Set(c, [r EXCEPT !.pc = "unauthorized", !.hint = hint])
               \/ Conclude(c, r, RetryFailed(status, hint), "failed")
      BY <1>10 DEF Attempt
    <2>2. CASE Conclude(c, r, TRUE, "failed")
      BY <1>7, <2>2
    <2>3. ASSUME StatusAllowed(c, status), NEW result \in {"ok", "failed"},
                 Set(c, [r EXCEPT !.pc = "returned", !.result = result])
          PROVE  \E s : /\ Set(c, s) /\ s.header = q.header
                        /\ CallOK(c, s, issued, rejected, dead)
      <3>1. c \in Pollers => q.header \notin rejected
        BY <1>4, <2>1, <2>3 DEF StatusAllowed
      <3> QED
        BY <1>8, <2>3, <3>1
    <2>4. CASE status = "401"
               /\ Set(c, [r EXCEPT !.pc = "unauthorized", !.hint = hint])
      <3>1. q.header \in rejected
        BY <1>4, <2>1, <2>4
      <3> QED
        BY <1>9, <2>4, <3>1
    <2>5. CASE Conclude(c, r, RetryFailed(status, hint), "failed")
      <3>1. RetryFailed(status, hint) \in BOOLEAN
        BY Zenon DEF RetryFailed, Retryable
      <3> QED
        BY <1>7, <2>5, <3>1
    <2> QED
      BY <2>1, <2>2, <2>3, <2>4, <2>5
  <1> QED
    BY <1>6, <1>10

(* A delay that passes, or is cut short, keeps the invariant.              *)
LEMMA BackoffStep ==
    ASSUME IInv, NEW c \in Callers, Backoff(c)
    PROVE  IInv'
  <1> DEFINE q == call[c]
  <1>1. /\ q \in CallType /\ q.pc = "wait"
        /\ CallOK(c, q, issued, rejected, dead)
        /\ UNCHANGED <<tokenVars, config, canceled, rejected, dead>>
    BY DEF IInv, Backoff
  <1>2. CASE Set(c, [q EXCEPT !.pc = "send", !.attempt = @ + 1])
    <2> DEFINE s == [q EXCEPT !.pc = "send", !.attempt = @ + 1]
    <2>1. q.attempt < MaxAttempts
      BY <1>1 DEF CallOK
    <2>2. /\ s \in CallType /\ s.pc = "send" /\ s.header = q.header
          /\ s.oauth2Retries = q.oauth2Retries /\ s.attempt = q.attempt + 1
          /\ s.made = q.made /\ s.delays = q.delays /\ s.immediate = q.immediate
      <3>1. q.attempt + 1 \in 0..MaxAttempts
        BY <1>1, <2>1 DEF CallType
      <3> QED
        BY <1>1, <3>1 DEF CallType, CallPcs
    <2> HIDE DEF s
    <2>3. CallOK(c, s, issued, rejected, dead)
      BY <1>1, <2>2 DEF CallOK
    <2> QED
      BY <1>1, <1>2, <2>2, <2>3, OneCall DEF s
  <1>3. CASE Set(c, [q EXCEPT !.pc = "returned", !.result = "canceled"])
    <2> DEFINE s == [q EXCEPT !.pc = "returned", !.result = "canceled"]
    <2>1. /\ s \in CallType /\ s.pc = "returned" /\ s.result = "canceled"
          /\ s.header = q.header
      BY <1>1 DEF CallType, CallPcs, Results
    <2> HIDE DEF s
    <2>2. CallOK(c, s, issued, rejected, dead)
      BY <1>1, <2>1 DEF CallOK
    <2> QED
      BY <1>1, <1>3, <2>1, <2>2, OneCall DEF s
  <1> QED
    BY <1>2, <1>3 DEF Backoff

(* The 401 handler keeps the invariant: either it drops the entry, or the  *)
(* header was handled before.                                              *)
LEMMA UnauthorizedStep ==
    ASSUME IInv, NEW c \in Callers, HandleUnauthorized(c)
    PROVE  IInv'
  <1> DEFINE q     == call[c]
             again == q.oauth2Retries < MaxOAuth2Retries
             r     == [q EXCEPT !.oauth2Retries = IF again THEN @ + 1 ELSE @]
             h     == [r EXCEPT !.hint = "none"]
             b     == again \/ RetryFailed("401", q.hint)
             out   == IF r.oauth2Retries >= MaxOAuth2Retries
                      THEN "invalidCredentials" ELSE "unauthorized"
  <1>1. /\ q \in CallType /\ q.pc = "unauthorized"
        /\ CallOK(c, q, issued, rejected, dead)
    BY DEF IInv, HandleUnauthorized
  <1>2. /\ Conclude(c, h, b, out)
        /\ dead' = dead \cup {q.header}
        /\ UNCHANGED <<flight, getter, issued, config, canceled, rejected>>
        /\ IF again THEN InvalidateToken ELSE UNCHANGED <<cache, ended>>
    BY DEF HandleUnauthorized
  <1>3. /\ q.header <= issued /\ q.header \in rejected
        /\ q.made = q.attempt + 1 /\ q.delays + q.immediate = q.attempt
        /\ q.oauth2Retries > 0 => q.header \in dead
    BY <1>1 DEF CallOK
  <1>4. q.oauth2Retries \in 0..MaxOAuth2Retries
    BY <1>1 DEF CallType
  <1>5. r \in CallType
    BY <1>1, <1>4 DEF CallType
  <1>6. /\ h \in CallType /\ h.header = q.header /\ h.made = q.made
        /\ h.attempt = q.attempt /\ h.delays = q.delays
        /\ h.immediate = q.immediate
    <2>1. /\ r.header = q.header /\ r.made = q.made /\ r.attempt = q.attempt
          /\ r.delays = q.delays /\ r.immediate = q.immediate
      BY <1>1 DEF CallType
    <2> HIDE DEF r
    <2> QED
      BY <1>5, <2>1 DEF CallType, Hints
  <1>7. out \in Results \ {"ok", "canceled", "authFailed"}
    BY DEF Results
  <1>8. b \in BOOLEAN
    BY Zenon DEF RetryFailed, Retryable
  <1>9. issued \in Nat /\ q.header \in dead'
    BY <1>2 DEF IInv, TokenTypeOK
  <1> HIDE DEF h, b, out
  <1>10. PICK s : /\ Set(c, s) /\ s.header = h.header
                  /\ CallOK(c, s, issued, rejected, dead')
    BY <1>2, <1>3, <1>6, <1>7, <1>8, <1>9, ConcludeOK
  <1>11. s \in CallType
    BY <1>10 DEF CallOK
  <1>12. call' \in [Callers -> CallType]
    BY <1>10, <1>11 DEF IInv, Set
  <1>13. ASSUME NEW d \in Callers
         PROVE  /\ CallOK(d, call'[d], issued, rejected, dead')
                /\ call'[d].header = call[d].header
    <2>1. CallOK(d, call[d], issued, rejected, dead')
      BY <1>2, <1>9, CallOKGrows DEF IInv
    <2> QED
      BY <1>6, <1>10, <2>1 DEF IInv, Set
  <1>14. RejectionInv'
    BY <1>2, <1>3 DEF IInv, RejectionInv
  <1>15. \/ cache' = cache /\ ended' = ended /\ q.header \in dead
         \/ /\ cache' = NoEntry
            /\ ended' = IF cache.valid THEN ended + 1 ELSE ended
    BY <1>2, <1>3, <1>4 DEF InvalidateToken
  <1>16. RejectedStaysOut'
    <2>1. 0 \notin dead'
      BY <1>9, <1>14 DEF RejectionInv, IInv, TokenTypeOK
    <2>2. CASE cache' = cache /\ q.header \in dead
      BY <1>2, <2>2 DEF IInv, RejectedStaysOut
    <2>3. CASE cache' = NoEntry
      BY <2>1, <2>3 DEF RejectedStaysOut, NoEntry
    <2> QED
      BY <1>15, <2>2, <2>3
  <1>17. TokenTypeOK'
    <2>0. NoEntry \in [token : Tokens \cup {0}, valid : BOOLEAN]
      BY Zenon DEF NoEntry
    <2>1. cache' \in [token : Tokens \cup {0}, valid : BOOLEAN]
      BY <1>15, <2>0 DEF IInv, TokenTypeOK
    <2>2. ended' \in Nat
      BY <1>15 DEF IInv, TokenTypeOK
    <2> QED
      BY <1>2, <2>1, <2>2 DEF IInv, TokenTypeOK
  <1>18. TokenAccounts'
    <2>1. CASE cache' = cache /\ ended' = ended
      BY <1>2, <2>1 DEF IInv, TokenAccounts
    <2>2. CASE cache.valid /\ cache' = NoEntry /\ ended' = ended + 1
      BY <1>2, <2>2 DEF IInv, TokenAccounts, TokenTypeOK, NoEntry, Flag
    <2>3. CASE ~cache.valid /\ cache' = NoEntry /\ ended' = ended
      BY <1>2, <2>3 DEF IInv, TokenAccounts, TokenTypeOK, NoEntry, Flag
    <2> QED
      BY <1>15, <2>1, <2>2, <2>3
  <1>19. TokensWereIssued'
    BY <1>2, <1>9, <1>15 DEF IInv, TokensWereIssued, NoEntry
  <1>20. FlightTokenIsFresh'
    <2>1. ASSUME flight.pc = "storing"
          PROVE  /\ issued \notin dead' /\ cache'.token < issued
      <3>1. /\ call[c].header < issued /\ issued > 0 /\ cache.token < issued
            /\ issued \notin dead
        BY <2>1 DEF IInv, FlightTokenIsFresh
      <3> QED
        BY <1>2, <1>9, <1>15, <3>1 DEF NoEntry
    <2> QED
      BY <1>2, <1>13, <2>1 DEF IInv, FlightTokenIsFresh
  <1> QED
    BY <1>2, <1>12, <1>13, <1>14, <1>16, <1>17, <1>18, <1>19, <1>20 DEF IInv

(* A token the API stops accepting, and a canceled context.                *)
LEMMA EnvironmentSteps ==
    ASSUME IInv,
           \/ \E c \in Callers : Cancel(c)
           \/ \E t \in Tokens : RejectToken(t)
    PROVE  IInv'
  <1>1. ASSUME NEW c \in Callers, Cancel(c)
        PROVE  IInv'
    BY <1>1 DEF Cancel, IInv, tokenVars, TokenTypeOK, TokenAccounts,
                TokensWereIssued, FlightTokenIsFresh, RejectionInv,
                RejectedStaysOut
  <1>2. ASSUME NEW t \in Tokens, RejectToken(t)
        PROVE  IInv'
    <2>1. issued \in Nat /\ t \in 1..issued
      BY <1>2 DEF RejectToken, IInv, TokenTypeOK, Tokens
    <2>2. RejectionInv'
      BY <1>2, <2>1 DEF RejectToken, IInv, RejectionInv, tokenVars
    <2>3. \A d \in Callers : CallOK(d, call[d], issued, rejected', dead)
      BY <1>2, <2>1, CallOKGrows DEF RejectToken, IInv
    <2> QED
      BY <1>2, <2>2, <2>3 DEF RejectToken, IInv, tokenVars, TokenTypeOK,
         TokenAccounts, TokensWereIssued, FlightTokenIsFresh, RejectedStaysOut
  <1> QED
    BY <1>1, <1>2

(* Every step keeps the invariant.                                         *)
LEMMA NextIInv == IInv /\ [Next]_vars => IInv'
  <1> SUFFICES ASSUME IInv, [Next]_vars PROVE IInv'
    OBVIOUS
  <1>1. CASE SharedFlightStep
    BY <1>1, TokenSteps DEF SharedFlightStep
  <1>2. CASE ExpireToken /\ UNCHANGED <<config, call, canceled, rejected, dead>>
    BY <1>2, TokenSteps
  <1>3. ASSUME NEW c \in Callers, CallStep(c)
        PROVE  IInv'
    <2>1. CASE GetterStep(c)
               /\ UNCHANGED <<config, call, canceled, rejected, dead>>
      BY <2>1, TokenSteps
    <2> QED
      BY <1>3, <2>1, AuthSteps, AttemptStep, UnauthorizedStep, BackoffStep
         DEF CallStep
  <1>4. CASE UNCHANGED vars
    BY <1>4 DEF vars, IInv, tokenVars, TokenTypeOK, TokenAccounts,
                TokensWereIssued, FlightTokenIsFresh, RejectionInv,
                RejectedStaysOut
  <1> QED
    BY <1>1, <1>2, <1>3, <1>4, AuthSteps, EnvironmentSteps DEF Next

(* The invariant holds throughout every behaviour.                         *)
LEMMA SpecIInv == Spec => []IInv
  BY InitIInv, NextIInv, PTL DEF Spec

-----------------------------------------------------------------------------

(* Type correctness of the token cache and of the calls: no call makes     *)
(* more attempts than the first and MaxAttempts retries, whatever the 401  *)
(* handler forces.                                                         *)
THEOREM AuthorizedCallsType == Spec => []TypeOK
  <1>1. IInv => TypeOK
    BY DEF IInv, TypeOK, RejectionInv
  <1> QED
    BY <1>1, SpecIInv, PTL

(* No token is requested without need, however callers, expiry and         *)
(* invalidation interleave around the singleflight group.                  *)
THEOREM TokenFetchesJustified == Spec => []FetchesAreJustified
  <1>1. IInv => FetchesAreJustified
    <2> SUFFICES ASSUME IInv PROVE FetchesAreJustified
      OBVIOUS
    <2>1. /\ issued \in Nat /\ ended \in Nat
          /\ issued = ended + Flag(cache.valid) + Flag(flight.pc = "storing")
          /\ flight.pc = "storing" => ~cache.valid
      BY DEF IInv, TokenTypeOK, TokenAccounts
    <2> QED
      BY <2>1 DEF FetchesAreJustified, Flag
  <1> QED
    BY <1>1, SpecIInv, PTL

(* A token whose 401 was handled never comes back to the cache.            *)
THEOREM RejectedTokenStaysOut == Spec => []RejectedStaysOut
  <1>1. IInv => RejectedStaysOut
    BY DEF IInv
  <1> QED
    BY <1>1, SpecIInv, PTL

(* The retries a finished call reports, and those without a delay, are     *)
(* together the attempts made beyond the first.                            *)
THEOREM RetriesAreCounted == Spec => []RetryInfoCounts
  <1>1. IInv => RetryInfoCounts
    BY DEF IInv, RetryInfoCounts, CallOK
  <1> QED
    BY <1>1, SpecIInv, PTL
=============================================================================
