------------------------------ MODULE CookieJar ------------------------------
(***************************************************************************)
(* The browser's cookies, which are the only place where the application   *)
(* keeps the state of a disposal: the web tier itself is stateless.  A     *)
(* cookie is named here by its cache key; the hashed name and the          *)
(* encrypted value that EncryptedClientSideSession gives it are one-to-one *)
(* with key and value as long as the session key is the same.              *)
(*                                                                         *)
(* A response carries one instruction per cookie: Keep (no Set-Cookie      *)
(* header), None (a discarding Set-Cookie) or a new value.  When a handler *)
(* writes a name twice the last Set-Cookie wins, so a handler's chain of   *)
(* discardingCookies and withCookie is one function of the key.            *)
(***************************************************************************)

CONSTANTS None, \* the cookie is absent (Option's None)
          Keep  \* the response does not mention the cookie

ASSUME MarksDiffer == None # Keep /\ None # "" /\ Keep # ""

\* The cache keys the handlers read and write.
Keys == {"SetupTradeDetails", "TraderDetails", "BusinessChooseYourAddress",
         "EnterAddressManually", "BruteForcePreventionViewModel",
         "VehicleLookupDetails", "VehicleLookupResponseCode",
         "VehicleLookupFormModel", "DisposeFormModel", "DisposeFormTransactionId",
         "DisposeFormTimestampId", "DisposeFormRegistrationNumber", "DisposeModel",
         "PreventGoingToDisposePage", "DisposeOccurred", "SurveyRequestTriggerDate"}

\* RelatedCacheKeys: the sets of cookies that are discarded together.
DisposeOnlySet == {"DisposeFormModel", "DisposeFormTransactionId",
                   "DisposeFormTimestampId", "DisposeFormRegistrationNumber",
                   "DisposeModel"}

\* Mutant: the response code is forgotten when a disposal is cleared.
DisposeSet_KeepsResponseCode ==
  {"BruteForcePreventionViewModel", "VehicleLookupDetails", "VehicleLookupFormModel"}
    \union DisposeOnlySet

DisposeSet == {"BruteForcePreventionViewModel", "VehicleLookupDetails",
               "VehicleLookupResponseCode", "VehicleLookupFormModel",
               "DisposeFormModel", "DisposeFormTransactionId",
               "DisposeFormTimestampId", "DisposeFormRegistrationNumber",
               "DisposeModel"}

TradeDetailsSet == {"SetupTradeDetails", "TraderDetails",
                    "BusinessChooseYourAddress", "EnterAddressManually"}

FullSet == TradeDetailsSet \union DisposeSet
             \union {"PreventGoingToDisposePage", "DisposeOccurred"}

\* A browser that holds no cookie of the application.
EmptyJar == [k \in Keys |-> None]

\* The instructions of a response that sets no cookie.
Untouched == [k \in Keys |-> Keep]

\* .discardingCookies(ks)
Discarding(ks) == [k \in Keys |-> IF k \in ks THEN None ELSE Keep]

\* .withCookie(key, value) for every key of `new`, after the instructions `ck`.
WithCookies(ck, new) == [k \in Keys |-> IF k \in DOMAIN new THEN new[k] ELSE ck[k]]

\* What the browser makes of a response's Set-Cookie headers.
Received(jar, ck) == [k \in Keys |-> IF ck[k] = Keep THEN jar[k] ELSE ck[k]]

\* getModel / getString find a cookie for every key of ks.
Has(jar, ks) == \A k \in ks : jar[k] # None

==============================================================================
