------------------------------- MODULE Handlers -------------------------------
(***************************************************************************)
(* The controllers of controllers.disposal_of_vehicle as functions of the  *)
(* cookies of the request: each handler decides which page to show or      *)
(* where to redirect, and which cookies the response sets or discards.     *)
(*                                                                         *)
(* Form contents are abstracted to what later steps tell apart: a vehicle  *)
(* stands for a registration mark with its document reference number, a    *)
(* trader for a business name and postcode, and the trader's address for   *)
(* whether it was picked by UPRN.  Cookies of which only the presence      *)
(* matters hold "".                                                        *)
(***************************************************************************)
EXTENDS CookieJar, Naturals

CONSTANTS Vehicles, \* what a user can type into the vehicle-lookup form
          Traders   \* what a user can type into the trade-details form

Pages == {"BeforeYouStart", "SetUpTradeDetails", "BusinessChooseYourAddress",
          "EnterAddressManually", "UprnNotFound", "VehicleLookup",
          "VehicleLookupFailure", "VrmLocked", "Dispose", "DisposeSuccess",
          "DisposeFailure", "DuplicateDisposalError", "MicroServiceError",
          "SoapEndpointError", "Error"}

\* Addresses that answer a GET; the last one only redirects.
Routes == Pages \union {"VehicleLookupBack"}

TraderDetails == [name : Traders, uprn : BOOLEAN]

\* Option's None is none of the values an Option holds.
ASSUME MarksAreNotValues ==
  \A m \in {None, Keep} : m \notin Vehicles \union Traders \union TraderDetails \union Nat

-------------------------------------------------------------------------------
(* Results.  A screen is what the user sees: the page with the data on it  *)
(* that matters here, None where the page does not show it.                *)

Blank(p) == [page |-> p, veh |-> None, trader |-> None, reg |-> None,
             tx |-> None, exit |-> FALSE]

Ok(screen, ck)  == [redirect |-> FALSE, screen |-> screen, cookies |-> ck]
Redirect(p, ck) == [redirect |-> TRUE, screen |-> Blank(p), cookies |-> ck]
Show(p) == Ok(Blank(p), Untouched)
GoTo(p) == Redirect(p, Untouched)

-------------------------------------------------------------------------------
(* Trade details.                                                          *)

BeforeYouStartPresent(c) == Ok(Blank("BeforeYouStart"), Discarding(FullSet))

\* Mutant: keeps an address that was entered before.
SetUpTradeDetailsSubmit_KeepsAddress(n, c) ==
  IF n = None
  THEN Show("SetUpTradeDetails")
  ELSE Redirect(IF Has(c, {"TraderDetails"}) THEN "VehicleLookup"
                ELSE "BusinessChooseYourAddress",
                WithCookies(Untouched, [SetupTradeDetails |-> n]))

\* n is the trader typed into a valid form, None stands for an invalid one.
SetUpTradeDetailsSubmit(n, c) ==
  IF n = None
  THEN Show("SetUpTradeDetails")
  ELSE Redirect("BusinessChooseYourAddress",
                WithCookies(Untouched, [SetupTradeDetails |-> n]))

NeedsSetup(p, c) ==
  IF Has(c, {"SetupTradeDetails"}) THEN Show(p) ELSE GoTo("SetUpTradeDetails")

\* lookupUprn: `found` is the answer of the address-lookup service.
BusinessChooseYourAddressSubmit(found, c) ==
  IF ~Has(c, {"SetupTradeDetails"}) THEN GoTo("SetUpTradeDetails")
  ELSE IF ~found THEN GoTo("UprnNotFound")
  ELSE Redirect("VehicleLookup",
         WithCookies(Discarding({"EnterAddressManually"}),
           [BusinessChooseYourAddress |-> "",
            TraderDetails |-> [name |-> c["SetupTradeDetails"], uprn |-> TRUE]]))

EnterAddressManuallySubmit(c) ==
  IF ~Has(c, {"SetupTradeDetails"}) THEN GoTo("SetUpTradeDetails")
  ELSE Redirect("VehicleLookup",
         WithCookies(Untouched,
           [EnterAddressManually |-> "",
            TraderDetails |-> [name |-> c["SetupTradeDetails"], uprn |-> FALSE]]))

-------------------------------------------------------------------------------
(* Vehicle lookup.                                                         *)

\* Mutant: sends a user who has just disposed of a vehicle to the receipt.
VehicleLookupPresent_ToReceipt(c) ==
  IF Has(c, {"PreventGoingToDisposePage"}) THEN GoTo("DisposeSuccess")
  ELSE IF Has(c, {"TraderDetails"})
  THEN Ok([Blank("VehicleLookup") EXCEPT !.trader = c["TraderDetails"],
             !.exit = Has(c, {"DisposeOccurred"})], Untouched)
  ELSE GoTo("SetUpTradeDetails")

VehicleLookupPresent(c) ==
  IF Has(c, {"TraderDetails"})
  THEN Ok([Blank("VehicleLookup") EXCEPT !.trader = c["TraderDetails"],
             !.exit = Has(c, {"DisposeOccurred"})], Untouched)
  ELSE GoTo("SetUpTradeDetails")

VehicleLookupBack(c) ==
  IF ~Has(c, {"TraderDetails"}) THEN GoTo("SetUpTradeDetails")
  ELSE IF c["TraderDetails"].uprn THEN GoTo("BusinessChooseYourAddress")
  ELSE GoTo("EnterAddressManually")

VehicleLookupExit(c) ==
  Redirect("BeforeYouStart",
           WithCookies(Discarding(FullSet), [SurveyRequestTriggerDate |-> ""]))

\* The brute-force service refused vehicle v.
VrmLockedResult(v) ==
  Redirect("VrmLocked", WithCookies(Untouched, [BruteForcePreventionViewModel |-> v]))

LookupOutcomes == {"found", "notFound", "problem", "throws"}

\* Mutant: the form cookie is not written when the vehicle is found.
LookupVehicleResult_FormOnlyOnFailure(v, outcome) ==
  LET asked == [VehicleLookupFormModel |-> v, BruteForcePreventionViewModel |-> v]
  IN  CASE outcome = "found" ->
             Redirect("Dispose",
               WithCookies(Discarding({"PreventGoingToDisposePage"}),
                           [VehicleLookupDetails |-> v,
                            BruteForcePreventionViewModel |-> v]))
        [] outcome = "notFound" ->
             Redirect("VehicleLookupFailure",
               WithCookies(WithCookies(Untouched, [VehicleLookupResponseCode |-> ""]),
                           asked))
        [] OTHER -> Redirect("MicroServiceError", WithCookies(Untouched, asked))

(***************************************************************************)
(* lookupVehicleResult for vehicle v.  The form and the brute-force        *)
(* cookies are added to whatever result the answer produced, a call that   *)
(* threw sets nothing.                                                     *)
(***************************************************************************)
LookupVehicleResult(v, outcome) ==
  LET asked == [VehicleLookupFormModel |-> v, BruteForcePreventionViewModel |-> v]
  IN  CASE outcome = "found" ->
             Redirect("Dispose",
               WithCookies(WithCookies(Discarding({"PreventGoingToDisposePage"}),
                                       [VehicleLookupDetails |-> v]), asked))
        [] outcome = "notFound" ->
             Redirect("VehicleLookupFailure",
               WithCookies(WithCookies(Untouched, [VehicleLookupResponseCode |-> ""]),
                           asked))
        [] outcome = "problem" ->
             Redirect("MicroServiceError", WithCookies(Untouched, asked))
        [] outcome = "throws" -> GoTo("MicroServiceError")

(***************************************************************************)
(* The discardingCookies at the end of displayVehicleLookupFailure is      *)
(* Play's own and names the cookie by its clear-text key, a name no cookie *)
(* of an encrypted session has: it discards nothing.                       *)
(***************************************************************************)
VehicleLookupFailurePresent(c) ==
  IF Has(c, {"TraderDetails", "BruteForcePreventionViewModel",
             "VehicleLookupFormModel", "VehicleLookupResponseCode"})
  THEN Ok([Blank("VehicleLookupFailure") EXCEPT !.veh = c["VehicleLookupFormModel"]],
          Untouched)
  ELSE GoTo("SetUpTradeDetails")

VrmLockedPresent(c) ==
  IF Has(c, {"BruteForcePreventionViewModel"}) THEN Show("VrmLocked")
  ELSE GoTo("VehicleLookup")

VrmLockedNewDisposal(c) ==
  IF Has(c, {"TraderDetails"}) THEN Redirect("VehicleLookup", Discarding(DisposeSet))
  ELSE GoTo("SetUpTradeDetails")

VrmLockedExit(c) == Redirect("BeforeYouStart", Discarding(FullSet))

-------------------------------------------------------------------------------
(* Disposal.                                                               *)

DisposeScreen(c) ==
  [Blank("Dispose") EXCEPT !.veh = c["VehicleLookupDetails"],
                           !.trader = c["TraderDetails"]]

DisposePresent(c) ==
  IF Has(c, {"PreventGoingToDisposePage"})
  THEN Redirect("VehicleLookup", Discarding({"PreventGoingToDisposePage"}))
  ELSE IF ~Has(c, {"TraderDetails"}) THEN GoTo("SetUpTradeDetails")
  ELSE IF ~Has(c, {"VehicleLookupDetails"}) THEN GoTo("VehicleLookup")
  ELSE Ok(DisposeScreen(c), Untouched)

\* Dispose.submit of a form with errors.
DisposeInvalid(c) ==
  IF Has(c, {"TraderDetails", "VehicleLookupDetails"})
  THEN Ok(DisposeScreen(c), Untouched)
  ELSE GoTo("SetUpTradeDetails")

\* Dispose.submit of a valid form goes on to call the service.
MayDispose(c) ==
  /\ ~Has(c, {"PreventGoingToDisposePage"})
  /\ Has(c, {"TraderDetails", "VehicleLookupFormModel"})

\* Dispose.submit of a valid form that does not.
DisposeRefused(c) ==
  IF Has(c, {"PreventGoingToDisposePage"}) THEN GoTo("VehicleLookup")
  ELSE GoTo("SetUpTradeDetails")

\* Mutant: tells from the chosen-address cookie how the address was entered.
DisposeRequest_ByChosenAddress(c) ==
  [veh |-> c["VehicleLookupFormModel"],
   trader |-> [name |-> c["TraderDetails"].name,
               uprn |-> Has(c, {"BusinessChooseYourAddress"})]]

\* The request buildDisposeMicroServiceRequest makes of the cookies.
DisposeRequest(c) ==
  [veh |-> c["VehicleLookupFormModel"], trader |-> c["TraderDetails"]]

(***************************************************************************)
(* What DisposeServiceImpl.invoke hands to the controller: the HTTP status *)
(* and, for a 200 whose JSON parses, a body with the response code, and    *)
(* whether the transaction id and the registration number are not empty.   *)
(***************************************************************************)
Codes == {"unableToProcessApplication", "duplicateDisposalToTrade", "undefined"}
Bodies == [code : Codes \union {None}, tx : BOOLEAN, reg : BOOLEAN]

Answers == [status : {"ok", "unavailable", "other"}, body : {None}]
             \union [status : {"ok"}, body : Bodies]

HandleResponseCode(code) ==
  CASE code = "unableToProcessApplication" -> "DisposeFailure"
    [] code = "duplicateDisposalToTrade" -> "DuplicateDisposalError"
    [] OTHER -> "MicroServiceError"

HandleHttpStatusCode(status) ==
  CASE status = "ok" -> "DisposeSuccess"
    [] status = "unavailable" -> "SoapEndpointError"
    [] OTHER -> "MicroServiceError"

NextPage(a) ==
  IF a.body # None /\ a.body.code # None
  THEN HandleResponseCode(a.body.code)
  ELSE HandleHttpStatusCode(a.status)

\* Mutant: the registration number is stored under the transaction's key.
StoreResponseInCache_Swapped(a, v, id) ==
  [DisposeFormTransactionId |-> IF a.body # None /\ a.body.reg THEN v ELSE Keep,
   DisposeFormRegistrationNumber |-> IF a.body # None /\ a.body.tx THEN v ELSE Keep]

\* Mutant: does not look whether the answer's identifiers are empty.
StoreResponseInCache_EvenEmpty(a, v, id) ==
  [DisposeFormTransactionId |-> IF a.body # None THEN id ELSE Keep,
   DisposeFormRegistrationNumber |-> IF a.body # None THEN v ELSE Keep]

\* Mutant: keeps the transaction id of failures only.
StoreResponseInCache_FailuresOnly(a, v, id) ==
  [DisposeFormTransactionId |->
     IF a.body # None /\ a.body.code # None /\ a.body.tx THEN id ELSE Keep,
   DisposeFormRegistrationNumber |-> IF a.body # None /\ a.body.reg THEN v ELSE Keep]

\* storeResponseInCache: which identifiers of the answer are kept.
StoreResponseInCache(a, v, id) ==
  [DisposeFormTransactionId |-> IF a.body # None /\ a.body.tx THEN id ELSE Keep,
   DisposeFormRegistrationNumber |-> IF a.body # None /\ a.body.reg THEN v ELSE Keep]

\* Mutant: the cookie that guards the dispose page is not set.
DisposeAnswered_Unguarded(a, v, id) ==
  Redirect(NextPage(a),
    WithCookies(WithCookies(Untouched, StoreResponseInCache(a, v, id)),
      [DisposeModel |-> v, DisposeFormModel |-> "", DisposeFormTimestampId |-> ""]))

\* callMicroService, the service's answer to call number id for vehicle v.
DisposeAnswered(a, v, id) ==
  Redirect(NextPage(a),
    WithCookies(WithCookies(Untouched, StoreResponseInCache(a, v, id)),
      [DisposeModel |-> v, DisposeFormModel |-> "",
       DisposeFormTimestampId |-> "", PreventGoingToDisposePage |-> ""]))

\* callMicroService, the call failed or timed out.
DisposeCallFailed == GoTo("MicroServiceError")

DisposeSuccessPresent(c) ==
  IF Has(c, {"TraderDetails", "DisposeFormModel", "VehicleLookupDetails",
             "DisposeFormTransactionId", "DisposeFormRegistrationNumber"})
  THEN Ok([Blank("DisposeSuccess") EXCEPT
             !.veh = c["VehicleLookupDetails"],
             !.trader = c["TraderDetails"],
             !.reg = c["DisposeFormRegistrationNumber"],
             !.tx = c["DisposeFormTransactionId"]],
          Discarding(DisposeOnlySet))
  ELSE GoTo("VehicleLookup")

DisposeSuccessNewDisposal(c) ==
  IF Has(c, {"TraderDetails", "VehicleLookupDetails"})
  THEN Redirect("VehicleLookup",
         WithCookies(Discarding(DisposeSet),
           [PreventGoingToDisposePage |-> "", DisposeOccurred |-> ""]))
  ELSE GoTo("SetUpTradeDetails")

DisposeSuccessExit(c) ==
  Redirect("BeforeYouStart",
    WithCookies(Discarding(FullSet),
      [PreventGoingToDisposePage |-> "", SurveyRequestTriggerDate |-> ""]))

DisposeFailurePresent(c) ==
  IF Has(c, {"TraderDetails", "DisposeFormModel", "VehicleLookupDetails",
             "DisposeFormTransactionId"})
  THEN Ok([Blank("DisposeFailure") EXCEPT
             !.veh = c["VehicleLookupDetails"],
             !.trader = c["TraderDetails"],
             !.tx = c["DisposeFormTransactionId"]], Untouched)
  ELSE GoTo("SetUpTradeDetails")

\* discardAllCookies: every cookie the request came with.
ErrorSubmit(c) ==
  Redirect("BeforeYouStart", Discarding({k \in Keys : c[k] # None}))

-------------------------------------------------------------------------------
(* The handler behind each GET address, and the pages with fixed content.  *)

Present(r, c) ==
  CASE r = "BeforeYouStart"       -> BeforeYouStartPresent(c)
    [] r = "BusinessChooseYourAddress" -> NeedsSetup(r, c)
    [] r = "EnterAddressManually" -> NeedsSetup(r, c)
    [] r = "VehicleLookup"        -> VehicleLookupPresent(c)
    [] r = "VehicleLookupBack"    -> VehicleLookupBack(c)
    [] r = "VehicleLookupFailure" -> VehicleLookupFailurePresent(c)
    [] r = "VrmLocked"            -> VrmLockedPresent(c)
    [] r = "Dispose"              -> DisposePresent(c)
    [] r = "DisposeSuccess"       -> DisposeSuccessPresent(c)
    [] r = "DisposeFailure"       -> DisposeFailurePresent(c)
    [] OTHER                      -> Show(r)

\* The addresses a page links to.
Links(p) ==
  CASE p = "BeforeYouStart" -> {"SetUpTradeDetails"}
    [] p = "BusinessChooseYourAddress" -> {"EnterAddressManually", "SetUpTradeDetails"}
    [] p = "EnterAddressManually" -> {"BusinessChooseYourAddress"}
    [] p = "UprnNotFound" -> {"EnterAddressManually", "SetUpTradeDetails"}
    [] p = "VehicleLookup" -> {"VehicleLookupBack"}
    [] p \in {"VehicleLookupFailure", "DuplicateDisposalError", "MicroServiceError"} ->
         {"VehicleLookup", "BeforeYouStart"}
    [] p = "Dispose" -> {"VehicleLookup"}
    [] p = "DisposeFailure" -> {"VehicleLookup", "SetUpTradeDetails"}
    [] p = "SoapEndpointError" -> {"Dispose", "BeforeYouStart"}
    [] OTHER -> {}

==============================================================================
