---------------------------- MODULE JourneyProofs -----------------------------
(***************************************************************************)
(* Journey keeps its types, and a success page always names a vehicle the  *)
(* service has disposed of: for any number of tabs, any vehicles and       *)
(* traders, any bound on the calls and any habits of the user.             *)
(*                                                                         *)
(* Both rest on one lemma per group of handlers: given cookies that are    *)
(* well formed and name, as registration number, only a vehicle of the set *)
(* P, the handler's result is well formed and does so too.  P is Performed *)
(* where the lemmas are used.                                              *)
(***************************************************************************)
EXTENDS Journey, TLAPS

\* Cookies, or the instructions of a response, whose registration number is
\* that of a vehicle of P.
HonestCookies(f, marks, P) ==
  /\ CookieFunction(f, marks)
  /\ f["DisposeFormRegistrationNumber"] \in P \union marks

\* A result that is well formed and shows no success page for a vehicle outside P.
HonestResult(r, P) ==
  /\ ResultOK(r)
  /\ HonestCookies(r.cookies, {None, Keep}, P)
  /\ ~r.redirect /\ r.screen.page = "DisposeSuccess" => r.screen.reg \in P

----------
(* Cookies.                                                                *)

\* The kinds of value, key by key.
LEMMA CookieValues ==
  /\ CookieValue("SetupTradeDetails") = Traders
  /\ CookieValue("TraderDetails") = TraderDetails
  /\ CookieValue("BruteForcePreventionViewModel") = Vehicles
  /\ CookieValue("VehicleLookupDetails") = Vehicles
  /\ CookieValue("VehicleLookupFormModel") = Vehicles
  /\ CookieValue("DisposeModel") = Vehicles
  /\ CookieValue("DisposeFormRegistrationNumber") = Vehicles
  /\ CookieValue("DisposeFormTransactionId") = TxIds
  /\ \A k \in {"BusinessChooseYourAddress", "EnterAddressManually",
              "VehicleLookupResponseCode", "DisposeFormModel",
              "DisposeFormTimestampId", "PreventGoingToDisposePage",
              "DisposeOccurred", "SurveyRequestTriggerDate"} : CookieValue(k) = {""}
  BY DEF CookieValue

\* What a browser holds after a response is well formed again.
LEMMA ReceivedHonest ==
  ASSUME NEW P, NEW j, NEW ck,
         HonestCookies(j, {None}, P), HonestCookies(ck, {None, Keep}, P)
  PROVE  HonestCookies(Received(j, ck), {None}, P)
  BY DEF HonestCookies, CookieFunction, Received, Keys

\* A response that sets no cookie, or discards some, is well formed.
LEMMA DiscardingHonest ==
  ASSUME NEW P, NEW ks
  PROVE  /\ HonestCookies(Untouched, {None, Keep}, P)
         /\ HonestCookies(Discarding(ks), {None, Keep}, P)
  BY DEF HonestCookies, CookieFunction, Untouched, Discarding, Keys

\* Adding cookies of the right kind keeps the instructions well formed.
LEMMA WithCookiesHonest ==
  ASSUME NEW P, NEW ck, NEW new,
         HonestCookies(ck, {None, Keep}, P),
         \A k \in Keys : k \in DOMAIN new => new[k] \in CookieValue(k) \union {None, Keep},
         "DisposeFormRegistrationNumber" \in DOMAIN new =>
           new["DisposeFormRegistrationNumber"] \in P \union {None, Keep}
  PROVE  HonestCookies(WithCookies(ck, new), {None, Keep}, P)
  BY DEF HonestCookies, CookieFunction, WithCookies, Keys

----------
(* Results.                                                                *)

\* A page other than the receipt, and any redirect, are honest.
LEMMA ResultHonest ==
  ASSUME NEW P, NEW ck, HonestCookies(ck, {None, Keep}, P)
  PROVE  /\ \A p \in Pages : HonestResult(Redirect(p, ck), P)
         /\ \A s \in Screens : s.page # "DisposeSuccess" \/ s.reg \in P =>
              HonestResult(Ok(s, ck), P)
         /\ \A p \in Pages : Blank(p) \in Screens /\ Blank(p).page = p
<1>1. \A p \in Pages : Blank(p) \in Screens /\ Blank(p).page = p
  BY DEF Blank, Screens
<1>2. \A p \in Pages : HonestResult(Redirect(p, ck), P)
  BY <1>1 DEF Redirect, HonestResult, ResultOK, HonestCookies
<1>3. \A s \in Screens : s.page # "DisposeSuccess" \/ s.reg \in P =>
        HonestResult(Ok(s, ck), P)
  BY DEF Ok, HonestResult, ResultOK, HonestCookies
<1> QED
  BY <1>1, <1>2, <1>3

\* The handlers that set no typed cookie.
LEMMA PlainHandlers ==
  ASSUME NEW P, NEW ck, HonestCookies(ck, {None, Keep}, P), NEW p \in Pages,
         p # "DisposeSuccess"
  PROVE  /\ HonestResult(Redirect(p, ck), P) /\ HonestResult(GoTo(p), P)
         /\ HonestResult(Ok(Blank(p), ck), P) /\ HonestResult(Show(p), P)
<1>1. HonestCookies(Untouched, {None, Keep}, P)
  BY DiscardingHonest
<1> QED
  BY <1>1, ResultHonest DEF GoTo, Show

\* The trade-details handlers.
LEMMA TradeDetailsHonest ==
  ASSUME NEW P, NEW c, HonestCookies(c, {None}, P)
  PROVE  /\ HonestResult(BeforeYouStartPresent(c), P)
         /\ \A n \in Traders \union {None} : HonestResult(SetUpTradeDetailsSubmit(n, c), P)
         /\ \A p \in Pages \ {"DisposeSuccess"} : HonestResult(NeedsSetup(p, c), P)
         /\ \A b \in BOOLEAN : HonestResult(BusinessChooseYourAddressSubmit(b, c), P)
         /\ HonestResult(EnterAddressManuallySubmit(c), P)
<1>1. HonestResult(BeforeYouStartPresent(c), P)
  BY DiscardingHonest, PlainHandlers DEF BeforeYouStartPresent, Pages
<1>2. ASSUME NEW n \in Traders \union {None}
      PROVE  HonestResult(SetUpTradeDetailsSubmit(n, c), P)
  <2> DEFINE new == [SetupTradeDetails |-> n]
  <2>1. ASSUME n # None
        PROVE  HonestCookies(WithCookies(Untouched, new), {None, Keep}, P)
    <3>1. DOMAIN new = {"SetupTradeDetails"} /\ new["SetupTradeDetails"] \in Traders
      BY <2>1
    <3> HIDE DEF new
    <3> QED
      BY <3>1, DiscardingHonest, WithCookiesHonest, CookieValues
  <2> QED
    BY <2>1, DiscardingHonest, PlainHandlers DEF SetUpTradeDetailsSubmit, Pages
<1>3. ASSUME NEW p \in Pages \ {"DisposeSuccess"}
      PROVE  HonestResult(NeedsSetup(p, c), P)
  BY DiscardingHonest, PlainHandlers DEF NeedsSetup, Pages
<1>4. Has(c, {"SetupTradeDetails"}) => c["SetupTradeDetails"] \in Traders
  BY CookieValues DEF Has, HonestCookies, CookieFunction, Keys
<1>5. ASSUME NEW b \in BOOLEAN
      PROVE  HonestResult(BusinessChooseYourAddressSubmit(b, c), P)
  <2> DEFINE new == [BusinessChooseYourAddress |-> "",
                     TraderDetails |-> [name |-> c["SetupTradeDetails"], uprn |-> TRUE]]
  <2>1. ASSUME Has(c, {"SetupTradeDetails"})
        PROVE  HonestCookies(WithCookies(Discarding({"EnterAddressManually"}), new),
                             {None, Keep}, P)
    <3>1. /\ DOMAIN new = {"BusinessChooseYourAddress", "TraderDetails"}
          /\ new["BusinessChooseYourAddress"] = ""
          /\ new["TraderDetails"] \in TraderDetails
      BY <1>4, <2>1 DEF TraderDetails
    <3> HIDE DEF new
    <3> QED
      BY <3>1, DiscardingHonest, WithCookiesHonest, CookieValues
  <2> QED
    BY <2>1, DiscardingHonest, PlainHandlers DEF BusinessChooseYourAddressSubmit, Pages
<1>6. HonestResult(EnterAddressManuallySubmit(c), P)
  <2> DEFINE new == [EnterAddressManually |-> "",
                     TraderDetails |-> [name |-> c["SetupTradeDetails"], uprn |-> FALSE]]
  <2>1. ASSUME Has(c, {"SetupTradeDetails"})
        PROVE  HonestCookies(WithCookies(Untouched, new), {None, Keep}, P)
    <3>1. /\ DOMAIN new = {"EnterAddressManually", "TraderDetails"}
          /\ new["EnterAddressManually"] = ""
          /\ new["TraderDetails"] \in TraderDetails
      BY <1>4, <2>1 DEF TraderDetails
    <3> HIDE DEF new
    <3> QED
      BY <3>1, DiscardingHonest, WithCookiesHonest, CookieValues
  <2> QED
    BY <2>1, DiscardingHonest, PlainHandlers DEF EnterAddressManuallySubmit, Pages
<1> QED
  BY <1>1, <1>2, <1>3, <1>5, <1>6

\* The vehicle-lookup handlers.
LEMMA LookupHonest ==
  ASSUME NEW P, NEW c, HonestCookies(c, {None}, P)
  PROVE  /\ HonestResult(VehicleLookupPresent(c), P)
         /\ HonestResult(VehicleLookupBack(c), P)
         /\ HonestResult(VehicleLookupExit(c), P)
         /\ \A v \in Vehicles : HonestResult(VrmLockedResult(v), P)
         /\ \A v \in Vehicles, o \in LookupOutcomes : HonestResult(LookupVehicleResult(v, o), P)
         /\ HonestResult(VehicleLookupFailurePresent(c), P)
         /\ HonestResult(VrmLockedPresent(c), P)
         /\ HonestResult(VrmLockedNewDisposal(c), P)
         /\ HonestResult(VrmLockedExit(c), P)
<1>1. HonestResult(VehicleLookupPresent(c), P)
  <2> DEFINE s == [Blank("VehicleLookup") EXCEPT !.trader = c["TraderDetails"],
                     !.exit = Has(c, {"DisposeOccurred"})]
  <2>1. ASSUME Has(c, {"TraderDetails"})
        PROVE  s \in Screens /\ s.page = "VehicleLookup"
    <3>1. c["TraderDetails"] \in TraderDetails
      BY <2>1, CookieValues DEF Has, HonestCookies, CookieFunction, Keys
    <3>2. Has(c, {"DisposeOccurred"}) \in BOOLEAN
      BY DEF Has
    <3> QED
      BY <3>1, <3>2 DEF Blank, Screens, Pages
  <2>2. ASSUME Has(c, {"TraderDetails"})
        PROVE  HonestResult(Ok(s, Untouched), P)
    <3> HIDE DEF s
    <3> QED
      BY <2>1, <2>2, DiscardingHonest, ResultHonest
  <2> QED
    BY <2>2, DiscardingHonest, PlainHandlers DEF VehicleLookupPresent, Pages
<1>2. HonestResult(VehicleLookupBack(c), P)
  BY DiscardingHonest, PlainHandlers DEF VehicleLookupBack, Pages
<1>3. HonestResult(VehicleLookupExit(c), P)
  <2> DEFINE new == [SurveyRequestTriggerDate |-> ""]
  <2>1. DOMAIN new = {"SurveyRequestTriggerDate"} /\ new["SurveyRequestTriggerDate"] = ""
    OBVIOUS
  <2>2. HonestCookies(WithCookies(Discarding(FullSet), new), {None, Keep}, P)
    <3> HIDE DEF new
    <3> QED
      BY <2>1, DiscardingHonest, WithCookiesHonest, CookieValues
  <2> QED
    BY <2>2, PlainHandlers DEF VehicleLookupExit, Pages
<1>4. ASSUME NEW v \in Vehicles
      PROVE  HonestResult(VrmLockedResult(v), P)
  <2> DEFINE new == [BruteForcePreventionViewModel |-> v]
  <2>1. /\ DOMAIN new = {"BruteForcePreventionViewModel"}
        /\ new["BruteForcePreventionViewModel"] \in Vehicles
    OBVIOUS
  <2>2. HonestCookies(WithCookies(Untouched, new), {None, Keep}, P)
    <3> HIDE DEF new
    <3> QED
      BY <2>1, DiscardingHonest, WithCookiesHonest, CookieValues
  <2> QED
    BY <2>2, PlainHandlers DEF VrmLockedResult, Pages
<1>5. ASSUME NEW v \in Vehicles, NEW o \in LookupOutcomes
      PROVE  HonestResult(LookupVehicleResult(v, o), P)
  <2> DEFINE asked == [VehicleLookupFormModel |-> v, BruteForcePreventionViewModel |-> v]
             details == [VehicleLookupDetails |-> v]
             code == [VehicleLookupResponseCode |-> ""]
             prevent == {"PreventGoingToDisposePage"}
             f == WithCookies(WithCookies(Discarding(prevent), details), asked)
             n == WithCookies(WithCookies(Untouched, code), asked)
             q == WithCookies(Untouched, asked)
  <2>1. /\ DOMAIN asked = {"VehicleLookupFormModel", "BruteForcePreventionViewModel"}
        /\ \A k \in DOMAIN asked : asked[k] \in Vehicles
    OBVIOUS
  <2>2. DOMAIN details = {"VehicleLookupDetails"} /\ details["VehicleLookupDetails"] \in Vehicles
    OBVIOUS
  <2>3. DOMAIN code = {"VehicleLookupResponseCode"} /\ code["VehicleLookupResponseCode"] = ""
    OBVIOUS
  <2>4. /\ HonestCookies(f, {None, Keep}, P)
        /\ HonestCookies(n, {None, Keep}, P)
        /\ HonestCookies(q, {None, Keep}, P)
    <3> HIDE DEF asked, details, code, prevent
    <3>1. HonestCookies(WithCookies(Discarding(prevent), details), {None, Keep}, P)
      BY <2>2, DiscardingHonest, WithCookiesHonest, CookieValues
    <3>2. HonestCookies(WithCookies(Untouched, code), {None, Keep}, P)
      BY <2>3, DiscardingHonest, WithCookiesHonest, CookieValues
    <3>3. ASSUME NEW ck, HonestCookies(ck, {None, Keep}, P)
          PROVE  HonestCookies(WithCookies(ck, asked), {None, Keep}, P)
      BY <2>1, <3>3, WithCookiesHonest, CookieValues
    <3> QED
      BY <3>1, <3>2, <3>3, DiscardingHonest
  <2>5. /\ LookupVehicleResult(v, "found") = Redirect("Dispose", f)
        /\ LookupVehicleResult(v, "notFound") = Redirect("VehicleLookupFailure", n)
        /\ LookupVehicleResult(v, "problem") = Redirect("MicroServiceError", q)
        /\ LookupVehicleResult(v, "throws") = GoTo("MicroServiceError")
    BY DEF LookupVehicleResult
  <2> HIDE DEF f, n, q
  <2> QED
    BY <2>4, <2>5, DiscardingHonest, PlainHandlers DEF LookupOutcomes, Pages
<1>6. HonestResult(VehicleLookupFailurePresent(c), P)
  <2> DEFINE s == [Blank("VehicleLookupFailure") EXCEPT !.veh = c["VehicleLookupFormModel"]]
  <2>1. ASSUME Has(c, {"TraderDetails", "BruteForcePreventionViewModel",
                       "VehicleLookupFormModel", "VehicleLookupResponseCode"})
        PROVE  s \in Screens /\ s.page = "VehicleLookupFailure"
    <3>1. c["VehicleLookupFormModel"] \in Vehicles
      BY <2>1, CookieValues DEF Has, HonestCookies, CookieFunction, Keys
    <3> QED
      BY <3>1 DEF Blank, Screens, Pages
  <2> HIDE DEF s
  <2>2. s \in Screens /\ s.page = "VehicleLookupFailure" => HonestResult(Ok(s, Untouched), P)
    BY DiscardingHonest, ResultHonest
  <2> QED
    BY <2>1, <2>2, DiscardingHonest, PlainHandlers
       DEF VehicleLookupFailurePresent, Pages, s
<1>7. /\ HonestResult(VrmLockedPresent(c), P)
      /\ HonestResult(VrmLockedNewDisposal(c), P)
      /\ HonestResult(VrmLockedExit(c), P)
  BY DiscardingHonest, PlainHandlers
     DEF VrmLockedPresent, VrmLockedNewDisposal, VrmLockedExit, Pages
<1> QED
  BY <1>1, <1>2, <1>3, <1>4, <1>5, <1>6, <1>7

\* The handlers of the dispose page and of the pages an answer leads to.
LEMMA DisposeHonest ==
  ASSUME NEW P, NEW c, HonestCookies(c, {None}, P)
  PROVE  /\ HonestResult(DisposePresent(c), P)
         /\ HonestResult(DisposeInvalid(c), P)
         /\ HonestResult(DisposeRefused(c), P)
         /\ HonestResult(DisposeCallFailed, P)
         /\ HonestResult(DisposeSuccessPresent(c), P)
         /\ HonestResult(DisposeSuccessNewDisposal(c), P)
         /\ HonestResult(DisposeSuccessExit(c), P)
         /\ HonestResult(DisposeFailurePresent(c), P)
         /\ HonestResult(ErrorSubmit(c), P)
<1>1. /\ Has(c, {"TraderDetails"}) => c["TraderDetails"] \in TraderDetails
      /\ Has(c, {"VehicleLookupDetails"}) => c["VehicleLookupDetails"] \in Vehicles
      /\ Has(c, {"DisposeFormTransactionId"}) => c["DisposeFormTransactionId"] \in TxIds
      /\ Has(c, {"DisposeFormRegistrationNumber"}) =>
           c["DisposeFormRegistrationNumber"] \in Vehicles \cap P
  BY CookieValues DEF Has, HonestCookies, CookieFunction, Keys
<1>2. ASSUME Has(c, {"TraderDetails"}), Has(c, {"VehicleLookupDetails"})
      PROVE  HonestResult(Ok(DisposeScreen(c), Untouched), P)
  <2>1. DisposeScreen(c) \in Screens /\ DisposeScreen(c).page = "Dispose"
    BY <1>1, <1>2 DEF DisposeScreen, Blank, Screens, Pages
  <2> QED
    BY <2>1, DiscardingHonest, ResultHonest
<1>3. /\ HonestResult(DisposePresent(c), P)
      /\ HonestResult(DisposeInvalid(c), P)
  BY <1>2, DiscardingHonest, PlainHandlers DEF DisposePresent, DisposeInvalid, Has, Pages
<1>4. /\ HonestResult(DisposeRefused(c), P)
      /\ HonestResult(DisposeCallFailed, P)
      /\ HonestResult(ErrorSubmit(c), P)
  BY DiscardingHonest, PlainHandlers DEF DisposeRefused, DisposeCallFailed, ErrorSubmit, Pages
<1>5. HonestResult(DisposeSuccessPresent(c), P)
  <2> DEFINE s == [Blank("DisposeSuccess") EXCEPT
                     !.veh = c["VehicleLookupDetails"],
                     !.trader = c["TraderDetails"],
                     !.reg = c["DisposeFormRegistrationNumber"],
                     !.tx = c["DisposeFormTransactionId"]]
  <2>1. ASSUME Has(c, {"TraderDetails", "DisposeFormModel", "VehicleLookupDetails",
                       "DisposeFormTransactionId", "DisposeFormRegistrationNumber"})
        PROVE  s \in Screens /\ s.reg \in P
    BY <1>1, <2>1 DEF Has, Blank, Screens, Pages
  <2> HIDE DEF s
  <2>2. s \in Screens /\ s.reg \in P => HonestResult(Ok(s, Discarding(DisposeOnlySet)), P)
    BY DiscardingHonest, ResultHonest
  <2> QED
    BY <2>1, <2>2, DiscardingHonest, PlainHandlers DEF DisposeSuccessPresent, Pages, s
<1>6. HonestResult(DisposeSuccessNewDisposal(c), P)
  <2> DEFINE new == [PreventGoingToDisposePage |-> "", DisposeOccurred |-> ""]
  <2>1. /\ DOMAIN new = {"PreventGoingToDisposePage", "DisposeOccurred"}
        /\ new["PreventGoingToDisposePage"] = "" /\ new["DisposeOccurred"] = ""
    OBVIOUS
  <2>2. HonestCookies(WithCookies(Discarding(DisposeSet), new), {None, Keep}, P)
    <3> HIDE DEF new
    <3> QED
      BY <2>1, DiscardingHonest, WithCookiesHonest, CookieValues
  <2> QED
    BY <2>2, DiscardingHonest, PlainHandlers DEF DisposeSuccessNewDisposal, Pages
<1>7. HonestResult(DisposeSuccessExit(c), P)
  <2> DEFINE new == [PreventGoingToDisposePage |-> "", SurveyRequestTriggerDate |-> ""]
  <2>1. /\ DOMAIN new = {"PreventGoingToDisposePage", "SurveyRequestTriggerDate"}
        /\ new["PreventGoingToDisposePage"] = "" /\ new["SurveyRequestTriggerDate"] = ""
    OBVIOUS
  <2>2. HonestCookies(WithCookies(Discarding(FullSet), new), {None, Keep}, P)
    <3> HIDE DEF new
    <3> QED
      BY <2>1, DiscardingHonest, WithCookiesHonest, CookieValues
  <2> QED
    BY <2>2, DiscardingHonest, PlainHandlers DEF DisposeSuccessExit, Pages
<1>8. HonestResult(DisposeFailurePresent(c), P)
  <2> DEFINE s == [Blank("DisposeFailure") EXCEPT
                     !.veh = c["VehicleLookupDetails"],
                     !.trader = c["TraderDetails"],
                     !.tx = c["DisposeFormTransactionId"]]
  <2>1. ASSUME Has(c, {"TraderDetails", "DisposeFormModel", "VehicleLookupDetails",
                       "DisposeFormTransactionId"})
        PROVE  s \in Screens /\ s.page = "DisposeFailure"
    BY <1>1, <2>1 DEF Has, Blank, Screens, Pages
  <2> HIDE DEF s
  <2>2. s \in Screens /\ s.page = "DisposeFailure" => HonestResult(Ok(s, Untouched), P)
    BY DiscardingHonest, ResultHonest
  <2> QED
    BY <2>1, <2>2, DiscardingHonest, PlainHandlers DEF DisposeFailurePresent, Pages, s
<1> QED
  BY <1>3, <1>4, <1>5, <1>6, <1>7, <1>8

\* An answer of the disposal service: a registration number is only in it
\* when the vehicle is one of P.
LEMMA AnswerHonest ==
  ASSUME NEW P, NEW v \in Vehicles, NEW i \in TxIds, NEW a \in Answers,
         a.body # None /\ a.body.reg => v \in P
  PROVE  HonestResult(DisposeAnswered(a, v, i), P)
<1> DEFINE ids == StoreResponseInCache(a, v, i)
           rest == [DisposeModel |-> v, DisposeFormModel |-> "",
                    DisposeFormTimestampId |-> "", PreventGoingToDisposePage |-> ""]
<1>1. /\ DOMAIN ids = {"DisposeFormTransactionId", "DisposeFormRegistrationNumber"}
      /\ ids["DisposeFormTransactionId"] \in TxIds \union {Keep}
      /\ ids["DisposeFormRegistrationNumber"] \in (Vehicles \cap P) \union {Keep}
  BY DEF StoreResponseInCache
<1>2. /\ DOMAIN rest = {"DisposeModel", "DisposeFormModel", "DisposeFormTimestampId",
                        "PreventGoingToDisposePage"}
      /\ rest["DisposeModel"] \in Vehicles /\ rest["DisposeFormModel"] = ""
      /\ rest["DisposeFormTimestampId"] = "" /\ rest["PreventGoingToDisposePage"] = ""
  OBVIOUS
<1>3. NextPage(a) \in Pages
  BY DEF NextPage, HandleResponseCode, HandleHttpStatusCode, Pages
<1>4. HonestCookies(WithCookies(WithCookies(Untouched, ids), rest), {None, Keep}, P)
  <2> HIDE DEF ids, rest
  <2>1. HonestCookies(WithCookies(Untouched, ids), {None, Keep}, P)
    BY <1>1, DiscardingHonest, WithCookiesHonest, CookieValues
  <2> QED
    BY <1>2, <2>1, WithCookiesHonest, CookieValues
<1> QED
  BY <1>3, <1>4, ResultHonest DEF DisposeAnswered

\* Every GET address.
LEMMA PresentHonest ==
  ASSUME NEW P, NEW c, HonestCookies(c, {None}, P), NEW r \in Routes
  PROVE  HonestResult(Present(r, c), P)
<1>1. ASSUME r \in Pages, r # "DisposeSuccess" PROVE HonestResult(Show(r), P)
  BY <1>1, DiscardingHonest, PlainHandlers
<1>2. ASSUME r \in {"BusinessChooseYourAddress", "EnterAddressManually"}
      PROVE  HonestResult(NeedsSetup(r, c), P)
  BY <1>2, TradeDetailsHonest DEF Pages
<1> QED
  BY <1>1, <1>2, TradeDetailsHonest, LookupHonest, DisposeHonest DEF Present, Routes, Pages

----------
(* The inductive invariant.  TypeOK and ReceiptIsHonest are not inductive  *)
(* by themselves: a success page is put together from cookies that an      *)
(* earlier response set, so the jar and every response on its way have to  *)
(* be honest as well.                                                      *)

\* Well-formed state in which no cookie, response or page tells of a disposal
\* that was not performed.
HonestInv ==
  /\ HonestCookies(jar, {None}, Performed)
  /\ screen \in [Tabs -> Screens]
  /\ \A t \in Tabs : screen[t].page = "DisposeSuccess" => screen[t].reg \in Performed
  /\ req = [t \in Tabs |-> req[t]]
  /\ \A t \in Tabs : RequestOK(req[t])
  /\ \A t \in Tabs : req[t].at = "reply" => HonestResult(req[t].result, Performed)
  /\ calls \in Seq(Calls)
  /\ Len(calls) <= MaxCalls
  /\ found \subseteq Vehicles

\* What the invariant is for.
LEMMA HonestInvImplies == HonestInv => TypeOK /\ ReceiptIsHonest
  BY DEF HonestInv, TypeOK, ReceiptIsHonest, HonestCookies

\* A browser without cookies is honest.
LEMMA InitHonest == Init => HonestInv
<1> SUFFICES ASSUME Init PROVE HonestInv
  OBVIOUS
<1>1. HonestCookies(jar, {None}, Performed)
  BY DEF Init, EmptyJar, HonestCookies, CookieFunction, Keys
<1>2. Blank("BeforeYouStart") \in Screens
  BY DEF Blank, Screens, Pages
<1>3. calls \in Seq(Calls) /\ Len(calls) <= MaxCalls /\ found \subseteq Vehicles
  BY MaxCallsAssumption DEF Init
<1> QED
  BY <1>1, <1>2, <1>3 DEF Init, HonestInv, RequestOK, NoRequest, Blank

\* More disposals performed make nothing less honest.
LEMMA MorePerformed ==
  ASSUME NEW P, NEW Q, P \subseteq Q
  PROVE  /\ \A f, m : HonestCookies(f, m, P) => HonestCookies(f, m, Q)
         /\ \A r : HonestResult(r, P) => HonestResult(r, Q)
  BY DEF HonestCookies, HonestResult

\* A request that gets an honest result.
LEMMA RepliedHonest ==
  ASSUME HonestInv, NEW t \in Tabs, NEW r, HonestResult(r, Performed),
         req' = [req EXCEPT ![t] = Reply(r)],
         UNCHANGED <<jar, screen, calls>>, found' \subseteq Vehicles
  PROVE  HonestInv'
<1>1. Performed' = Performed
  BY DEF Performed
<1>2. /\ req' = [u \in Tabs |-> req'[u]]
      /\ \A u \in Tabs : req'[u] = req[u] \/ req'[u] = Reply(r)
  BY DEF HonestInv
<1>3. \A u \in Tabs : RequestOK(req[u])'
  BY <1>2 DEF HonestInv, RequestOK, HonestResult, Reply
<1>4. \A u \in Tabs : req'[u].at = "reply" => HonestResult(req'[u].result, Performed')
  BY <1>1, <1>2 DEF HonestInv, Reply
<1> QED
  BY <1>1, <1>2, <1>3, <1>4 DEF HonestInv

\* The step most handlers take: the answer is all that changes.
LEMMA AnsweredHonest ==
  ASSUME HonestInv, NEW t \in Tabs, NEW r, HonestResult(r, Performed), Answered(t, r)
  PROVE  HonestInv'
<1>1. found' \subseteq Vehicles
  BY DEF Answered, HonestInv
<1> QED
  BY <1>1, RepliedHonest DEF Answered

\* A form that is handled without calling a service.
LEMMA FormHonest ==
  ASSUME HonestInv, NEW t \in Tabs, NEW p, NEW r, HonestResult(r, Performed), Form(t, p, r)
  PROVE  HonestInv'
  BY AnsweredHonest DEF Form

\* The user's steps other than the two that call a service.
LEMMA UserFormsHonest ==
  ASSUME HonestInv, NEW t \in Tabs,
         \/ Visit(t) \/ SubmitSetUpTradeDetails(t) \/ SubmitBusinessChooseYourAddress(t)
         \/ SubmitEnterAddressManually(t) \/ SubmitInvalidVehicleLookup(t)
         \/ ExitVehicleLookup(t) \/ SubmitVrmLocked(t) \/ SubmitDisposeSuccess(t)
         \/ SubmitError(t) \/ SubmitDisposeInVain(t)
  PROVE  HonestInv'
<1>1. HonestCookies(jar, {None}, Performed)
  BY DEF HonestInv
<1>2. CASE Visit(t)
  BY <1>1, <1>2, PresentHonest, AnsweredHonest DEF Visit
<1>3. CASE SubmitSetUpTradeDetails(t)
  BY <1>1, <1>3, TradeDetailsHonest, FormHonest DEF SubmitSetUpTradeDetails
<1>4. HonestResult(NeedsSetup("BusinessChooseYourAddress", jar), Performed)
  BY <1>1, TradeDetailsHonest DEF Pages
<1>5. CASE SubmitBusinessChooseYourAddress(t)
  BY <1>1, <1>4, <1>5, TradeDetailsHonest, FormHonest DEF SubmitBusinessChooseYourAddress
<1>6. HonestResult(NeedsSetup("EnterAddressManually", jar), Performed)
  BY <1>1, TradeDetailsHonest DEF Pages
<1>7. CASE SubmitEnterAddressManually(t)
  BY <1>1, <1>6, <1>7, TradeDetailsHonest, FormHonest DEF SubmitEnterAddressManually
<1>8. CASE SubmitInvalidVehicleLookup(t) \/ ExitVehicleLookup(t) \/ SubmitVrmLocked(t)
  BY <1>1, <1>8, LookupHonest, FormHonest
     DEF SubmitInvalidVehicleLookup, ExitVehicleLookup, SubmitVrmLocked
<1>9. CASE SubmitDisposeSuccess(t) \/ SubmitError(t) \/ SubmitDisposeInVain(t)
  BY <1>1, <1>9, DisposeHonest, FormHonest
     DEF SubmitDisposeSuccess, SubmitError, SubmitDisposeInVain
<1> QED
  BY <1>2, <1>3, <1>5, <1>7, <1>8, <1>9

\* A request that goes on to another stage, without a result yet.
LEMMA StageHonest ==
  ASSUME HonestInv, NEW t \in Tabs, NEW q, q.at # "reply", RequestOK(q)',
         req' = [req EXCEPT ![t] = q],
         UNCHANGED <<jar, screen>>,
         calls' \in Seq(Calls), Len(calls') <= MaxCalls,
         DOMAIN calls \subseteq DOMAIN calls', Performed' = Performed,
         found' \subseteq Vehicles
  PROVE  HonestInv'
<1>1. /\ req' = [u \in Tabs |-> req'[u]]
      /\ \A u \in Tabs : req'[u] = req[u] \/ req'[u] = q
  BY DEF HonestInv
<1>2. \A u \in Tabs : RequestOK(req[u]) => RequestOK(req[u])'
  <2> SUFFICES ASSUME NEW u \in Tabs, RequestOK(req[u]), req'[u] = req[u]
               PROVE  RequestOK(req[u])'
    BY <1>1 DEF HonestInv
  <2> QED
    BY DEF RequestOK
<1>3. \A u \in Tabs : RequestOK(req[u])'
  BY <1>1, <1>2 DEF HonestInv
<1> QED
  BY <1>1, <1>3 DEF HonestInv

\* The stage of a lookup request gives its vehicle, that of a disposal its call.
LEMMA RequestStages ==
  ASSUME HonestInv, NEW t \in Tabs
  PROVE  /\ req[t].at \in {"permit", "lookup"} => req[t].veh \in Vehicles
         /\ req[t].at = "dispose" => req[t].call \in DOMAIN calls /\ req[t].call \in TxIds
<1>1. RequestOK(req[t])
  BY DEF HonestInv
<1>2. DOMAIN calls \subseteq TxIds
  BY MaxCallsAssumption DEF HonestInv, TxIds
<1>3. CASE req[t] = NoRequest
  <2>1. req[t].at = "none"
    BY <1>3 DEF NoRequest
  <2> QED
    BY <2>1
<1>4. ASSUME NEW v \in Vehicles,
             req[t] = [at |-> "permit", veh |-> v] \/ req[t] = [at |-> "lookup", veh |-> v]
      PROVE  req[t].at \in {"permit", "lookup"} /\ req[t].veh \in Vehicles
  BY <1>4
<1>5. ASSUME NEW i \in DOMAIN calls, NEW d \in TraderDetails,
             req[t] = [at |-> "dispose", call |-> i, trader |-> d]
      PROVE  req[t].at = "dispose" /\ req[t].call \in DOMAIN calls
  BY <1>5
<1>6. CASE req[t].at = "reply"
  BY <1>6
<1> QED
  BY <1>1, <1>2, <1>3, <1>4, <1>5, <1>6 DEF RequestOK

\* The steps of a vehicle lookup.
LEMMA LookupStepsHonest ==
  ASSUME HonestInv, NEW t \in Tabs,
         SubmitVehicleLookup(t) \/ Permit(t) \/ Refuse(t) \/ AnswerLookup(t)
  PROVE  HonestInv'
<1>1. /\ calls \in Seq(Calls) /\ Len(calls) <= MaxCalls /\ found \subseteq Vehicles
      /\ HonestCookies(jar, {None}, Performed)
  BY DEF HonestInv
<1>2. ASSUME UNCHANGED calls
      PROVE  Performed' = Performed
  BY <1>2 DEF Performed
<1>3. CASE SubmitVehicleLookup(t)
  <2>1. PICK v \in Vehicles : req' = [req EXCEPT ![t] = [at |-> "permit", veh |-> v]]
    BY <1>3 DEF SubmitVehicleLookup
  <2> DEFINE q == [at |-> "permit", veh |-> v]
  <2>2. q.at # "reply" /\ RequestOK(q)'
    BY DEF RequestOK
  <2> HIDE DEF q
  <2> QED
    BY <1>1, <1>2, <1>3, <2>1, <2>2, StageHonest DEF SubmitVehicleLookup, q
<1>4. CASE Permit(t)
  <2>1. PICK v \in Vehicles : req' = [req EXCEPT ![t] = [at |-> "lookup", veh |-> v]]
    BY <1>4, RequestStages DEF Permit
  <2> DEFINE q == [at |-> "lookup", veh |-> v]
  <2>2. q.at # "reply" /\ RequestOK(q)'
    BY DEF RequestOK
  <2> HIDE DEF q
  <2> QED
    BY <1>1, <1>2, <1>4, <2>1, <2>2, StageHonest DEF Permit, q
<1>5. CASE Refuse(t)
  <2>1. req[t].veh \in Vehicles
    BY <1>5, RequestStages DEF Refuse
  <2>2. HonestResult(GoTo("MicroServiceError"), Performed)
    BY DiscardingHonest, PlainHandlers DEF Pages
  <2> QED
    BY <1>1, <1>5, <2>1, <2>2, LookupHonest, AnsweredHonest DEF Refuse
<1>6. CASE AnswerLookup(t)
  <2>1. req[t].veh \in Vehicles
    BY <1>6, RequestStages DEF AnswerLookup
  <2>2. PICK o \in LookupOutcomes :
          /\ req' = [req EXCEPT ![t] = Reply(LookupVehicleResult(req[t].veh, o))]
          /\ found' = IF o = "found" THEN found \union {req[t].veh} ELSE found
    BY <1>6 DEF AnswerLookup
  <2>3. HonestResult(LookupVehicleResult(req[t].veh, o), Performed)
    BY <1>1, <2>1, LookupHonest
  <2>4. found' \subseteq Vehicles
    BY <1>1, <2>1, <2>2
  <2> QED
    BY <1>6, <2>2, <2>3, <2>4, RepliedHonest DEF AnswerLookup
<1> QED
  BY <1>3, <1>4, <1>5, <1>6

\* A call of the disposal service is on record, with nothing performed yet.
LEMMA SubmitDisposeHonest ==
  ASSUME HonestInv, NEW t \in Tabs, SubmitDispose(t)
  PROVE  HonestInv'
<1>1. PICK v \in Vehicles, d \in TraderDetails :
        v = jar["VehicleLookupFormModel"] /\ d = jar["TraderDetails"]
  BY CookieValues DEF SubmitDispose, MayDispose, Has, HonestInv, HonestCookies,
                      CookieFunction, Keys
<1>2. calls \in Seq(Calls) /\ found \subseteq Vehicles
  BY DEF HonestInv
<1>3. PICK n \in Nat : n = Len(calls)
  BY <1>2
<1> DEFINE q == [at |-> "dispose", call |-> n + 1, trader |-> d]
           c == [veh |-> v, fate |-> "open"]
<1>4. /\ req' = [req EXCEPT ![t] = q]
      /\ calls' = Append(calls, c)
      /\ found' = found \ {v}
      /\ UNCHANGED <<jar, screen>>
      /\ n < MaxCalls
  BY <1>1, <1>3 DEF SubmitDispose, DisposeRequest
<1>5. c \in Calls /\ c.fate = "open" /\ q.at # "reply"
  BY DEF Calls
<1> HIDE DEF c
<1>6. /\ calls' \in Seq(Calls) /\ Len(calls') = n + 1
      /\ DOMAIN calls = 1 .. n /\ DOMAIN calls' = 1 .. n + 1
      /\ calls'[n + 1] = c
      /\ \A i \in DOMAIN calls : calls'[i] = calls[i]
  BY <1>2, <1>3, <1>4, <1>5
<1>7. /\ Len(calls') <= MaxCalls /\ n + 1 \in DOMAIN calls'
      /\ DOMAIN calls' = DOMAIN calls \union {n + 1}
  BY <1>4, <1>6, MaxCallsAssumption
<1>8. Performed' = Performed
  BY <1>5, <1>6, <1>7 DEF Performed
<1>9. RequestOK(q)'
  BY <1>7 DEF RequestOK
<1> HIDE DEF q
<1> QED
  BY <1>2, <1>4, <1>5, <1>6, <1>7, <1>8, <1>9, StageHonest

\* The service settles a call: no fewer vehicles are disposed of than before.
LEMMA FulfilHonest ==
  ASSUME HonestInv, NEW i \in DOMAIN calls, Fulfil(i)
  PROVE  HonestInv'
<1>1. PICK fate \in {"performed", "refused"} : calls' = [calls EXCEPT ![i].fate = fate]
  BY DEF Fulfil
<1>2. calls \in Seq(Calls) /\ Len(calls) <= MaxCalls
  BY DEF HonestInv
<1>3. calls[i] \in Calls /\ calls[i].fate = "open"
  BY <1>2 DEF Fulfil
<1>4. /\ [calls[i] EXCEPT !.fate = fate] \in Calls
      /\ [calls[i] EXCEPT !.fate = fate].veh = calls[i].veh
  BY <1>3 DEF Calls
<1>5. /\ calls' \in Seq(Calls) /\ Len(calls') = Len(calls)
      /\ DOMAIN calls' = DOMAIN calls
      /\ \A j \in DOMAIN calls : j # i => calls'[j] = calls[j]
  BY <1>1, <1>2, <1>4
<1>6. Performed \subseteq Performed'
  <2> SUFFICES ASSUME NEW j \in DOMAIN calls, calls[j].fate = "performed"
               PROVE  j \in DOMAIN calls' /\ calls'[j].fate = "performed"
                        /\ calls'[j].veh = calls[j].veh
    BY DEF Performed
  <2> QED
    BY <1>3, <1>5
<1>7. UNCHANGED <<jar, screen, req, found>>
  BY DEF Fulfil
<1>8. \A u \in Tabs : RequestOK(req[u])'
  BY <1>5, <1>7 DEF HonestInv, RequestOK
<1>9. HonestCookies(jar', {None}, Performed')
  BY <1>6, <1>7, MorePerformed DEF HonestInv
<1>10. \A u \in Tabs : req'[u].at = "reply" => HonestResult(req'[u].result, Performed')
  BY <1>6, <1>7, MorePerformed DEF HonestInv
<1>11. \A u \in Tabs : screen'[u].page = "DisposeSuccess" => screen'[u].reg \in Performed'
  BY <1>6, <1>7 DEF HonestInv
<1> QED
  BY <1>2, <1>5, <1>7, <1>8, <1>9, <1>10, <1>11 DEF HonestInv

\* Fewer cookies are no less honest.
LEMMA ExpireHonest ==
  ASSUME HonestInv, Expire
  PROVE  HonestInv'
<1>1. PICK k \in Keys : jar' = [jar EXCEPT ![k] = None]
  BY DEF Expire
<1>2. UNCHANGED <<screen, req, calls, found>>
  BY DEF Expire
<1>3. Performed' = Performed
  BY <1>2 DEF Performed
<1>4. HonestCookies(jar', {None}, Performed)
  BY <1>1 DEF HonestInv, HonestCookies, CookieFunction
<1>5. \A t \in Tabs : RequestOK(req[t])'
  BY <1>2 DEF HonestInv, RequestOK
<1> QED
  BY <1>2, <1>3, <1>4, <1>5 DEF HonestInv

\* The end of a call: what the service answered, or the failure of the call.
LEMMA DisposeStepsHonest ==
  ASSUME HonestInv, NEW t \in Tabs, AnswerDispose(t) \/ FailDispose(t)
  PROVE  HonestInv'
<1>1. CASE AnswerDispose(t)
  <2> DEFINE i == req[t].call
  <2>1. i \in DOMAIN calls /\ i \in TxIds
    BY <1>1, RequestStages DEF AnswerDispose
  <2>2. PICK a \in AnswersFor(calls[i].fate) : Answered(t, DisposeAnswered(a, calls[i].veh, i))
    BY <1>1 DEF AnswerDispose
  <2>3. calls[i].veh \in Vehicles
    <3>1. calls \in Seq(Calls)
      BY DEF HonestInv
    <3>2. calls[i] \in Calls
      BY <2>1, <3>1
    <3> QED
      BY <3>2 DEF Calls
  <2>4. a \in Answers /\ (a.body # None /\ a.body.reg => calls[i].fate = "performed")
    BY <2>2 DEF AnswersFor
  <2>5. a.body # None /\ a.body.reg => calls[i].veh \in Performed
    BY <2>1, <2>4 DEF Performed
  <2> HIDE DEF i
  <2> QED
    BY <2>5, <2>4, <2>3, <2>2, <2>1, AnswerHonest, AnsweredHonest
<1>2. CASE FailDispose(t)
  <2>1. HonestResult(DisposeCallFailed, Performed)
    BY DisposeHonest DEF HonestInv
  <2> QED
    BY <1>2, <2>1, AnsweredHonest DEF FailDispose
<1> QED
  BY <1>1, <1>2

\* A response that arrives: its cookies, its page, or its redirect.
LEMMA ReceiveHonest ==
  ASSUME HonestInv, NEW t \in Tabs, Receive(t)
  PROVE  HonestInv'
<1> DEFINE result == req[t].result
           jarNow == Received(jar, result.cookies)
           next == Present(result.screen.page, jarNow)
<1>1. HonestResult(result, Performed)
  BY DEF HonestInv, Receive
<1>2. HonestCookies(jarNow, {None}, Performed)
  BY <1>1, ReceivedHonest DEF HonestInv, HonestResult
<1>3. result.screen \in Screens /\ result.screen.page \in Routes
  BY <1>1 DEF HonestResult, ResultOK, Screens, Routes
<1>4. HonestResult(next, Performed)
  BY <1>2, <1>3, PresentHonest
<1>5. /\ jar' = jarNow
      /\ UNCHANGED <<calls, found>>
      /\ \/ result.redirect /\ req' = [req EXCEPT ![t] = Reply(next)] /\ screen' = screen
         \/ /\ ~result.redirect
            /\ req' = [req EXCEPT ![t] = NoRequest]
            /\ screen' = [screen EXCEPT ![t] = result.screen]
  BY DEF Receive
<1> HIDE DEF result, jarNow, next
<1>6. Performed' = Performed
  BY <1>5 DEF Performed
<1>7. HonestCookies(jar', {None}, Performed')
  BY <1>2, <1>5, <1>6
<1>8. /\ screen' \in [Tabs -> Screens]
      /\ \A u \in Tabs : screen'[u].page = "DisposeSuccess" => screen'[u].reg \in Performed'
  BY <1>1, <1>3, <1>5, <1>6 DEF HonestInv, HonestResult
<1>9. /\ req' = [u \in Tabs |-> req'[u]]
      /\ \A u \in Tabs : req'[u] = req[u] \/ req'[u] = Reply(next) \/ req'[u] = NoRequest
  BY <1>5 DEF HonestInv
<1>10. \A u \in Tabs : RequestOK(req[u])'
  BY <1>4, <1>5, <1>9 DEF HonestInv, RequestOK, HonestResult, Reply
<1>11. \A u \in Tabs : req'[u].at = "reply" => HonestResult(req'[u].result, Performed')
  BY <1>4, <1>6, <1>9 DEF HonestInv, Reply, NoRequest
<1>12. calls' \in Seq(Calls) /\ Len(calls') <= MaxCalls /\ found' \subseteq Vehicles
  BY <1>5 DEF HonestInv
<1> QED
  BY <1>7, <1>8, <1>9, <1>10, <1>11, <1>12 DEF HonestInv

----------
(* The theorems.                                                           *)

\* Every step of the system keeps the invariant.
LEMMA NextHonest == HonestInv /\ [Next]_vars => HonestInv'
<1> SUFFICES ASSUME HonestInv, [Next]_vars
             PROVE  HonestInv'
  OBVIOUS
<1>1. ASSUME NEW t \in Tabs, User(t)
      PROVE  HonestInv'
  <2>1. CASE SubmitVehicleLookup(t)
    BY <2>1, LookupStepsHonest
  <2>2. CASE SubmitDispose(t)
    BY <2>2, SubmitDisposeHonest
  <2> QED
    BY <1>1, <2>1, <2>2, UserFormsHonest DEF User
<1>2. ASSUME NEW t \in Tabs, Server(t)
      PROVE  HonestInv'
  BY <1>2, LookupStepsHonest, DisposeStepsHonest, ReceiveHonest DEF Server
<1>3. ASSUME NEW i \in DOMAIN calls, Fulfil(i)
      PROVE  HonestInv'
  BY <1>3, FulfilHonest
<1>4. CASE Expire
  BY <1>4, ExpireHonest
<1>5. CASE UNCHANGED vars
  <2>1. Performed' = Performed
    BY <1>5 DEF vars, Performed
  <2>2. \A t \in Tabs : RequestOK(req[t])'
    BY <1>5 DEF vars, HonestInv, RequestOK
  <2> QED
    BY <1>5, <2>1, <2>2 DEF vars, HonestInv
<1> QED
  BY <1>1, <1>2, <1>3, <1>4, <1>5 DEF Next

\* The strengthened invariant holds in every behaviour.
LEMMA AlwaysHonest == Spec => []HonestInv
  BY InitHonest, NextHonest, PTL DEF Spec

\* Cookies always hold the kind of value their readers expect, and every
\* request is in a stage its handler knows: no handler of
\* controllers.disposal_of_vehicle can write what another cannot read.
THEOREM TypeCorrect == Spec => []TypeOK
  BY AlwaysHonest, HonestInvImplies, PTL

\* DisposeSuccess.present never names a vehicle that the disposal service has
\* not disposed of, whatever the tabs do to the cookies it reads.
THEOREM ReceiptsAreHonest == Spec => []ReceiptIsHonest
  BY AlwaysHonest, HonestInvImplies, PTL

----------
(* Redirects.                                                              *)

\* How many redirects may follow one to page p.
Rank(p) ==
  IF p \in {"Dispose", "VrmLocked", "DisposeSuccess", "VehicleLookupBack"} THEN 2
  ELSE IF p \in {"VehicleLookup", "BusinessChooseYourAddress", "EnterAddressManually",
                 "VehicleLookupFailure", "DisposeFailure"} THEN 1
  ELSE 0

\* Where a page redirects to.
LEMMA RedirectTargets ==
  ASSUME NEW c
  PROVE  /\ ~BeforeYouStartPresent(c).redirect
         /\ \A p : ~Show(p).redirect
         /\ \A p : NeedsSetup(p, c).redirect =>
              NeedsSetup(p, c).screen.page = "SetUpTradeDetails"
         /\ VehicleLookupPresent(c).redirect =>
              VehicleLookupPresent(c).screen.page = "SetUpTradeDetails"
         /\ VehicleLookupFailurePresent(c).redirect =>
              VehicleLookupFailurePresent(c).screen.page = "SetUpTradeDetails"
         /\ DisposeFailurePresent(c).redirect =>
              DisposeFailurePresent(c).screen.page = "SetUpTradeDetails"
         /\ VehicleLookupBack(c).screen.page \in
              {"SetUpTradeDetails", "BusinessChooseYourAddress", "EnterAddressManually"}
         /\ VrmLockedPresent(c).redirect => VrmLockedPresent(c).screen.page = "VehicleLookup"
         /\ DisposePresent(c).redirect =>
              DisposePresent(c).screen.page \in {"SetUpTradeDetails", "VehicleLookup"}
         /\ DisposeSuccessPresent(c).redirect =>
              DisposeSuccessPresent(c).screen.page = "VehicleLookup"
<1> USE DEF Ok, Redirect, Blank, Show, GoTo
<1>1. ~BeforeYouStartPresent(c).redirect /\ \A p : ~Show(p).redirect
  BY DEF BeforeYouStartPresent
<1>2. \A p : NeedsSetup(p, c).redirect => NeedsSetup(p, c).screen.page = "SetUpTradeDetails"
  BY DEF NeedsSetup
<1>3. VehicleLookupPresent(c).redirect => VehicleLookupPresent(c).screen.page = "SetUpTradeDetails"
  BY DEF VehicleLookupPresent
<1>4. VehicleLookupFailurePresent(c).redirect =>
        VehicleLookupFailurePresent(c).screen.page = "SetUpTradeDetails"
  BY DEF VehicleLookupFailurePresent
<1>5. DisposeFailurePresent(c).redirect => DisposeFailurePresent(c).screen.page = "SetUpTradeDetails"
  BY DEF DisposeFailurePresent
<1>6. VehicleLookupBack(c).screen.page \in
        {"SetUpTradeDetails", "BusinessChooseYourAddress", "EnterAddressManually"}
  BY DEF VehicleLookupBack
<1>7. VrmLockedPresent(c).redirect => VrmLockedPresent(c).screen.page = "VehicleLookup"
  BY DEF VrmLockedPresent
<1>8. DisposePresent(c).redirect =>
        DisposePresent(c).screen.page \in {"SetUpTradeDetails", "VehicleLookup"}
  BY DEF DisposePresent
<1>9. DisposeSuccessPresent(c).redirect => DisposeSuccessPresent(c).screen.page = "VehicleLookup"
  BY DEF DisposeSuccessPresent
<1> QED
  BY <1>1, <1>2, <1>3, <1>4, <1>5, <1>6, <1>7, <1>8, <1>9

\* A page only redirects to one of a lower rank, with any cookies.
LEMMA RedirectsLower ==
  ASSUME NEW p, NEW c, Present(p, c).redirect
  PROVE  Rank(Present(p, c).screen.page) < Rank(p)
<1>1. CASE p \in {"BusinessChooseYourAddress", "EnterAddressManually", "VehicleLookup",
                  "VehicleLookupFailure", "DisposeFailure"}
  <2>1. Present(p, c).screen.page = "SetUpTradeDetails"
    BY <1>1, RedirectTargets DEF Present
  <2> QED
    BY <1>1, <2>1 DEF Rank
<1>2. CASE p \in {"VehicleLookupBack", "VrmLocked", "Dispose", "DisposeSuccess"}
  <2>1. Present(p, c).screen.page \in {"SetUpTradeDetails", "VehicleLookup",
                                       "BusinessChooseYourAddress", "EnterAddressManually"}
    BY <1>2, RedirectTargets DEF Present
  <2> QED
    BY <1>2, <2>1 DEF Rank
<1>3. CASE p \notin {"BusinessChooseYourAddress", "EnterAddressManually", "VehicleLookup",
                     "VehicleLookupFailure", "DisposeFailure", "VehicleLookupBack",
                     "VrmLocked", "Dispose", "DisposeSuccess"}
  <2>1. Present(p, c) = BeforeYouStartPresent(c) \/ Present(p, c) = Show(p)
    BY <1>3 DEF Present
  <2> QED
    BY <2>1, RedirectTargets
<1> QED
  BY <1>1, <1>2, <1>3

\* What is left of a chain of redirects.
Left(at) == IF at.result.redirect THEN Rank(at.result.screen.page) + 1 ELSE 0

\* Following a redirect leaves a shorter chain of them, or none.
LEMMA FollowedLower ==
  ASSUME NEW at
  PROVE  /\ Left(at) \in 0 .. 3
         /\ Left(Followed(at)) < Left(at) \/ Left(Followed(at)) = 0
<1>1. \A p : Rank(p) \in 0 .. 2
  BY DEF Rank
<1>2. CASE ~at.result.redirect
  BY <1>1, <1>2 DEF Left, Followed
<1>3. CASE at.result.redirect
  <2> DEFINE p == at.result.screen.page
             jarNow == Received(at.jar, at.result.cookies)
             next == Present(p, jarNow)
  <2>1. Followed(at).result = next
    BY <1>3 DEF Followed
  <2>2. next.redirect => Rank(next.screen.page) < Rank(p)
    BY RedirectsLower
  <2> HIDE DEF next
  <2> QED
    BY <1>1, <1>3, <2>1, <2>2 DEF Left
<1> QED
  BY <1>2, <1>3

\* A reply leads to a page within three redirects whatever cookies the browser has,
\* so that no expiry, tab or late answer makes the pages redirect to each other.
THEOREM RedirectsAlwaysEnd == Spec => []RedirectsEnd
<1>1. ASSUME NEW at
      PROVE  ~Followed(Followed(Followed(at))).result.redirect
  <2> DEFINE a == Followed(at)
             b == Followed(a)
             c == Followed(b)
  <2>1. Left(at) \in 0 .. 3 /\ Left(a) \in 0 .. 3 /\ Left(b) \in 0 .. 3 /\ Left(c) \in 0 .. 3
    BY FollowedLower
  <2>2. /\ Left(a) < Left(at) \/ Left(a) = 0
        /\ Left(b) < Left(a) \/ Left(b) = 0
        /\ Left(c) < Left(b) \/ Left(c) = 0
    BY FollowedLower
  <2>3. Left(c) = 0
    BY <2>1, <2>2
  <2>4. \A p : Rank(p) \in 0 .. 2
    BY DEF Rank
  <2> HIDE DEF a, b, c
  <2>5. ~c.result.redirect
    BY <2>3, <2>4 DEF Left
  <2> QED
    BY <2>5 DEF a, b, c
<1>2. RedirectsEnd
  BY <1>1 DEF RedirectsEnd
<1> QED
  BY <1>2, PTL

(***************************************************************************)
(* What a user is promised who has one tab, whatever links and addresses   *)
(* it goes to: the trader of a dispose page is the one that is submitted;  *)
(* and, unless it leaves a cookie to expire, the cookies are in step and   *)
(* every disposal that succeeded is reported.                              *)
(*                                                                         *)
(* TraderInv and StepInv speak of the page shown, the cookies and the      *)
(* result under way.  The lemmas about handlers say what a browser that    *)
(* has the cookies c makes of a result; nothing in them is about a state.  *)
(***************************************************************************)

\* The cookies of a browser that had c when it received the result r.
Leaves(r, c) == Received(c, r.cookies)

\* The cookies a success page is made of.
ReceiptKeys == {"TraderDetails", "DisposeFormModel", "VehicleLookupDetails",
                "DisposeFormTransactionId", "DisposeFormRegistrationNumber"}

----------
(* What each handler makes of the cookies.                                 *)

\* What the browser makes of the instructions, cookie by cookie.
LEMMA ReceivedAt ==
  ASSUME NEW c, NEW ck, NEW k \in Keys
  PROVE  /\ \A ks : Received(c, Discarding(ks))[k] = IF k \in ks THEN None ELSE c[k]
         /\ \A new : Received(c, WithCookies(ck, new))[k] =
              IF k \notin DOMAIN new THEN Received(c, ck)[k]
            ELSE IF new[k] = Keep THEN c[k] ELSE new[k]
  BY MarksDiffer DEF Received, Untouched, Discarding, WithCookies

\* A response without cookies changes nothing.
LEMMA PlainLeave ==
  ASSUME NEW c, c = [k \in Keys |-> c[k]], NEW p, NEW s
  PROVE  /\ Received(c, Untouched) = c
         /\ Leaves(Show(p), c) = c /\ ~Show(p).redirect /\ Show(p).screen.page = p
         /\ Leaves(GoTo(p), c) = c /\ GoTo(p).redirect /\ GoTo(p).screen.page = p
         /\ Leaves(Ok(s, Untouched), c) = c
         /\ Show(p).cookies = Untouched /\ GoTo(p).cookies = Untouched
<1>1. Received(c, Untouched) = c
  BY DEF Received, Untouched
<1> QED
  BY <1>1 DEF Leaves, Show, GoTo, Ok, Redirect, Blank

\* Cookies that are set hold what was set, the others what the rest of the response
\* makes of them.
LEMMA SetLeave ==
  ASSUME NEW c, NEW ck, NEW new, \A k \in DOMAIN new : new[k] # Keep
  PROVE  /\ \A k \in Keys : k \in DOMAIN new => Received(c, WithCookies(ck, new))[k] = new[k]
         /\ \A k \in Keys : k \notin DOMAIN new =>
              Received(c, WithCookies(ck, new))[k] = Received(c, ck)[k]
  BY DEF Received, WithCookies

\* The trade-details handlers that set cookies.
LEMMA TradeDetailsLeave ==
  ASSUME NEW c, c = [k \in Keys |-> c[k]]
  PROVE  /\ \A k \in Keys : Leaves(BeforeYouStartPresent(c), c)[k] =
              IF k \in FullSet THEN None ELSE c[k]
         /\ \A n \in Traders :
              LET after == Leaves(SetUpTradeDetailsSubmit(n, c), c)
              IN  /\ after["SetupTradeDetails"] = n
                  /\ \A k \in Keys \ {"SetupTradeDetails"} : after[k] = c[k]
<1>1. ASSUME NEW k \in Keys
      PROVE  Leaves(BeforeYouStartPresent(c), c)[k] = IF k \in FullSet THEN None ELSE c[k]
  BY ReceivedAt DEF BeforeYouStartPresent, Leaves, Ok
<1>2. ASSUME NEW n \in Traders, NEW after, after = Leaves(SetUpTradeDetailsSubmit(n, c), c)
      PROVE  /\ after["SetupTradeDetails"] = n
             /\ \A k \in Keys \ {"SetupTradeDetails"} : after[k] = c[k]
  <2> DEFINE new == [SetupTradeDetails |-> n]
  <2>1. DOMAIN new = {"SetupTradeDetails"} /\ new["SetupTradeDetails"] = n
    OBVIOUS
  <2>2. n # Keep /\ n # None
    BY MarksAreNotValues
  <2>3. after = Received(c, WithCookies(Untouched, new))
    BY <1>2, <2>2 DEF SetUpTradeDetailsSubmit, Redirect, Leaves
  <2>4. "SetupTradeDetails" \in Keys
    BY DEF Keys
  <2> HIDE DEF new
  <2> QED
    BY <2>4, <2>3, <2>2, <2>1, SetLeave, PlainLeave
<1> QED
  BY <1>1, <1>2

\* The trader is entered with the name of the trade-details form.
LEMMA AddressLeaves ==
  ASSUME NEW c, c = [k \in Keys |-> c[k]], NEW after,
         Has(c, {"SetupTradeDetails"}), c["SetupTradeDetails"] \in Traders,
         \/ after = Leaves(BusinessChooseYourAddressSubmit(TRUE, c), c)
         \/ after = Leaves(EnterAddressManuallySubmit(c), c)
  PROVE  /\ after["TraderDetails"] \in TraderDetails
         /\ after["TraderDetails"].name = c["SetupTradeDetails"]
         /\ \A k \in Keys \ {"TraderDetails", "BusinessChooseYourAddress", "EnterAddressManually"} :
              after[k] = c[k]
<1> DEFINE chosen == [name |-> c["SetupTradeDetails"], uprn |-> TRUE]
           typed == [name |-> c["SetupTradeDetails"], uprn |-> FALSE]
           new == [BusinessChooseYourAddress |-> "", TraderDetails |-> chosen]
           newer == [EnterAddressManually |-> "", TraderDetails |-> typed]
           others == Keys \ {"TraderDetails", "BusinessChooseYourAddress", "EnterAddressManually"}
<1>1. /\ chosen \in TraderDetails /\ typed \in TraderDetails
      /\ chosen.name = c["SetupTradeDetails"] /\ typed.name = c["SetupTradeDetails"]
  BY DEF TraderDetails
<1>2. /\ chosen # Keep /\ typed # Keep /\ "" # Keep
  BY <1>1, MarksAreNotValues, MarksDiffer
<1>3. \/ after = Received(c, WithCookies(Discarding({"EnterAddressManually"}), new))
      \/ after = Received(c, WithCookies(Untouched, newer))
  BY DEF BusinessChooseYourAddressSubmit, EnterAddressManuallySubmit, Redirect, Leaves
<1> HIDE DEF chosen, typed
<1>4. /\ DOMAIN new = {"BusinessChooseYourAddress", "TraderDetails"}
      /\ new["BusinessChooseYourAddress"] = "" /\ new["TraderDetails"] = chosen
      /\ DOMAIN newer = {"EnterAddressManually", "TraderDetails"}
      /\ newer["EnterAddressManually"] = "" /\ newer["TraderDetails"] = typed
  OBVIOUS
<1> HIDE DEF new, newer
<1>5. /\ \A k \in DOMAIN new : new[k] # Keep
      /\ \A k \in DOMAIN newer : newer[k] # Keep
      /\ new["TraderDetails"] \in {chosen, typed} /\ "TraderDetails" \in DOMAIN new
      /\ newer["TraderDetails"] \in {chosen, typed} /\ "TraderDetails" \in DOMAIN newer
  BY <1>2, <1>4
<1>6. "TraderDetails" \in Keys
  BY DEF Keys
<1>7. after["TraderDetails"] \in {chosen, typed}
  BY <1>3, <1>5, <1>6, SetLeave
<1>8. ASSUME NEW k \in others
      PROVE  after[k] = c[k]
  <2>1. k \notin DOMAIN new /\ k \notin DOMAIN newer /\ k \notin {"EnterAddressManually"}
    BY <1>4
  <2> QED
    BY <1>3, <1>5, <2>1, SetLeave, PlainLeave, ReceivedAt
<1> QED
  BY <1>1, <1>7, <1>8

\* The handlers that only discard cookies, and the exits, which also set some that no
\* page is made of.
LEMMA DiscardingLeave ==
  ASSUME NEW c, c = [k \in Keys |-> c[k]]
  PROVE  /\ \A k \in Keys : Leaves(VrmLockedExit(c), c)[k] = IF k \in FullSet THEN None ELSE c[k]
         /\ \A k \in Keys : Has(c, {"TraderDetails"}) =>
              Leaves(VrmLockedNewDisposal(c), c)[k] = IF k \in DisposeSet THEN None ELSE c[k]
         /\ \A k \in Keys : Has(c, {"PreventGoingToDisposePage"}) =>
              Leaves(DisposePresent(c), c)[k] =
                IF k = "PreventGoingToDisposePage" THEN None ELSE c[k]
         /\ \A k \in Keys : Has(c, ReceiptKeys) =>
              Leaves(DisposeSuccessPresent(c), c)[k] = IF k \in DisposeOnlySet THEN None ELSE c[k]
         /\ \A k \in Keys : Leaves(ErrorSubmit(c), c)[k] = None
<1>1. ASSUME NEW k \in Keys
      PROVE  /\ Leaves(VrmLockedExit(c), c)[k] = IF k \in FullSet THEN None ELSE c[k]
             /\ Has(c, {"TraderDetails"}) =>
                  Leaves(VrmLockedNewDisposal(c), c)[k] = IF k \in DisposeSet THEN None ELSE c[k]
  BY ReceivedAt DEF VrmLockedExit, VrmLockedNewDisposal, Redirect, Leaves
<1>2. ASSUME NEW k \in Keys, Has(c, {"PreventGoingToDisposePage"})
      PROVE  Leaves(DisposePresent(c), c)[k] =
               IF k = "PreventGoingToDisposePage" THEN None ELSE c[k]
  BY <1>2, ReceivedAt DEF DisposePresent, Redirect, Leaves
<1>3. ASSUME NEW k \in Keys, Has(c, ReceiptKeys)
      PROVE  Leaves(DisposeSuccessPresent(c), c)[k] = IF k \in DisposeOnlySet THEN None ELSE c[k]
  BY <1>3, ReceivedAt DEF DisposeSuccessPresent, Ok, Leaves, ReceiptKeys
<1>4. ASSUME NEW k \in Keys
      PROVE  Leaves(ErrorSubmit(c), c)[k] = None
  BY ReceivedAt DEF ErrorSubmit, Redirect, Leaves
<1> QED
  BY <1>1, <1>2, <1>3, <1>4

\* The handlers that end a disposal, and the one that begins another.
LEMMA ExitsLeave ==
  ASSUME NEW c, c = [k \in Keys |-> c[k]], NEW k \in Keys
  PROVE  /\ k # "SurveyRequestTriggerDate" =>
              Leaves(VehicleLookupExit(c), c)[k] = IF k \in FullSet THEN None ELSE c[k]
         /\ k \notin {"PreventGoingToDisposePage", "SurveyRequestTriggerDate"} =>
              Leaves(DisposeSuccessExit(c), c)[k] = IF k \in FullSet THEN None ELSE c[k]
         /\ Has(c, {"TraderDetails", "VehicleLookupDetails"}) /\
            k \notin {"PreventGoingToDisposePage", "DisposeOccurred"} =>
              Leaves(DisposeSuccessNewDisposal(c), c)[k] =
                IF k \in DisposeSet THEN None ELSE c[k]
<1> DEFINE survey == [SurveyRequestTriggerDate |-> ""]
           exit == [PreventGoingToDisposePage |-> "", SurveyRequestTriggerDate |-> ""]
           next == [PreventGoingToDisposePage |-> "", DisposeOccurred |-> ""]
<1>1. /\ DOMAIN survey = {"SurveyRequestTriggerDate"}
      /\ DOMAIN exit = {"PreventGoingToDisposePage", "SurveyRequestTriggerDate"}
      /\ DOMAIN next = {"PreventGoingToDisposePage", "DisposeOccurred"}
      /\ survey["SurveyRequestTriggerDate"] = ""
      /\ exit["PreventGoingToDisposePage"] = "" /\ exit["SurveyRequestTriggerDate"] = ""
      /\ next["PreventGoingToDisposePage"] = "" /\ next["DisposeOccurred"] = ""
  OBVIOUS
<1>2. /\ VehicleLookupExit(c).cookies = WithCookies(Discarding(FullSet), survey)
      /\ DisposeSuccessExit(c).cookies = WithCookies(Discarding(FullSet), exit)
      /\ Has(c, {"TraderDetails", "VehicleLookupDetails"}) =>
           DisposeSuccessNewDisposal(c).cookies = WithCookies(Discarding(DisposeSet), next)
  BY DEF VehicleLookupExit, DisposeSuccessExit, DisposeSuccessNewDisposal, Redirect
<1> HIDE DEF survey, exit, next
<1>3. /\ \A i \in DOMAIN survey : survey[i] # Keep
      /\ \A i \in DOMAIN exit : exit[i] # Keep
      /\ \A i \in DOMAIN next : next[i] # Keep
  BY <1>1, MarksDiffer
<1>4. /\ k \notin DOMAIN survey =>
           Received(c, WithCookies(Discarding(FullSet), survey))[k] =
             IF k \in FullSet THEN None ELSE c[k]
      /\ k \notin DOMAIN exit =>
           Received(c, WithCookies(Discarding(FullSet), exit))[k] =
             IF k \in FullSet THEN None ELSE c[k]
      /\ k \notin DOMAIN next =>
           Received(c, WithCookies(Discarding(DisposeSet), next))[k] =
             IF k \in DisposeSet THEN None ELSE c[k]
  BY <1>3, ReceivedAt, SetLeave
<1> QED
  BY <1>1, <1>2, <1>4 DEF Leaves

\* The answers of the brute-force and lookup services.
LEMMA LookupLeaves ==
  ASSUME NEW c, c = [k \in Keys |-> c[k]], NEW v \in Vehicles, NEW o \in LookupOutcomes, NEW after,
         after = Leaves(LookupVehicleResult(v, o), c)
  PROVE  /\ o = "throws" => after = c
         /\ o # "throws" =>
              /\ after["VehicleLookupFormModel"] = v
              /\ after["BruteForcePreventionViewModel"] = v
              /\ after["VehicleLookupDetails"] = IF o = "found" THEN v ELSE c["VehicleLookupDetails"]
              /\ after["PreventGoingToDisposePage"] =
                   IF o = "found" THEN None ELSE c["PreventGoingToDisposePage"]
         /\ \A k \in Keys \ {"VehicleLookupFormModel", "BruteForcePreventionViewModel",
                             "VehicleLookupDetails", "VehicleLookupResponseCode",
                             "PreventGoingToDisposePage"} : after[k] = c[k]
<1> DEFINE asked == [VehicleLookupFormModel |-> v, BruteForcePreventionViewModel |-> v]
           details == [VehicleLookupDetails |-> v]
           code == [VehicleLookupResponseCode |-> ""]
           prevent == {"PreventGoingToDisposePage"}
<1>1. v # Keep /\ "" # Keep
  BY MarksAreNotValues, MarksDiffer
<1>2. /\ DOMAIN asked = {"VehicleLookupFormModel", "BruteForcePreventionViewModel"}
      /\ DOMAIN details = {"VehicleLookupDetails"}
      /\ DOMAIN code = {"VehicleLookupResponseCode"}
      /\ asked["VehicleLookupFormModel"] = v /\ asked["BruteForcePreventionViewModel"] = v
      /\ details["VehicleLookupDetails"] = v
      /\ code["VehicleLookupResponseCode"] = ""
  OBVIOUS
<1>3. /\ o = "throws" => after = Received(c, Untouched)
      /\ o = "found" =>
           after = Received(c, WithCookies(WithCookies(Discarding(prevent), details), asked))
      /\ o = "notFound" => after = Received(c, WithCookies(WithCookies(Untouched, code), asked))
      /\ o = "problem" => after = Received(c, WithCookies(Untouched, asked))
  BY DEF LookupVehicleResult, GoTo, Redirect, Leaves
<1> HIDE DEF asked, details, code, prevent
<1>4. /\ \A k \in DOMAIN asked : asked[k] = v /\ asked[k] # Keep
      /\ \A k \in DOMAIN details : details[k] = v /\ details[k] # Keep
      /\ \A k \in DOMAIN code : code[k] # Keep
  BY <1>1, <1>2
<1>5. ASSUME o # "throws", NEW k \in Keys, k \in DOMAIN asked
      PROVE  after[k] = v
  BY <1>3, <1>4, <1>5, SetLeave DEF LookupOutcomes
<1>6. ASSUME NEW k \in Keys, k \notin DOMAIN asked
      PROVE  /\ o = "found" => after[k] = Received(c, WithCookies(Discarding(prevent), details))[k]
             /\ o = "notFound" => after[k] = Received(c, WithCookies(Untouched, code))[k]
             /\ o = "problem" => after[k] = c[k]
  BY <1>3, <1>4, <1>6, SetLeave, PlainLeave
<1>7. ASSUME NEW k \in Keys
      PROVE  /\ Received(c, WithCookies(Discarding(prevent), details))[k] =
                  IF k \in DOMAIN details THEN v ELSE IF k \in prevent THEN None ELSE c[k]
             /\ k \notin DOMAIN code => Received(c, WithCookies(Untouched, code))[k] = c[k]
  BY <1>4, SetLeave, PlainLeave, ReceivedAt
<1>8. ASSUME NEW k \in Keys, k \notin DOMAIN asked, o # "throws"
      PROVE  k \notin DOMAIN code =>
               after[k] = IF o # "found" THEN c[k]
                          ELSE IF k \in DOMAIN details THEN v
                          ELSE IF k \in prevent THEN None ELSE c[k]
  BY <1>6, <1>7, <1>8 DEF LookupOutcomes
<1>9. {"VehicleLookupFormModel", "BruteForcePreventionViewModel", "VehicleLookupDetails",
       "PreventGoingToDisposePage"} \subseteq Keys
  BY DEF Keys
<1>10. o = "throws" => after = c
  BY <1>3, PlainLeave
<1> QED
  BY <1>2, <1>5, <1>8, <1>9, <1>10 DEF prevent

\* A locked vehicle is remembered.
LEMMA LockedLeaves ==
  ASSUME NEW c, c = [k \in Keys |-> c[k]], NEW v \in Vehicles, NEW k \in Keys
  PROVE  Leaves(VrmLockedResult(v), c)[k] =
           IF k = "BruteForcePreventionViewModel" THEN v ELSE c[k]
<1> DEFINE new == [BruteForcePreventionViewModel |-> v]
<1>1. DOMAIN new = {"BruteForcePreventionViewModel"} /\ new["BruteForcePreventionViewModel"] = v
  OBVIOUS
<1>2. v # Keep
  BY MarksAreNotValues
<1>3. VrmLockedResult(v).cookies = WithCookies(Untouched, new)
  BY DEF VrmLockedResult, Redirect
<1> HIDE DEF new
<1> QED
  BY <1>1, <1>2, <1>3, SetLeave, PlainLeave DEF Leaves

\* An answer of the disposal service to call id for vehicle v.
LEMMA AnswerLeaves ==
  ASSUME NEW c, c = [k \in Keys |-> c[k]], NEW v \in Vehicles, NEW id \in Nat, NEW a,
         NEW after, after = Leaves(DisposeAnswered(a, v, id), c),
         NEW ck, ck = DisposeAnswered(a, v, id).cookies
  PROVE  /\ Has(after, {"DisposeModel", "DisposeFormModel", "DisposeFormTimestampId",
                        "PreventGoingToDisposePage"})
         /\ ck["DisposeFormRegistrationNumber"] =
              IF a.body # None /\ a.body.reg THEN v ELSE Keep
         /\ ck["DisposeFormTransactionId"] =
              IF a.body # None /\ a.body.tx THEN id ELSE Keep
         /\ after["DisposeFormRegistrationNumber"] =
              IF a.body # None /\ a.body.reg THEN v ELSE c["DisposeFormRegistrationNumber"]
         /\ after["DisposeFormTransactionId"] =
              IF a.body # None /\ a.body.tx THEN id ELSE c["DisposeFormTransactionId"]
         /\ \A k \in Keys \ {"DisposeModel", "DisposeFormModel", "DisposeFormTimestampId",
                             "PreventGoingToDisposePage", "DisposeFormRegistrationNumber",
                             "DisposeFormTransactionId"} : after[k] = c[k] /\ ck[k] = Keep
<1> DEFINE ids == StoreResponseInCache(a, v, id)
           rest == [DisposeModel |-> v, DisposeFormModel |-> "",
                    DisposeFormTimestampId |-> "", PreventGoingToDisposePage |-> ""]
           others == Keys \ {"DisposeModel", "DisposeFormModel", "DisposeFormTimestampId",
                             "PreventGoingToDisposePage", "DisposeFormRegistrationNumber",
                             "DisposeFormTransactionId"}
<1>1. /\ v # Keep /\ id # Keep /\ "" # Keep /\ v # None /\ "" # None
  BY MarksAreNotValues, MarksDiffer
<1>2. /\ DOMAIN ids = {"DisposeFormTransactionId", "DisposeFormRegistrationNumber"}
      /\ ids["DisposeFormTransactionId"] = IF a.body # None /\ a.body.tx THEN id ELSE Keep
      /\ ids["DisposeFormRegistrationNumber"] = IF a.body # None /\ a.body.reg THEN v ELSE Keep
  BY DEF StoreResponseInCache
<1>3. /\ DOMAIN rest = {"DisposeModel", "DisposeFormModel", "DisposeFormTimestampId",
                        "PreventGoingToDisposePage"}
      /\ rest["DisposeModel"] = v /\ rest["DisposeFormModel"] = ""
      /\ rest["DisposeFormTimestampId"] = "" /\ rest["PreventGoingToDisposePage"] = ""
  OBVIOUS
<1>4. ck = WithCookies(WithCookies(Untouched, ids), rest) /\ after = Received(c, ck)
  BY DEF DisposeAnswered, Redirect, Leaves
<1> HIDE DEF ids, rest
<1>5. \A k \in DOMAIN rest : rest[k] # Keep /\ rest[k] # None
  BY <1>1, <1>3
<1>6. Has(after, {"DisposeModel", "DisposeFormModel", "DisposeFormTimestampId",
                  "PreventGoingToDisposePage"})
  <2>1. \A k \in Keys : k \in DOMAIN rest => after[k] = rest[k]
    BY <1>4, <1>5, SetLeave
  <2> QED
    BY ZenonT(40), <1>3, <1>5, <2>1 DEF Has, Keys
<1>7. \A k \in Keys : k \notin DOMAIN rest =>
        ck[k] = IF k \in DOMAIN ids THEN ids[k] ELSE Keep
  BY <1>4 DEF WithCookies, Untouched
<1>8. \A k \in Keys : after[k] = IF ck[k] = Keep THEN c[k] ELSE ck[k]
  BY <1>4 DEF Received
<1>9. ASSUME NEW k \in others
      PROVE  after[k] = c[k] /\ ck[k] = Keep
  BY <1>2, <1>3, <1>7, <1>8
<1>10. /\ ck["DisposeFormRegistrationNumber"] = ids["DisposeFormRegistrationNumber"]
       /\ ck["DisposeFormTransactionId"] = ids["DisposeFormTransactionId"]
  BY <1>2, <1>3, <1>7 DEF Keys
<1>11. /\ after["DisposeFormRegistrationNumber"] =
            IF a.body # None /\ a.body.reg THEN v ELSE c["DisposeFormRegistrationNumber"]
       /\ after["DisposeFormTransactionId"] =
            IF a.body # None /\ a.body.tx THEN id ELSE c["DisposeFormTransactionId"]
  <2>1. "DisposeFormRegistrationNumber" \in Keys /\ "DisposeFormTransactionId" \in Keys
    BY DEF Keys
  <2>2. after["DisposeFormRegistrationNumber"] =
          IF a.body # None /\ a.body.reg THEN v ELSE c["DisposeFormRegistrationNumber"]
    BY <1>1, <1>2, <1>8, <1>10, <2>1
  <2>3. after["DisposeFormTransactionId"] =
          IF a.body # None /\ a.body.tx THEN id ELSE c["DisposeFormTransactionId"]
    BY <1>1, <1>2, <1>8, <1>10, <2>1
  <2> QED
    BY <2>2, <2>3
<1> QED
  BY <1>2, <1>6, <1>9, <1>10, <1>11

----------
(* The trader that is shown.                                               *)

\* A result that leaves the trader alone, except that it may discard the cookie, and
\* shows no other trader on a dispose page.
SparesTrader(r, c) ==
  /\ r.cookies["TraderDetails"] \in {Keep, None}
  /\ ~r.redirect /\ r.screen.page = "Dispose" => r.screen.trader = c["TraderDetails"]

\* The instructions that leave the trader alone.
LEMMA TraderSpared ==
  ASSUME NEW ck, NEW new, NEW ks
  PROVE  /\ Untouched["TraderDetails"] = Keep
         /\ Discarding(ks)["TraderDetails"] \in {Keep, None}
         /\ "TraderDetails" \notin DOMAIN new =>
              WithCookies(ck, new)["TraderDetails"] = ck["TraderDetails"]
  BY DEF Untouched, Discarding, WithCookies, Keys

\* Redirects, pages without a trader and those of the dispose page.
LEMMA PlainSpare ==
  ASSUME NEW c
  PROVE  /\ \A p : SparesTrader(GoTo(p), c)
         /\ \A p : p # "Dispose" => SparesTrader(Show(p), c)
         /\ SparesTrader(Ok(DisposeScreen(c), Untouched), c)
         /\ \A p, ck : ck["TraderDetails"] \in {Keep, None} => SparesTrader(Redirect(p, ck), c)
         /\ \A s, ck : ck["TraderDetails"] \in {Keep, None} /\ s.page # "Dispose" =>
              SparesTrader(Ok(s, ck), c)
  BY TraderSpared DEF SparesTrader, Redirect, GoTo, Ok, Show, Blank, DisposeScreen

\* Every GET address but the dispose page is answered without a dispose page.
LEMMA PresentSpares ==
  ASSUME NEW c, NEW r \in Routes
  PROVE  SparesTrader(Present(r, c), c)
<1>1. SparesTrader(BeforeYouStartPresent(c), c)
  BY TraderSpared, PlainSpare DEF BeforeYouStartPresent, Blank
<1>2. \A p \in {"BusinessChooseYourAddress", "EnterAddressManually"} :
        SparesTrader(NeedsSetup(p, c), c)
  BY TraderSpared, PlainSpare DEF NeedsSetup
<1>3. SparesTrader(VehicleLookupPresent(c), c)
  <2>1. \A b : SparesTrader(Ok([Blank("VehicleLookup") EXCEPT !.trader = c["TraderDetails"],
                                  !.exit = b], Untouched), c)
    BY TraderSpared DEF SparesTrader, Ok, Blank
  <2> QED
    BY <2>1, TraderSpared, PlainSpare DEF VehicleLookupPresent
<1>4. SparesTrader(VehicleLookupBack(c), c) /\ SparesTrader(VrmLockedPresent(c), c)
  BY TraderSpared, PlainSpare DEF VehicleLookupBack, VrmLockedPresent
<1>5. SparesTrader(VehicleLookupFailurePresent(c), c)
  <2>1. \A v : [Blank("VehicleLookupFailure") EXCEPT !.veh = v].page = "VehicleLookupFailure"
    BY DEF Blank
  <2> QED
    BY <2>1, TraderSpared, PlainSpare DEF VehicleLookupFailurePresent
<1>6. SparesTrader(DisposePresent(c), c)
  BY TraderSpared, PlainSpare DEF DisposePresent
<1>7. SparesTrader(DisposeSuccessPresent(c), c)
  <2>1. \A v, d, g, x : [Blank("DisposeSuccess") EXCEPT !.veh = v, !.trader = d,
                                         !.reg = g, !.tx = x].page = "DisposeSuccess"
    BY DEF Blank
  <2> QED
    BY <2>1, TraderSpared, PlainSpare DEF DisposeSuccessPresent
<1>8. SparesTrader(DisposeFailurePresent(c), c)
  <2>1. \A v, d, x : [Blank("DisposeFailure") EXCEPT !.veh = v, !.trader = d,
                                      !.tx = x].page = "DisposeFailure"
    BY DEF Blank
  <2> QED
    BY <2>1, TraderSpared, PlainSpare DEF DisposeFailurePresent
<1>9. \A p \in Pages \ {"Dispose"} : SparesTrader(Show(p), c)
  BY TraderSpared, PlainSpare
<1> QED
  BY <1>1, <1>2, <1>3, <1>4, <1>5, <1>6, <1>7, <1>8, <1>9 DEF Present, Routes

\* The forms that do not enter an address, and the answers of the services.
LEMMA FormsSpare ==
  ASSUME NEW c
  PROVE  /\ \A n \in Traders \union {None} : SparesTrader(SetUpTradeDetailsSubmit(n, c), c)
         /\ \A p \in {"BusinessChooseYourAddress", "EnterAddressManually"} :
              SparesTrader(NeedsSetup(p, c), c)
         /\ SparesTrader(VehicleLookupPresent(c), c)
         /\ SparesTrader(VehicleLookupExit(c), c)
         /\ SparesTrader(VrmLockedNewDisposal(c), c)
         /\ SparesTrader(VrmLockedExit(c), c)
         /\ SparesTrader(DisposeSuccessNewDisposal(c), c)
         /\ SparesTrader(DisposeSuccessExit(c), c)
         /\ SparesTrader(ErrorSubmit(c), c)
         /\ SparesTrader(DisposeInvalid(c), c)
         /\ SparesTrader(DisposeRefused(c), c)
<1>1. ASSUME NEW n \in Traders \union {None}
      PROVE  SparesTrader(SetUpTradeDetailsSubmit(n, c), c)
  <2> DEFINE new == [SetupTradeDetails |-> n]
  <2>1. WithCookies(Untouched, new)["TraderDetails"] \in {Keep, None}
    BY TraderSpared
  <2>2. SetUpTradeDetailsSubmit(n, c) \in
          {Show("SetUpTradeDetails"),
           Redirect("BusinessChooseYourAddress", WithCookies(Untouched, new))}
    BY DEF SetUpTradeDetailsSubmit
  <2> HIDE DEF new
  <2> QED
    BY <2>1, <2>2, PlainSpare
<1>2. /\ \A p \in {"BusinessChooseYourAddress", "EnterAddressManually"} :
           SparesTrader(NeedsSetup(p, c), c)
      /\ SparesTrader(VehicleLookupPresent(c), c)
  BY PresentSpares, TraderSpared, PlainSpare DEF Present, Routes, Pages, NeedsSetup
<1>3. /\ SparesTrader(VrmLockedNewDisposal(c), c) /\ SparesTrader(VrmLockedExit(c), c)
      /\ SparesTrader(ErrorSubmit(c), c) /\ SparesTrader(DisposeInvalid(c), c)
      /\ SparesTrader(DisposeRefused(c), c)
  BY TraderSpared, PlainSpare
     DEF VrmLockedNewDisposal, VrmLockedExit, ErrorSubmit, DisposeInvalid, DisposeRefused
<1>4. /\ SparesTrader(VehicleLookupExit(c), c) /\ SparesTrader(DisposeSuccessExit(c), c)
      /\ SparesTrader(DisposeSuccessNewDisposal(c), c)
  <2> DEFINE survey == [SurveyRequestTriggerDate |-> ""]
             exit == [PreventGoingToDisposePage |-> "", SurveyRequestTriggerDate |-> ""]
             next == [PreventGoingToDisposePage |-> "", DisposeOccurred |-> ""]
  <2>1. "TraderDetails" \notin DOMAIN survey \union DOMAIN exit \union DOMAIN next
    OBVIOUS
  <2>2. /\ VehicleLookupExit(c) =
             Redirect("BeforeYouStart", WithCookies(Discarding(FullSet), survey))
        /\ DisposeSuccessExit(c) =
             Redirect("BeforeYouStart", WithCookies(Discarding(FullSet), exit))
        /\ DisposeSuccessNewDisposal(c) \in
             {Redirect("VehicleLookup", WithCookies(Discarding(DisposeSet), next)),
              GoTo("SetUpTradeDetails")}
    BY DEF VehicleLookupExit, DisposeSuccessExit, DisposeSuccessNewDisposal
  <2> HIDE DEF survey, exit, next
  <2>3. /\ WithCookies(Discarding(FullSet), survey)["TraderDetails"] \in {Keep, None}
        /\ WithCookies(Discarding(FullSet), exit)["TraderDetails"] \in {Keep, None}
        /\ WithCookies(Discarding(DisposeSet), next)["TraderDetails"] \in {Keep, None}
    BY <2>1, TraderSpared
  <2> QED
    BY <2>2, <2>3, PlainSpare
<1> QED
  BY <1>1, <1>2, <1>3, <1>4

\* The answers of the services set no trader.
LEMMA AnswersSpare ==
  ASSUME NEW c
  PROVE  /\ \A v : SparesTrader(VrmLockedResult(v), c)
         /\ \A v : \A o \in LookupOutcomes : SparesTrader(LookupVehicleResult(v, o), c)
         /\ \A a, v, i : SparesTrader(DisposeAnswered(a, v, i), c)
         /\ SparesTrader(DisposeCallFailed, c)
<1>1. ASSUME NEW v
      PROVE  SparesTrader(VrmLockedResult(v), c)
  <2> DEFINE new == [BruteForcePreventionViewModel |-> v]
  <2>1. "TraderDetails" \notin DOMAIN new
    OBVIOUS
  <2>2. VrmLockedResult(v) = Redirect("VrmLocked", WithCookies(Untouched, new))
    BY DEF VrmLockedResult
  <2> HIDE DEF new
  <2> QED
    BY <2>1, <2>2, TraderSpared, PlainSpare
<1>2. ASSUME NEW v, NEW o \in LookupOutcomes
      PROVE  SparesTrader(LookupVehicleResult(v, o), c)
  <2> DEFINE asked == [VehicleLookupFormModel |-> v, BruteForcePreventionViewModel |-> v]
             details == [VehicleLookupDetails |-> v]
             code == [VehicleLookupResponseCode |-> ""]
             prevent == {"PreventGoingToDisposePage"}
  <2>1. "TraderDetails" \notin DOMAIN asked \union DOMAIN details \union DOMAIN code
    OBVIOUS
  <2>2. /\ LookupVehicleResult(v, "found") =
             Redirect("Dispose", WithCookies(WithCookies(Discarding(prevent), details), asked))
        /\ LookupVehicleResult(v, "notFound") =
             Redirect("VehicleLookupFailure", WithCookies(WithCookies(Untouched, code), asked))
        /\ LookupVehicleResult(v, "problem") =
             Redirect("MicroServiceError", WithCookies(Untouched, asked))
        /\ LookupVehicleResult(v, "throws") = GoTo("MicroServiceError")
    BY DEF LookupVehicleResult
  <2> HIDE DEF asked, details, code, prevent
  <2>3. \A ck : WithCookies(ck, asked)["TraderDetails"] = ck["TraderDetails"]
    BY <2>1, TraderSpared
  <2>4. /\ WithCookies(Discarding(prevent), details)["TraderDetails"] \in {Keep, None}
        /\ WithCookies(Untouched, code)["TraderDetails"] \in {Keep, None}
    BY <2>1, TraderSpared
  <2> QED
    BY <2>2, <2>3, <2>4, TraderSpared, PlainSpare DEF LookupOutcomes
<1>3. ASSUME NEW a, NEW v, NEW i
      PROVE  SparesTrader(DisposeAnswered(a, v, i), c)
  <2> DEFINE ids == StoreResponseInCache(a, v, i)
             rest == [DisposeModel |-> v, DisposeFormModel |-> "",
                      DisposeFormTimestampId |-> "", PreventGoingToDisposePage |-> ""]
  <2>1. "TraderDetails" \notin DOMAIN ids \union DOMAIN rest
    BY DEF StoreResponseInCache
  <2>2. DisposeAnswered(a, v, i) =
          Redirect(NextPage(a), WithCookies(WithCookies(Untouched, ids), rest))
    BY DEF DisposeAnswered
  <2> HIDE DEF ids, rest
  <2>3. WithCookies(WithCookies(Untouched, ids), rest)["TraderDetails"] \in {Keep, None}
    BY <2>1, TraderSpared
  <2> QED
    BY <2>2, <2>3, PlainSpare
<1>4. SparesTrader(DisposeCallFailed, c)
  BY PlainSpare DEF DisposeCallFailed
<1> QED
  BY <1>1, <1>2, <1>3, <1>4

\* A result on its way to a tab that shows page p, with cookies c in the browser: a
\* trader is only set from a page other than the dispose page, by a redirect.
TraderResult(r, c, p) ==
  \/ r.redirect /\ p # "Dispose"
  \/ /\ r.cookies["TraderDetails"] \in {Keep, None}
     /\ ~r.redirect /\ r.screen.page = "Dispose" =>
          c["TraderDetails"] \in {r.screen.trader, None}

\* A dispose page shows the trader of the browser's cookie, unless that has expired.
TraderInv(t) ==
  /\ screen[t].page = "Dispose" => jar["TraderDetails"] \in {screen[t].trader, None}
  /\ req[t].at = "reply" => TraderResult(req[t].result, jar, screen[t].page)

\* The request of a tab after a step that answers it.
LEMMA AnsweredRequest ==
  ASSUME HonestInv, NEW t \in Tabs, NEW r, Answered(t, r)
  PROVE  /\ req'[t].at = "reply" /\ req'[t].result = r
         /\ UNCHANGED <<jar, screen, calls, found>>
  BY DEF HonestInv, Answered, Reply

\* A result that spares the trader keeps the invariant when it is the answer.
LEMMA TraderAnswered ==
  ASSUME HonestInv, NEW t \in Tabs, TraderInv(t), NEW r, Answered(t, r),
         SparesTrader(r, jar) \/ (r.redirect /\ screen[t].page # "Dispose")
  PROVE  TraderInv(t)'
  BY AnsweredRequest DEF TraderInv, TraderResult, SparesTrader

\* So does one that is the answer to a form.
LEMMA TraderForm ==
  ASSUME HonestInv, NEW t \in Tabs, TraderInv(t), NEW p, NEW r, Form(t, p, r),
         SparesTrader(r, jar) \/ (r.redirect /\ screen[t].page # "Dispose")
  PROVE  TraderInv(t)'
  BY TraderAnswered DEF Form

\* A request that goes on without a result.
LEMMA TraderStage ==
  ASSUME HonestInv, NEW t \in Tabs, TraderInv(t), NEW q, q.at # "reply",
         req' = [req EXCEPT ![t] = q], UNCHANGED <<jar, screen>>
  PROVE  TraderInv(t)'
<1>1. req'[t] = q
  BY DEF HonestInv
<1> QED
  BY <1>1 DEF TraderInv

\* Every step of the user.
LEMMA TraderUser ==
  ASSUME HonestInv, NEW t \in Tabs, TraderInv(t), User(t)
  PROVE  TraderInv(t)'
<1>1. CASE Visit(t)
  BY <1>1, PresentSpares, TraderAnswered DEF Visit
<1>2. CASE SubmitSetUpTradeDetails(t)
  BY <1>2, FormsSpare, TraderForm DEF SubmitSetUpTradeDetails
<1>3. CASE SubmitBusinessChooseYourAddress(t)
  <2>1. CASE Form(t, "BusinessChooseYourAddress", NeedsSetup("BusinessChooseYourAddress", jar))
    BY <2>1, FormsSpare, TraderForm
  <2>2. ASSUME NEW b \in BOOLEAN,
               Form(t, "BusinessChooseYourAddress", BusinessChooseYourAddressSubmit(b, jar))
        PROVE  TraderInv(t)'
    <3>1. BusinessChooseYourAddressSubmit(b, jar).redirect
      BY DEF BusinessChooseYourAddressSubmit, GoTo, Redirect
    <3>2. screen[t].page # "Dispose"
      BY <2>2 DEF Form
    <3> QED
      BY <2>2, <3>1, <3>2, TraderForm
  <2> QED
    BY <1>3, <2>1, <2>2 DEF SubmitBusinessChooseYourAddress
<1>4. CASE SubmitEnterAddressManually(t)
  <2>1. CASE Form(t, "EnterAddressManually", NeedsSetup("EnterAddressManually", jar))
    BY <2>1, FormsSpare, TraderForm
  <2>2. CASE Form(t, "EnterAddressManually", EnterAddressManuallySubmit(jar))
    <3>1. EnterAddressManuallySubmit(jar).redirect
      BY DEF EnterAddressManuallySubmit, GoTo, Redirect
    <3>2. screen[t].page # "Dispose"
      BY <2>2 DEF Form
    <3> QED
      BY <2>2, <3>1, <3>2, TraderForm
  <2> QED
    BY <1>4, <2>1, <2>2 DEF SubmitEnterAddressManually
<1>5. CASE SubmitInvalidVehicleLookup(t) \/ ExitVehicleLookup(t) \/ SubmitVrmLocked(t)
  BY <1>5, FormsSpare, TraderForm
     DEF SubmitInvalidVehicleLookup, ExitVehicleLookup, SubmitVrmLocked
<1>6. CASE SubmitDisposeSuccess(t) \/ SubmitError(t) \/ SubmitDisposeInVain(t)
  BY <1>6, FormsSpare, TraderForm
     DEF SubmitDisposeSuccess, SubmitError, SubmitDisposeInVain
<1>7. CASE SubmitVehicleLookup(t)
  <2>1. PICK v \in Vehicles : req' = [req EXCEPT ![t] = [at |-> "permit", veh |-> v]]
    BY <1>7 DEF SubmitVehicleLookup
  <2> DEFINE q == [at |-> "permit", veh |-> v]
  <2>2. q.at # "reply"
    OBVIOUS
  <2> HIDE DEF q
  <2> QED
    BY <1>7, <2>1, <2>2, TraderStage DEF SubmitVehicleLookup, q
<1>8. CASE SubmitDispose(t)
  <2> DEFINE q == [at |-> "dispose", call |-> Len(calls) + 1, trader |-> DisposeRequest(jar).trader]
  <2>1. q.at # "reply"
    OBVIOUS
  <2>2. req' = [req EXCEPT ![t] = q] /\ UNCHANGED <<jar, screen>>
    BY <1>8 DEF SubmitDispose
  <2> HIDE DEF q
  <2> QED
    BY <2>1, <2>2, TraderStage
<1> QED
  BY <1>1, <1>2, <1>3, <1>4, <1>5, <1>6, <1>7, <1>8 DEF User

\* Every step of the server.
LEMMA TraderServer ==
  ASSUME HonestInv, NEW t \in Tabs, TraderInv(t), Server(t)
  PROVE  TraderInv(t)'
<1>1. CASE Permit(t)
  <2> DEFINE q == [at |-> "lookup", veh |-> req[t].veh]
  <2>1. q.at # "reply"
    OBVIOUS
  <2> HIDE DEF q
  <2> QED
    BY <1>1, <2>1, TraderStage DEF Permit, q
<1>2. CASE Refuse(t)
  BY <1>2, AnswersSpare, PlainSpare, TraderAnswered DEF Refuse
<1>3. CASE AnswerLookup(t)
  <2>1. PICK o \in LookupOutcomes :
          req' = [req EXCEPT ![t] = Reply(LookupVehicleResult(req[t].veh, o))]
    BY <1>3 DEF AnswerLookup
  <2>2. req'[t] = Reply(LookupVehicleResult(req[t].veh, o)) /\ UNCHANGED <<jar, screen>>
    BY <1>3, <2>1 DEF HonestInv, AnswerLookup
  <2>3. SparesTrader(LookupVehicleResult(req[t].veh, o), jar)
    BY AnswersSpare
  <2>4. req'[t].result = LookupVehicleResult(req[t].veh, o)
    BY <2>2 DEF Reply
  <2> QED
    BY <2>2, <2>3, <2>4 DEF TraderInv, TraderResult, SparesTrader
<1>4. CASE AnswerDispose(t) \/ FailDispose(t)
  BY <1>4, AnswersSpare, TraderAnswered DEF AnswerDispose, FailDispose
<1>5. CASE Receive(t)
  <2> DEFINE r == req[t].result
             jarNow == Received(jar, r.cookies)
             next == Present(r.screen.page, jarNow)
  <2>1. /\ jar' = jarNow
        /\ \/ r.redirect /\ req'[t] = Reply(next) /\ UNCHANGED screen
           \/ ~r.redirect /\ req'[t] = NoRequest /\ screen'[t] = r.screen
    BY <1>5 DEF Receive, HonestInv
  <2>2. TraderResult(r, jar, screen[t].page) /\ r.screen.page \in Routes
    BY <1>5 DEF Receive, TraderInv, HonestInv, HonestResult, ResultOK, Screens, Routes
  <2>3. SparesTrader(next, jarNow)
    BY <2>2, PresentSpares
  <2>4. jarNow["TraderDetails"] =
          IF r.cookies["TraderDetails"] = Keep THEN jar["TraderDetails"]
          ELSE r.cookies["TraderDetails"]
    BY DEF Received, Keys
  <2> HIDE DEF jarNow, next
  <2>5. screen'[t].page = "Dispose" => jar'["TraderDetails"] \in {screen'[t].trader, None}
    BY <2>1, <2>2, <2>4 DEF TraderInv, TraderResult
  <2>6. req'[t].at = "reply" => req'[t].result = next
    BY <2>1 DEF Reply, NoRequest
  <2> QED
    BY <2>1, <2>3, <2>5, <2>6 DEF TraderInv, TraderResult, SparesTrader
<1> QED
  BY <1>1, <1>2, <1>3, <1>4, <1>5 DEF Server

\* Calls are only made by the dispose form.
LEMMA CallsAreSubmitted ==
  ASSUME HonestInv, NEW t, Tabs = {t}, [Next]_vars, Len(calls') > Len(calls)
  PROVE  SubmitDispose(t)
<1>1. calls \in Seq(Calls) /\ ~(Len(calls) > Len(calls))
  BY DEF HonestInv
<1>2. calls' # calls
  BY <1>1
<1>3. ASSUME NEW i \in DOMAIN calls, Fulfil(i)
      PROVE  FALSE
  <2>1. PICK fate : calls' = [calls EXCEPT ![i].fate = fate]
    BY <1>3 DEF Fulfil
  <2>2. Len(calls') = Len(calls)
    <3>1. calls \in Seq({calls[j] : j \in DOMAIN calls} \union {[calls[i] EXCEPT !.fate = fate]})
      BY <1>1
    <3>2. calls' \in Seq({calls[j] : j \in DOMAIN calls} \union {[calls[i] EXCEPT !.fate = fate]})
            /\ DOMAIN calls' = DOMAIN calls
      BY <2>1, <3>1
    <3> QED
      BY <3>1, <3>2
  <2> QED
    BY <1>1, <2>2
<1>4. ~Expire /\ ~UNCHANGED vars
  BY <1>2 DEF Expire, vars
<1>5. ~Server(t)
  BY <1>2 DEF Server, Permit, Refuse, AnswerLookup, AnswerDispose, FailDispose, Receive, Answered
<1>6. User(t) => SubmitDispose(t)
  BY <1>2 DEF User, Visit, SubmitSetUpTradeDetails, SubmitBusinessChooseYourAddress,
              SubmitEnterAddressManually, SubmitInvalidVehicleLookup, SubmitVehicleLookup,
              ExitVehicleLookup, SubmitVrmLocked, SubmitDisposeSuccess, SubmitError,
              SubmitDisposeInVain, Form, Answered
<1> QED
  BY <1>3, <1>4, <1>5, <1>6 DEF Next

\* Every step keeps the invariant, and submits the trader shown.
LEMMA TraderNext ==
  ASSUME NEW t, Tabs = {t}, HonestInv, TraderInv(t), [Next]_vars
  PROVE  /\ TraderInv(t)'
         /\ \A u \in Tabs : Submits(u) => req'[u].trader = screen[u].trader
<1>1. TraderInv(t)'
  <2>1. CASE User(t) \/ Server(t)
    BY <2>1, TraderUser, TraderServer
  <2>2. ASSUME NEW i \in DOMAIN calls, Fulfil(i)
        PROVE  TraderInv(t)'
    BY <2>2 DEF Fulfil, TraderInv
  <2>3. CASE Expire
    <3>1. PICK k \in Keys : jar' = [jar EXCEPT ![k] = None]
      BY <2>3 DEF Expire
    <3>2. jar'["TraderDetails"] \in {jar["TraderDetails"], None}
      BY <3>1 DEF HonestInv, HonestCookies, CookieFunction, Keys
    <3> QED
      BY <2>3, <3>2 DEF Expire, TraderInv, TraderResult
  <2>4. CASE UNCHANGED vars
    BY <2>4 DEF vars, TraderInv
  <2> QED
    BY <2>4, <2>3, <2>2, <2>1 DEF Next
<1>2. ASSUME Submits(t)
      PROVE  req'[t].trader = screen[t].trader
  <2>1. SubmitDispose(t)
    BY <1>2, CallsAreSubmitted DEF Submits
  <2>2. jar["TraderDetails"] = screen[t].trader
    BY <2>1 DEF SubmitDispose, TraderInv, MayDispose, Has
  <2>3. req'[t].trader = jar["TraderDetails"]
    BY <2>1 DEF SubmitDispose, DisposeRequest, HonestInv
  <2> QED
    BY <2>2, <2>3
<1> QED
  BY <1>1, <1>2

\* With one tab, whatever addresses the user goes to, however impatient or idle he is:
\* Dispose.submit sends the trader's details that the dispose page showed.
THEOREM TraderShownIsSubmitted ==
  ASSUME NEW one, Tabs = {one}
  PROVE  Spec => DisposesForTraderShown
<1>1. Init => TraderInv(one)
  BY DEF Init, TraderInv, NoRequest, Blank
<1>2. HonestInv /\ TraderInv(one) /\ [Next]_vars => TraderInv(one)'
  BY TraderNext
<1>3. HonestInv /\ TraderInv(one) /\ [Next]_vars =>
        [\A t \in Tabs : Submits(t) => req'[t].trader = screen[t].trader]_vars
  BY TraderNext
<1> QED
  BY <1>1, <1>2, <1>3, AlwaysHonest, PTL DEF Spec, DisposesForTraderShown

----------
(* The steps of a disposal.                                                *)

\* The cookies a dispose page is made of.
DisposeKeys == {"TraderDetails", "VehicleLookupDetails"}

\* A result on its way to a tab that shows page p, with cookies c in the browser: it
\* leaves cookies in step; a dispose page is shown, or still shown, only with its
\* cookies; the registration number arrives with the redirect to the success page.
StepResult(r, c, p) ==
  /\ InStep(Leaves(r, c))
  /\ (IF r.redirect THEN p ELSE r.screen.page) = "Dispose" => Has(Leaves(r, c), DisposeKeys)
  /\ r.cookies["DisposeFormRegistrationNumber"] \in Vehicles =>
       /\ r.redirect /\ r.screen.page = "DisposeSuccess"
       /\ r.cookies["DisposeFormTransactionId"] # Keep
       /\ Has(Leaves(r, c), ReceiptKeys)

\* A handler that sets no cookie, and shows the dispose page only if its cookies are there.
Quiet(r, c) ==
  /\ r.cookies = Untouched
  /\ r.redirect \in BOOLEAN
  /\ ~r.redirect /\ r.screen.page = "Dispose" => Has(c, DisposeKeys)

\* A result without cookies keeps them in step.
LEMMA QuietSteps ==
  ASSUME NEW c, c = [k \in Keys |-> c[k]], InStep(c),
         NEW p, p = "Dispose" => Has(c, DisposeKeys), NEW r, Quiet(r, c)
  PROVE  StepResult(r, c, p)
<1>1. Leaves(r, c) = c
  BY PlainLeave DEF Quiet, Leaves
<1>2. r.cookies["DisposeFormRegistrationNumber"] \notin Vehicles
  BY MarksAreNotValues DEF Quiet, Untouched, Keys
<1> QED
  BY <1>1, <1>2 DEF Quiet, StepResult

\* The handlers that are quiet, or quiet with some cookies.
LEMMA QuietHandlers ==
  ASSUME NEW c
  PROVE  /\ \A p : p # "Dispose" => Quiet(Show(p), c)
         /\ \A p : Quiet(GoTo(p), c)
         /\ \A p \in {"BusinessChooseYourAddress", "EnterAddressManually"} :
              Quiet(NeedsSetup(p, c), c)
         /\ Quiet(VehicleLookupPresent(c), c)
         /\ Quiet(VehicleLookupBack(c), c)
         /\ Quiet(VehicleLookupFailurePresent(c), c)
         /\ Quiet(VrmLockedPresent(c), c)
         /\ Has(c, {"PreventGoingToDisposePage"}) \/ Quiet(DisposePresent(c), c)
         /\ Has(c, ReceiptKeys) \/ Quiet(DisposeSuccessPresent(c), c)
         /\ Quiet(DisposeFailurePresent(c), c)
         /\ Quiet(DisposeInvalid(c), c)
         /\ Quiet(DisposeRefused(c), c)
         /\ Quiet(DisposeCallFailed, c)
         /\ Quiet(SetUpTradeDetailsSubmit(None, c), c)
<1>1. /\ \A p : p # "Dispose" => Quiet(Show(p), c)
      /\ \A p : Quiet(GoTo(p), c)
      /\ \A s : s.page # "Dispose" => Quiet(Ok(s, Untouched), c)
      /\ Has(c, DisposeKeys) => Quiet(Ok(DisposeScreen(c), Untouched), c)
  BY DEF Quiet, Show, GoTo, Ok, Redirect, Blank
<1>2. /\ \A p \in {"BusinessChooseYourAddress", "EnterAddressManually"} :
           Quiet(NeedsSetup(p, c), c)
      /\ Quiet(VehicleLookupBack(c), c)
      /\ Quiet(VrmLockedPresent(c), c)
      /\ Quiet(DisposeRefused(c), c)
      /\ Quiet(DisposeCallFailed, c)
      /\ Quiet(SetUpTradeDetailsSubmit(None, c), c)
  BY <1>1 DEF NeedsSetup, VehicleLookupBack, VrmLockedPresent, DisposeRefused,
              DisposeCallFailed, SetUpTradeDetailsSubmit
<1>3. /\ Has(c, {"PreventGoingToDisposePage"}) \/ Quiet(DisposePresent(c), c)
      /\ Quiet(DisposeInvalid(c), c)
  BY <1>1 DEF DisposePresent, DisposeInvalid, Has, DisposeKeys
<1>4. Quiet(VehicleLookupPresent(c), c)
  <2>1. \A b : [Blank("VehicleLookup") EXCEPT !.trader = c["TraderDetails"],
                  !.exit = b].page # "Dispose"
    BY DEF Blank
  <2> QED
    BY <1>1, <2>1 DEF VehicleLookupPresent
<1>5. Quiet(VehicleLookupFailurePresent(c), c)
  <2>1. \A v : [Blank("VehicleLookupFailure") EXCEPT !.veh = v].page # "Dispose"
    BY DEF Blank
  <2> QED
    BY <1>1, <2>1 DEF VehicleLookupFailurePresent
<1>6. Has(c, ReceiptKeys) \/ Quiet(DisposeSuccessPresent(c), c)
  BY <1>1 DEF DisposeSuccessPresent, ReceiptKeys
<1>7. Quiet(DisposeFailurePresent(c), c)
  <2>1. \A v, d, x : [Blank("DisposeFailure") EXCEPT !.veh = v, !.trader = d,
                        !.tx = x].page # "Dispose"
    BY DEF Blank
  <2> QED
    BY <1>1, <2>1 DEF DisposeFailurePresent
<1> QED
  BY <1>1, <1>2, <1>3, <1>4, <1>5, <1>6, <1>7

\* Cookies of the later steps gone, those of the earlier kept.
LEMMA StillInStep ==
  ASSUME NEW c, InStep(c), NEW d
  PROVE  /\ (\A k \in FullSet \ {"PreventGoingToDisposePage", "DisposeOccurred"} : d[k] = None)
              => InStep(d)
         /\ (\A k \in Keys \ {"PreventGoingToDisposePage", "DisposeOccurred"} :
               d[k] = IF k \in DisposeSet THEN None ELSE c[k]) => InStep(d)
         /\ (\A k \in Keys : d[k] = IF k \in DisposeOnlySet THEN None ELSE c[k]) => InStep(d)
         /\ (\A k \in Keys : d[k] = IF k = "PreventGoingToDisposePage" THEN None ELSE c[k])
              => InStep(d)
<1>1. (\A k \in FullSet \ {"PreventGoingToDisposePage", "DisposeOccurred"} : d[k] = None)
        => InStep(d)
  BY DEF InStep, Has, FullSet, TradeDetailsSet, DisposeSet, DisposeOnlySet
<1>2. (\A k \in Keys \ {"PreventGoingToDisposePage", "DisposeOccurred"} :
         d[k] = IF k \in DisposeSet THEN None ELSE c[k]) => InStep(d)
  BY DEF InStep, Has, DisposeSet, DisposeOnlySet, Keys
<1>3. (\A k \in Keys : d[k] = IF k \in DisposeOnlySet THEN None ELSE c[k]) => InStep(d)
  BY DEF InStep, Has, DisposeOnlySet, Keys
<1>4. (\A k \in Keys : d[k] = IF k = "PreventGoingToDisposePage" THEN None ELSE c[k])
        => InStep(d)
  BY DEF InStep, Has, DisposeOnlySet, Keys
<1> QED
  BY <1>1, <1>2, <1>3, <1>4

\* The instructions that set no registration number.
LEMMA NumberSpared ==
  ASSUME NEW ck, NEW new, "DisposeFormRegistrationNumber" \notin DOMAIN new, NEW ks
  PROVE  /\ Untouched["DisposeFormRegistrationNumber"] \notin Vehicles
         /\ Discarding(ks)["DisposeFormRegistrationNumber"] \notin Vehicles
         /\ WithCookies(ck, new)["DisposeFormRegistrationNumber"] =
              ck["DisposeFormRegistrationNumber"]
  BY MarksAreNotValues DEF Untouched, Discarding, WithCookies, Keys

\* Only the disposal handlers set the registration number of a disposal.
LEMMA NoNumber ==
  ASSUME NEW c, NEW r,
         \/ \E p, ks : r = Redirect(p, Discarding(ks))
         \/ \E s, ks : r = Ok(s, Discarding(ks))
         \/ \E n : r = SetUpTradeDetailsSubmit(n, c)
         \/ r = BusinessChooseYourAddressSubmit(TRUE, c) /\ Has(c, {"SetupTradeDetails"})
         \/ r = EnterAddressManuallySubmit(c) /\ Has(c, {"SetupTradeDetails"})
         \/ r = VehicleLookupExit(c)
         \/ r = DisposeSuccessExit(c)
         \/ r = DisposeSuccessNewDisposal(c)
         \/ \E v : r = VrmLockedResult(v)
         \/ \E v : \E o \in LookupOutcomes : r = LookupVehicleResult(v, o)
  PROVE  r.cookies["DisposeFormRegistrationNumber"] \notin Vehicles
<1> DEFINE No(ck) == ck["DisposeFormRegistrationNumber"] \notin Vehicles
<1>1. /\ No(Untouched) /\ \A ks : No(Discarding(ks))
  BY MarksAreNotValues DEF Untouched, Discarding, Keys
<1>2. ASSUME NEW new, "DisposeFormRegistrationNumber" \notin DOMAIN new, NEW ck, No(ck)
      PROVE  No(WithCookies(ck, new))
  BY <1>2, NumberSpared
<1>3. CASE \E p, ks : r = Redirect(p, Discarding(ks))
  BY <1>1, <1>3 DEF Redirect
<1>4. CASE \E s, ks : r = Ok(s, Discarding(ks))
  BY <1>1, <1>4 DEF Ok
<1>5. ASSUME NEW n, r = SetUpTradeDetailsSubmit(n, c)
      PROVE  No(r.cookies)
  <2> DEFINE new == [SetupTradeDetails |-> n]
  <2>1. "DisposeFormRegistrationNumber" \notin DOMAIN new
    OBVIOUS
  <2>2. r.cookies \in {Untouched, WithCookies(Untouched, new)}
    BY <1>5 DEF SetUpTradeDetailsSubmit, Show, Ok, Redirect
  <2> HIDE DEF new, No
  <2> QED
    BY <1>1, <1>2, <2>1, <2>2
<1>6. CASE r = BusinessChooseYourAddressSubmit(TRUE, c) /\ Has(c, {"SetupTradeDetails"})
  <2> DEFINE new == [BusinessChooseYourAddress |-> "",
                     TraderDetails |-> [name |-> c["SetupTradeDetails"], uprn |-> TRUE]]
  <2>1. "DisposeFormRegistrationNumber" \notin DOMAIN new
    OBVIOUS
  <2>2. r.cookies = WithCookies(Discarding({"EnterAddressManually"}), new)
    BY <1>6 DEF BusinessChooseYourAddressSubmit, Redirect
  <2> HIDE DEF new, No
  <2> QED
    BY <1>1, <1>2, <2>1, <2>2 DEF No
<1>7. CASE r = EnterAddressManuallySubmit(c) /\ Has(c, {"SetupTradeDetails"})
  <2> DEFINE new == [EnterAddressManually |-> "",
                     TraderDetails |-> [name |-> c["SetupTradeDetails"], uprn |-> FALSE]]
  <2>1. "DisposeFormRegistrationNumber" \notin DOMAIN new
    OBVIOUS
  <2>2. r.cookies = WithCookies(Untouched, new)
    BY <1>7 DEF EnterAddressManuallySubmit, Redirect
  <2> HIDE DEF new, No
  <2> QED
    BY <1>1, <1>2, <2>1, <2>2 DEF No
<1>8. CASE r = VehicleLookupExit(c) \/ r = DisposeSuccessExit(c) \/ r = DisposeSuccessNewDisposal(c)
  <2> DEFINE survey == [SurveyRequestTriggerDate |-> ""]
             exit == [PreventGoingToDisposePage |-> "", SurveyRequestTriggerDate |-> ""]
             next == [PreventGoingToDisposePage |-> "", DisposeOccurred |-> ""]
  <2>1. /\ "DisposeFormRegistrationNumber" \notin DOMAIN survey
        /\ "DisposeFormRegistrationNumber" \notin DOMAIN exit
        /\ "DisposeFormRegistrationNumber" \notin DOMAIN next
    OBVIOUS
  <2>2. /\ VehicleLookupExit(c).cookies = WithCookies(Discarding(FullSet), survey)
        /\ DisposeSuccessExit(c).cookies = WithCookies(Discarding(FullSet), exit)
        /\ \/ DisposeSuccessNewDisposal(c).cookies = WithCookies(Discarding(DisposeSet), next)
           \/ DisposeSuccessNewDisposal(c).cookies = Untouched
    BY DEF VehicleLookupExit, DisposeSuccessExit, DisposeSuccessNewDisposal, Redirect, GoTo
  <2> HIDE DEF survey, exit, next, No
  <2> QED
    BY <1>1, <1>2, <1>8, <2>1, <2>2 DEF No
<1>9. ASSUME NEW v, r = VrmLockedResult(v)
      PROVE  No(r.cookies)
  <2> DEFINE new == [BruteForcePreventionViewModel |-> v]
  <2>1. "DisposeFormRegistrationNumber" \notin DOMAIN new
    OBVIOUS
  <2>2. r.cookies = WithCookies(Untouched, new)
    BY <1>9 DEF VrmLockedResult, Redirect
  <2> HIDE DEF new, No
  <2> QED
    BY <1>1, <1>2, <2>1, <2>2
<1>10. ASSUME NEW v, NEW o \in LookupOutcomes, r = LookupVehicleResult(v, o)
       PROVE  No(r.cookies)
  <2> DEFINE asked == [VehicleLookupFormModel |-> v, BruteForcePreventionViewModel |-> v]
             details == [VehicleLookupDetails |-> v]
             code == [VehicleLookupResponseCode |-> ""]
             prevent == {"PreventGoingToDisposePage"}
  <2>1. /\ "DisposeFormRegistrationNumber" \notin DOMAIN asked
        /\ "DisposeFormRegistrationNumber" \notin DOMAIN details
        /\ "DisposeFormRegistrationNumber" \notin DOMAIN code
    OBVIOUS
  <2>2. /\ LookupVehicleResult(v, "found") =
             Redirect("Dispose", WithCookies(WithCookies(Discarding(prevent), details), asked))
        /\ LookupVehicleResult(v, "notFound") =
             Redirect("VehicleLookupFailure", WithCookies(WithCookies(Untouched, code), asked))
        /\ LookupVehicleResult(v, "problem") =
             Redirect("MicroServiceError", WithCookies(Untouched, asked))
        /\ LookupVehicleResult(v, "throws") = GoTo("MicroServiceError")
    BY DEF LookupVehicleResult
  <2> HIDE DEF asked, details, code, prevent
  <2>3. r.cookies \in {Untouched, WithCookies(Untouched, asked),
                       WithCookies(WithCookies(Untouched, code), asked),
                       WithCookies(WithCookies(Discarding(prevent), details), asked)}
    BY <1>10, <2>2 DEF LookupOutcomes, Redirect, GoTo
  <2> HIDE DEF No
  <2> QED
    BY <1>1, <1>2, <2>1, <2>3
<1> QED
  BY <1>3, <1>4, <1>5, <1>6, <1>7, <1>8, <1>9, <1>10 DEF No

\* Every GET address, from any page.
LEMMA PresentSteps ==
  ASSUME NEW c, c = [k \in Keys |-> c[k]], InStep(c),
         NEW p, p = "Dispose" => Has(c, DisposeKeys), NEW r \in Routes
  PROVE  StepResult(Present(r, c), c, p)
<1>1. CASE r = "BeforeYouStart"
  <2>1. InStep(Leaves(BeforeYouStartPresent(c), c))
    <3>1. FullSet \subseteq Keys
      BY DEF FullSet, TradeDetailsSet, DisposeSet, Keys
    <3> QED
      BY <3>1, TradeDetailsLeave, StillInStep
  <2>2. /\ BeforeYouStartPresent(c) = Ok(Blank("BeforeYouStart"), Discarding(FullSet))
        /\ ~BeforeYouStartPresent(c).redirect
        /\ BeforeYouStartPresent(c).screen.page = "BeforeYouStart"
    BY DEF BeforeYouStartPresent, Ok, Blank
  <2>3. Present(r, c) = BeforeYouStartPresent(c)
    BY <1>1 DEF Present
  <2> QED
    BY <2>1, <2>2, <2>3, NoNumber DEF StepResult
<1>2. CASE r = "Dispose" /\ Has(c, {"PreventGoingToDisposePage"})
  <2> DEFINE after == Leaves(DisposePresent(c), c)
  <2>1. \A k \in Keys : after[k] = IF k = "PreventGoingToDisposePage" THEN None ELSE c[k]
    BY <1>2, DiscardingLeave
  <2>2. /\ DisposePresent(c) = Redirect("VehicleLookup", Discarding({"PreventGoingToDisposePage"}))
        /\ DisposePresent(c).redirect
    BY <1>2 DEF DisposePresent, Redirect
  <2>3. Present(r, c) = DisposePresent(c)
    BY <1>2 DEF Present
  <2> HIDE DEF after
  <2>4. InStep(after) /\ (Has(c, DisposeKeys) => Has(after, DisposeKeys))
    BY <2>1, StillInStep DEF Has, DisposeKeys, Keys
  <2>5. DisposePresent(c).cookies["DisposeFormRegistrationNumber"] \notin Vehicles
    BY <2>2, NoNumber
  <2> QED
    BY <2>5, <2>4, <2>3, <2>2 DEF StepResult, after
<1>3. CASE r = "DisposeSuccess" /\ Has(c, ReceiptKeys)
  <2>1. InStep(Leaves(DisposeSuccessPresent(c), c))
    BY <1>3, DiscardingLeave, StillInStep
  <2>2. /\ \E s : DisposeSuccessPresent(c) = Ok(s, Discarding(DisposeOnlySet))
        /\ ~DisposeSuccessPresent(c).redirect
        /\ DisposeSuccessPresent(c).screen.page = "DisposeSuccess"
    BY <1>3 DEF DisposeSuccessPresent, ReceiptKeys, Ok, Blank
  <2>3. DisposeSuccessPresent(c).cookies["DisposeFormRegistrationNumber"] \notin Vehicles
    BY <2>2, NoNumber
  <2>4. Present(r, c) = DisposeSuccessPresent(c)
    BY <1>3 DEF Present
  <2> QED
    BY <2>4, <2>3, <2>2, <2>1 DEF StepResult
<1>4. ASSUME ~(r = "BeforeYouStart"), ~(r = "Dispose" /\ Has(c, {"PreventGoingToDisposePage"})),
             ~(r = "DisposeSuccess" /\ Has(c, ReceiptKeys))
      PROVE  Quiet(Present(r, c), c)
  BY <1>4, QuietHandlers DEF Present, Routes
<1> QED
  BY <1>1, <1>2, <1>3, <1>4, QuietSteps

\* A redirect from a page other than the dispose page.
LEMMA MovesOn ==
  ASSUME NEW c, NEW r, NEW p, r.redirect, p # "Dispose", InStep(Leaves(r, c)),
         r.cookies["DisposeFormRegistrationNumber"] \notin Vehicles
  PROVE  StepResult(r, c, p)
  BY DEF StepResult

\* The forms that set or discard cookies.
LEMMA TradeFormSteps ==
  ASSUME NEW c, c = [k \in Keys |-> c[k]], InStep(c),
         c["SetupTradeDetails"] \in Traders \union {None}, NEW p, p # "Dispose"
  PROVE  /\ \A n \in Traders \union {None} : StepResult(SetUpTradeDetailsSubmit(n, c), c, p)
         /\ \A b \in BOOLEAN : StepResult(BusinessChooseYourAddressSubmit(b, c), c, p)
         /\ StepResult(EnterAddressManuallySubmit(c), c, p)
<1>1. ASSUME NEW n \in Traders
      PROVE  StepResult(SetUpTradeDetailsSubmit(n, c), c, p)
  <2> DEFINE r == SetUpTradeDetailsSubmit(n, c)
             after == Leaves(r, c)
  <2>1. /\ after["SetupTradeDetails"] = n
        /\ \A k \in Keys \ {"SetupTradeDetails"} : after[k] = c[k]
    BY TradeDetailsLeave
  <2>2. n # None
    BY MarksAreNotValues
  <2>3. r.redirect
    BY <2>2 DEF SetUpTradeDetailsSubmit, Redirect
  <2>4. r.cookies["DisposeFormRegistrationNumber"] \notin Vehicles
    BY NoNumber
  <2> HIDE DEF after, r
  <2>5. InStep(after)
    BY <2>1, <2>2 DEF InStep, Has, DisposeOnlySet, Keys
  <2> QED
    BY <2>3, <2>4, <2>5, MovesOn DEF after, r
<1>2. StepResult(SetUpTradeDetailsSubmit(None, c), c, p)
  BY QuietHandlers, QuietSteps
<1>3. ASSUME Has(c, {"SetupTradeDetails"}), NEW r,
             r = BusinessChooseYourAddressSubmit(TRUE, c) \/ r = EnterAddressManuallySubmit(c)
      PROVE  StepResult(r, c, p)
  <2> DEFINE after == Leaves(r, c)
  <2>1. c["SetupTradeDetails"] \in Traders
    BY <1>3 DEF Has
  <2>2. /\ after["TraderDetails"] \in TraderDetails
        /\ \A k \in Keys \ {"TraderDetails", "BusinessChooseYourAddress", "EnterAddressManually"} :
             after[k] = c[k]
    BY <1>3, <2>1, AddressLeaves
  <2>3. r.redirect
    <3>1. /\ BusinessChooseYourAddressSubmit(TRUE, c).redirect
          /\ EnterAddressManuallySubmit(c).redirect
      BY DEF BusinessChooseYourAddressSubmit, EnterAddressManuallySubmit, Redirect, GoTo
    <3> QED
      BY <1>3, <3>1
  <2>4. r.cookies["DisposeFormRegistrationNumber"] \notin Vehicles
    BY <1>3, NoNumber
  <2>5. after["TraderDetails"] # None
    BY <2>2, MarksAreNotValues
  <2> HIDE DEF after
  <2>6. InStep(after)
    BY <1>3, <2>2, <2>5 DEF InStep, Has, DisposeOnlySet, Keys
  <2> QED
    BY <2>3, <2>4, <2>6, MovesOn DEF after
<1>4. ASSUME NEW b \in BOOLEAN
      PROVE  \/ b = TRUE /\ Has(c, {"SetupTradeDetails"})
             \/ Quiet(BusinessChooseYourAddressSubmit(b, c), c)
  BY <1>4, QuietHandlers DEF BusinessChooseYourAddressSubmit
<1>5. Has(c, {"SetupTradeDetails"}) \/ Quiet(EnterAddressManuallySubmit(c), c)
  BY QuietHandlers DEF EnterAddressManuallySubmit
<1> QED
  BY <1>1, <1>2, <1>3, <1>4, <1>5, QuietSteps

\* The handlers that end a disposal keep the cookies in step.
LEMMA ExitSteps ==
  ASSUME NEW c, c = [k \in Keys |-> c[k]], InStep(c), NEW p, p # "Dispose"
  PROVE  /\ StepResult(VehicleLookupExit(c), c, p)
         /\ StepResult(VrmLockedNewDisposal(c), c, p)
         /\ StepResult(VrmLockedExit(c), c, p)
         /\ StepResult(DisposeSuccessNewDisposal(c), c, p)
         /\ StepResult(DisposeSuccessExit(c), c, p)
         /\ StepResult(ErrorSubmit(c), c, p)
<1>1. /\ FullSet \subseteq Keys /\ DisposeSet \subseteq FullSet
      /\ "SurveyRequestTriggerDate" \notin FullSet
  BY DEF FullSet, TradeDetailsSet, DisposeSet, Keys
<1>2. /\ InStep(Leaves(VehicleLookupExit(c), c)) /\ InStep(Leaves(DisposeSuccessExit(c), c))
      /\ InStep(Leaves(VrmLockedExit(c), c)) /\ InStep(Leaves(ErrorSubmit(c), c))
  BY <1>1, ExitsLeave, DiscardingLeave, StillInStep
<1>3. /\ VehicleLookupExit(c).redirect /\ DisposeSuccessExit(c).redirect
      /\ VrmLockedExit(c).redirect /\ ErrorSubmit(c).redirect
      /\ VrmLockedNewDisposal(c).redirect /\ DisposeSuccessNewDisposal(c).redirect
  BY DEF VehicleLookupExit, DisposeSuccessExit, VrmLockedExit, ErrorSubmit,
         VrmLockedNewDisposal, DisposeSuccessNewDisposal, Redirect, GoTo
<1>4. Has(c, {"TraderDetails"}) => InStep(Leaves(VrmLockedNewDisposal(c), c))
  <2>1. ASSUME Has(c, {"TraderDetails"})
        PROVE  \A k \in Keys \ {"PreventGoingToDisposePage", "DisposeOccurred"} :
                 Leaves(VrmLockedNewDisposal(c), c)[k] = IF k \in DisposeSet THEN None ELSE c[k]
    BY <2>1, DiscardingLeave
  <2> QED
    BY <2>1, StillInStep
<1>5. Has(c, {"TraderDetails", "VehicleLookupDetails"}) =>
        InStep(Leaves(DisposeSuccessNewDisposal(c), c))
  <2>1. ASSUME Has(c, {"TraderDetails", "VehicleLookupDetails"})
        PROVE  \A k \in Keys \ {"PreventGoingToDisposePage", "DisposeOccurred"} :
                 Leaves(DisposeSuccessNewDisposal(c), c)[k] =
                   IF k \in DisposeSet THEN None ELSE c[k]
    BY <2>1, ExitsLeave
  <2> QED
    BY <2>1, StillInStep
<1>6. /\ Has(c, {"TraderDetails"}) \/ Quiet(VrmLockedNewDisposal(c), c)
      /\ Has(c, {"TraderDetails", "VehicleLookupDetails"}) \/ Quiet(DisposeSuccessNewDisposal(c), c)
  BY QuietHandlers DEF VrmLockedNewDisposal, DisposeSuccessNewDisposal
<1>7. /\ VrmLockedExit(c) = Redirect("BeforeYouStart", Discarding(FullSet))
      /\ ErrorSubmit(c) = Redirect("BeforeYouStart", Discarding({k \in Keys : c[k] # None}))
      /\ Has(c, {"TraderDetails"}) =>
           VrmLockedNewDisposal(c) = Redirect("VehicleLookup", Discarding(DisposeSet))
  BY DEF VrmLockedExit, ErrorSubmit, VrmLockedNewDisposal
<1>8. /\ VrmLockedExit(c).cookies["DisposeFormRegistrationNumber"] \notin Vehicles
      /\ ErrorSubmit(c).cookies["DisposeFormRegistrationNumber"] \notin Vehicles
      /\ VehicleLookupExit(c).cookies["DisposeFormRegistrationNumber"] \notin Vehicles
      /\ DisposeSuccessExit(c).cookies["DisposeFormRegistrationNumber"] \notin Vehicles
      /\ DisposeSuccessNewDisposal(c).cookies["DisposeFormRegistrationNumber"] \notin Vehicles
      /\ Has(c, {"TraderDetails"}) =>
           VrmLockedNewDisposal(c).cookies["DisposeFormRegistrationNumber"] \notin Vehicles
  BY <1>7, NoNumber
<1>9. /\ StepResult(VehicleLookupExit(c), c, p) /\ StepResult(DisposeSuccessExit(c), c, p)
      /\ StepResult(VrmLockedExit(c), c, p) /\ StepResult(ErrorSubmit(c), c, p)
  BY <1>2, <1>3, <1>8, MovesOn
<1>10. StepResult(VrmLockedNewDisposal(c), c, p)
  BY <1>3, <1>4, <1>6, <1>8, MovesOn, QuietSteps
<1>11. StepResult(DisposeSuccessNewDisposal(c), c, p)
  BY <1>3, <1>5, <1>6, <1>8, MovesOn, QuietSteps
<1> QED
  BY <1>9, <1>10, <1>11

\* The answers of the brute-force and lookup services.
LEMMA LookupSteps ==
  ASSUME NEW c, c = [k \in Keys |-> c[k]], InStep(c),
         NEW p, p = "Dispose" => Has(c, DisposeKeys), NEW v \in Vehicles
  PROVE  /\ StepResult(VrmLockedResult(v), c, p)
         /\ \A o \in LookupOutcomes : StepResult(LookupVehicleResult(v, o), c, p)
<1>0. v # None
  BY MarksAreNotValues
<1>1. StepResult(VrmLockedResult(v), c, p)
  <2> DEFINE after == Leaves(VrmLockedResult(v), c)
  <2>1. \A k \in Keys : after[k] = IF k = "BruteForcePreventionViewModel" THEN v ELSE c[k]
    BY LockedLeaves
  <2>2. VrmLockedResult(v).redirect
    BY DEF VrmLockedResult, Redirect
  <2>3. VrmLockedResult(v).cookies["DisposeFormRegistrationNumber"] \notin Vehicles
    BY NoNumber
  <2> HIDE DEF after
  <2>4. InStep(after)
    BY <1>0, <2>1 DEF InStep, Has, DisposeOnlySet, Keys
  <2>5. Has(c, DisposeKeys) => Has(after, DisposeKeys)
    BY <2>1 DEF Has, DisposeKeys, Keys
  <2> QED
    BY <2>5, <2>4, <2>3, <2>2 DEF StepResult, after
<1>2. ASSUME NEW o \in LookupOutcomes
      PROVE  StepResult(LookupVehicleResult(v, o), c, p)
  <2> DEFINE after == Leaves(LookupVehicleResult(v, o), c)
             others == Keys \ {"VehicleLookupFormModel", "BruteForcePreventionViewModel",
                               "VehicleLookupDetails", "VehicleLookupResponseCode",
                               "PreventGoingToDisposePage"}
  <2>1. /\ o = "throws" => after = c
        /\ o # "throws" =>
             /\ after["VehicleLookupFormModel"] = v
             /\ after["BruteForcePreventionViewModel"] = v
             /\ after["VehicleLookupDetails"] \in {v, c["VehicleLookupDetails"]}
        /\ \A k \in others : after[k] = c[k]
    BY LookupLeaves
  <2>2. LookupVehicleResult(v, o).redirect
    BY DEF LookupVehicleResult, LookupOutcomes, GoTo, Redirect
  <2>3. LookupVehicleResult(v, o).cookies["DisposeFormRegistrationNumber"] \notin Vehicles
    BY NoNumber
  <2> HIDE DEF after
  <2>4. InStep(after)
    BY <1>0, <2>1 DEF InStep, Has, DisposeOnlySet, Keys
  <2>5. Has(c, DisposeKeys) => Has(after, DisposeKeys)
    BY <1>0, <2>1 DEF Has, DisposeKeys, Keys
  <2> QED
    BY <2>5, <2>4, <2>3, <2>2 DEF StepResult, after
<1> QED
  BY <1>1, <1>2

\* Where the answer to a disposal leads, and what comes with it.
LEMMA AnswerPages ==
  ASSUME NEW fate, NEW a \in AnswersFor(fate), a.body # None, a.body.reg
  PROVE  /\ fate = "performed" /\ a.body.tx
         /\ NextPage(a) = "DisposeSuccess"
<1>1. fate = "performed" /\ a.body = [code |-> None, tx |-> TRUE, reg |-> TRUE]
  BY DEF AnswersFor
<1>2. a \in Answers /\ a.status = "ok"
  BY DEF AnswersFor, Answers
<1> QED
  BY <1>1, <1>2 DEF NextPage, HandleHttpStatusCode

\* So does the answer of the disposal service, whatever it is.
LEMMA AnswerSteps ==
  ASSUME NEW c, c = [k \in Keys |-> c[k]], InStep(c),
         Has(c, {"TraderDetails", "VehicleLookupFormModel", "VehicleLookupDetails"}),
         NEW p, NEW v \in Vehicles, NEW i \in Nat, NEW fate, NEW a \in AnswersFor(fate)
  PROVE  StepResult(DisposeAnswered(a, v, i), c, p)
<1> DEFINE r == DisposeAnswered(a, v, i)
           after == Leaves(r, c)
           ck == r.cookies
<1>0. after = Leaves(DisposeAnswered(a, v, i), c) /\ ck = DisposeAnswered(a, v, i).cookies
  OBVIOUS
<1>2. r.redirect /\ r.screen.page = NextPage(a)
  BY DEF DisposeAnswered, Redirect, Blank
<1> HIDE DEF after, r, ck
<1>1. /\ Has(after, {"DisposeModel", "DisposeFormModel", "DisposeFormTimestampId",
                     "PreventGoingToDisposePage"})
      /\ ck["DisposeFormRegistrationNumber"] =
           IF a.body # None /\ a.body.reg THEN v ELSE Keep
      /\ ck["DisposeFormTransactionId"] = IF a.body # None /\ a.body.tx THEN i ELSE Keep
      /\ after["DisposeFormRegistrationNumber"] =
           IF a.body # None /\ a.body.reg THEN v ELSE c["DisposeFormRegistrationNumber"]
      /\ after["DisposeFormTransactionId"] =
           IF a.body # None /\ a.body.tx THEN i ELSE c["DisposeFormTransactionId"]
      /\ \A k \in Keys \ {"DisposeModel", "DisposeFormModel", "DisposeFormTimestampId",
                          "PreventGoingToDisposePage", "DisposeFormRegistrationNumber",
                          "DisposeFormTransactionId"} : after[k] = c[k]
  BY <1>0, AnswerLeaves
<1>3. v # None /\ i # None /\ i # Keep /\ Keep \notin Vehicles
  BY MarksAreNotValues
<1>4. InStep(after) /\ Has(after, DisposeKeys)
  BY <1>1 DEF InStep, Has, DisposeOnlySet, DisposeKeys, Keys
<1>5. ASSUME ck["DisposeFormRegistrationNumber"] \in Vehicles
      PROVE  /\ r.screen.page = "DisposeSuccess"
             /\ ck["DisposeFormTransactionId"] # Keep
             /\ Has(after, ReceiptKeys)
  <2>1. a.body # None /\ a.body.reg
    BY <1>1, <1>3, <1>5
  <2>2. a.body.tx /\ NextPage(a) = "DisposeSuccess"
    BY <2>1, AnswerPages
  <2>3. /\ after["DisposeFormRegistrationNumber"] # None
        /\ after["DisposeFormTransactionId"] # None
    BY <1>1, <1>3, <2>1, <2>2
  <2>4. Has(after, {"DisposeFormModel", "TraderDetails", "VehicleLookupDetails"})
    BY <1>1, <1>4 DEF Has, DisposeKeys
  <2> QED
    BY <2>4, <2>3, <2>2, <2>1, <1>3, <1>2, <1>1 DEF Has, ReceiptKeys
<1> QED
  BY <1>2, <1>4, <1>5 DEF StepResult, after, r, ck

\* With one tab and cookies that do not expire, what a page was shown with is still
\* there when its form is handled, and what a call was made with when it is answered.
StepInv(t) ==
  /\ InStep(jar)
  /\ screen[t].page = "Dispose" => Has(jar, DisposeKeys)
  /\ req[t].at = "reply" => StepResult(req[t].result, jar, screen[t].page)
  /\ req[t].at = "dispose" =>
       Has(jar, {"TraderDetails", "VehicleLookupFormModel", "VehicleLookupDetails"})

\* The browser's cookies as a function of the keys.
LEMMA JarIsFunction ==
  ASSUME HonestInv
  PROVE  /\ jar = [k \in Keys |-> jar[k]]
         /\ jar["SetupTradeDetails"] \in Traders \union {None}
  BY CookieValues DEF HonestInv, HonestCookies, CookieFunction, Keys

\* A result that keeps the cookies in step keeps the invariant when it is the answer.
LEMMA StepsAnswered ==
  ASSUME HonestInv, NEW t \in Tabs, StepInv(t), NEW r, Answered(t, r),
         StepResult(r, jar, screen[t].page)
  PROVE  StepInv(t)'
<1>1. /\ req'[t].at = "reply" /\ req'[t].result = r
      /\ UNCHANGED <<jar, screen>>
  BY AnsweredRequest
<1>2. StepResult(r, jar', screen'[t].page)
  BY <1>1
<1>3. InStep(jar') /\ (screen'[t].page = "Dispose" => Has(jar', DisposeKeys))
  BY <1>1 DEF StepInv
<1> QED
  BY <1>1, <1>2, <1>3 DEF StepInv

\* So does one that is the answer to a form.
LEMMA StepsForm ==
  ASSUME HonestInv, NEW t \in Tabs, StepInv(t), NEW p, NEW r, Form(t, p, r),
         StepResult(r, jar, p)
  PROVE  StepInv(t)'
  BY StepsAnswered DEF Form

\* A request that goes on without a result.
LEMMA StepsStage ==
  ASSUME HonestInv, NEW t \in Tabs, StepInv(t), NEW q, q.at # "reply",
         q.at = "dispose" =>
           Has(jar, {"TraderDetails", "VehicleLookupFormModel", "VehicleLookupDetails"}),
         req' = [req EXCEPT ![t] = q], UNCHANGED <<jar, screen>>
  PROVE  StepInv(t)'
<1>1. req'[t] = q
  BY DEF HonestInv
<1>2. InStep(jar') /\ (screen'[t].page = "Dispose" => Has(jar', DisposeKeys))
  BY DEF StepInv
<1>3. q.at = "dispose" =>
        Has(jar', {"TraderDetails", "VehicleLookupFormModel", "VehicleLookupDetails"})
  OBVIOUS
<1> QED
  BY <1>1, <1>2, <1>3 DEF StepInv

\* Every step of the user.
LEMMA StepsUser ==
  ASSUME HonestInv, NEW t \in Tabs, StepInv(t), User(t)
  PROVE  StepInv(t)'
<1>1. /\ jar = [k \in Keys |-> jar[k]] /\ InStep(jar)
      /\ screen[t].page = "Dispose" => Has(jar, DisposeKeys)
      /\ jar["SetupTradeDetails"] \in Traders \union {None}
  BY JarIsFunction DEF StepInv
<1>2. CASE Visit(t)
  BY <1>1, <1>2, PresentSteps, StepsAnswered DEF Visit
<1>3. CASE SubmitSetUpTradeDetails(t)
  BY <1>1, <1>3, TradeFormSteps, StepsForm DEF SubmitSetUpTradeDetails
<1>4. /\ StepResult(NeedsSetup("BusinessChooseYourAddress", jar), jar, "BusinessChooseYourAddress")
      /\ StepResult(NeedsSetup("EnterAddressManually", jar), jar, "EnterAddressManually")
      /\ StepResult(VehicleLookupPresent(jar), jar, "VehicleLookup")
      /\ StepResult(DisposeRefused(jar), jar, "Dispose") \/ screen[t].page # "Dispose"
      /\ StepResult(DisposeInvalid(jar), jar, "Dispose") \/ screen[t].page # "Dispose"
  BY <1>1, QuietHandlers, QuietSteps
<1>5. CASE SubmitBusinessChooseYourAddress(t)
  BY <1>1, <1>4, <1>5, TradeFormSteps, StepsForm DEF SubmitBusinessChooseYourAddress
<1>6. CASE SubmitEnterAddressManually(t)
  BY <1>1, <1>4, <1>6, TradeFormSteps, StepsForm DEF SubmitEnterAddressManually
<1>7. CASE SubmitInvalidVehicleLookup(t) \/ ExitVehicleLookup(t) \/ SubmitVrmLocked(t)
  BY <1>1, <1>4, <1>7, ExitSteps, StepsForm
     DEF SubmitInvalidVehicleLookup, ExitVehicleLookup, SubmitVrmLocked
<1>8. CASE SubmitDisposeSuccess(t) \/ SubmitError(t)
  BY <1>1, <1>8, ExitSteps, StepsForm DEF SubmitDisposeSuccess, SubmitError
<1>9. CASE SubmitDisposeInVain(t)
  BY <1>4, <1>9, StepsForm DEF SubmitDisposeInVain, Form
<1>10. CASE SubmitVehicleLookup(t)
  <2>1. PICK v \in Vehicles : req' = [req EXCEPT ![t] = [at |-> "permit", veh |-> v]]
    BY <1>10 DEF SubmitVehicleLookup
  <2> DEFINE q == [at |-> "permit", veh |-> v]
  <2>2. q.at # "reply" /\ q.at # "dispose"
    OBVIOUS
  <2> HIDE DEF q
  <2> QED
    BY <1>10, <2>1, <2>2, StepsStage DEF SubmitVehicleLookup, q
<1>11. CASE SubmitDispose(t)
  <2> DEFINE q == [at |-> "dispose", call |-> Len(calls) + 1, trader |-> DisposeRequest(jar).trader]
  <2>1. q.at # "reply"
    OBVIOUS
  <2>2. req' = [req EXCEPT ![t] = q] /\ UNCHANGED <<jar, screen>>
    BY <1>11 DEF SubmitDispose
  <2>3. Has(jar, {"TraderDetails", "VehicleLookupFormModel", "VehicleLookupDetails"})
    BY <1>1, <1>11 DEF SubmitDispose, MayDispose, Has, DisposeKeys
  <2> HIDE DEF q
  <2> QED
    BY <2>1, <2>2, <2>3, StepsStage
<1> QED
  BY <1>2, <1>3, <1>5, <1>6, <1>7, <1>8, <1>9, <1>10, <1>11 DEF User

\* Every step of the server.
LEMMA StepsServer ==
  ASSUME HonestInv, HonestInv', NEW t \in Tabs, StepInv(t), Server(t)
  PROVE  StepInv(t)'
<1>1. /\ jar = [k \in Keys |-> jar[k]] /\ InStep(jar)
      /\ screen[t].page = "Dispose" => Has(jar, DisposeKeys)
  BY JarIsFunction DEF StepInv
<1>2. CASE Permit(t)
  <2> DEFINE q == [at |-> "lookup", veh |-> req[t].veh]
  <2>1. q.at # "reply" /\ q.at # "dispose"
    OBVIOUS
  <2> HIDE DEF q
  <2> QED
    BY <1>2, <2>1, StepsStage DEF Permit, q
<1>3. CASE Refuse(t)
  <2>1. req[t].veh \in Vehicles
    BY <1>3, RequestStages DEF Refuse
  <2>2. StepResult(GoTo("MicroServiceError"), jar, screen[t].page)
    BY <1>1, QuietHandlers, QuietSteps
  <2> QED
    BY <1>1, <1>3, <2>1, <2>2, LookupSteps, StepsAnswered DEF Refuse
<1>4. CASE AnswerLookup(t)
  <2>1. PICK o \in LookupOutcomes :
          req' = [req EXCEPT ![t] = Reply(LookupVehicleResult(req[t].veh, o))]
    BY <1>4 DEF AnswerLookup
  <2>2. /\ req'[t] = Reply(LookupVehicleResult(req[t].veh, o))
        /\ UNCHANGED <<jar, screen>> /\ req[t].veh \in Vehicles
    BY <1>4, <2>1, RequestStages DEF HonestInv, AnswerLookup
  <2>3. StepResult(LookupVehicleResult(req[t].veh, o), jar, screen[t].page)
    BY <1>1, <2>2, LookupSteps
  <2>4. req'[t].at = "reply" /\ req'[t].result = LookupVehicleResult(req[t].veh, o)
    BY <2>2 DEF Reply
  <2>5. StepResult(req'[t].result, jar', screen'[t].page)
    BY <2>2, <2>3, <2>4
  <2>6. InStep(jar') /\ (screen'[t].page = "Dispose" => Has(jar', DisposeKeys))
    BY <1>1, <2>2
  <2> QED
    BY <2>4, <2>5, <2>6 DEF StepInv
<1>5. CASE AnswerDispose(t)
  <2> DEFINE i == req[t].call
  <2>1. i \in DOMAIN calls /\ i \in TxIds
    BY <1>5, RequestStages DEF AnswerDispose
  <2>2. PICK a \in AnswersFor(calls[i].fate) : Answered(t, DisposeAnswered(a, calls[i].veh, i))
    BY <1>5 DEF AnswerDispose
  <2>3. calls[i].veh \in Vehicles
    <3>1. calls \in Seq(Calls)
      BY DEF HonestInv
    <3>2. calls[i] \in Calls
      BY <2>1, <3>1
    <3> QED
      BY <3>2 DEF Calls
  <2>4. i \in Nat
    BY <2>1, MaxCallsAssumption DEF TxIds
  <2>5. Has(jar, {"TraderDetails", "VehicleLookupFormModel", "VehicleLookupDetails"})
    BY <1>5 DEF AnswerDispose, StepInv
  <2> HIDE DEF i
  <2>6. StepResult(DisposeAnswered(a, calls[i].veh, i), jar, screen[t].page)
    BY <1>1, <2>3, <2>4, <2>5, AnswerSteps
  <2> QED
    BY <2>2, <2>6, StepsAnswered
<1>6. CASE FailDispose(t)
  <2>1. StepResult(DisposeCallFailed, jar, screen[t].page)
    BY <1>1, QuietHandlers, QuietSteps
  <2> QED
    BY <1>6, <2>1, StepsAnswered DEF FailDispose
<1>7. CASE Receive(t)
  <2> DEFINE r == req[t].result
             jarNow == Leaves(r, jar)
             next == Present(r.screen.page, jarNow)
  <2>1. /\ jar' = jarNow
        /\ \/ r.redirect /\ req'[t] = Reply(next) /\ UNCHANGED screen
           \/ ~r.redirect /\ req'[t] = NoRequest /\ screen'[t] = r.screen
    BY <1>7 DEF Receive, HonestInv, Leaves
  <2>2. StepResult(r, jar, screen[t].page) /\ r.screen.page \in Routes
    BY <1>7 DEF Receive, StepInv, HonestInv, HonestResult, ResultOK, Screens, Routes
  <2>3. jarNow = [k \in Keys |-> jarNow[k]]
    BY DEF Leaves, Received
  <2>4. InStep(jarNow) /\ (screen'[t].page = "Dispose" => Has(jarNow, DisposeKeys))
    BY <2>1, <2>2 DEF StepResult
  <2> HIDE DEF jarNow
  <2>5. StepResult(next, jarNow, screen'[t].page)
    BY <2>2, <2>3, <2>4, PresentSteps
  <2> HIDE DEF next, r
  <2>6. req'[t].at \in {"reply", "none"} /\ (req'[t].at = "reply" => req'[t].result = next)
    BY <2>1 DEF Reply, NoRequest
  <2> QED
    BY <2>1, <2>4, <2>5, <2>6 DEF StepInv
<1> QED
  BY <1>2, <1>3, <1>4, <1>5, <1>6, <1>7 DEF Server

\* The redirect that brings a registration number is followed to the page that shows it.
LEMMA NumberIsShown ==
  ASSUME HonestInv, NEW t \in Tabs, StepInv(t), Receive(t),
         req[t].result.cookies["DisposeFormRegistrationNumber"] \in Vehicles
  PROVE  LET ck == req[t].result.cookies
             shown == req'[t].result.screen
         IN  /\ ~req'[t].result.redirect
             /\ shown.page = "DisposeSuccess"
             /\ shown.reg = ck["DisposeFormRegistrationNumber"]
             /\ shown.tx = ck["DisposeFormTransactionId"]
<1> DEFINE r == req[t].result
           jarNow == Received(jar, r.cookies)
<1>1. /\ r.redirect /\ r.screen.page = "DisposeSuccess"
      /\ r.cookies["DisposeFormTransactionId"] # Keep
      /\ Has(jarNow, ReceiptKeys)
  BY DEF Receive, StepInv, StepResult, Leaves
<1>2. req'[t] = Reply(Present("DisposeSuccess", jarNow))
  BY <1>1 DEF Receive, HonestInv
<1>3. r.cookies["DisposeFormRegistrationNumber"] # Keep
  BY MarksAreNotValues
<1>4. /\ jarNow["DisposeFormRegistrationNumber"] = r.cookies["DisposeFormRegistrationNumber"]
      /\ jarNow["DisposeFormTransactionId"] = r.cookies["DisposeFormTransactionId"]
  BY <1>1, <1>3 DEF Received, Keys
<1>5. req'[t].result = DisposeSuccessPresent(jarNow)
  BY <1>2 DEF Reply, Present
<1> HIDE DEF jarNow, r
<1>6. LET next == DisposeSuccessPresent(jarNow)
      IN  /\ ~next.redirect
          /\ next.screen.page = "DisposeSuccess"
          /\ next.screen.reg = jarNow["DisposeFormRegistrationNumber"]
          /\ next.screen.tx = jarNow["DisposeFormTransactionId"]
  BY <1>1 DEF DisposeSuccessPresent, ReceiptKeys, Ok, Blank
<1> QED
  BY <1>4, <1>5, <1>6 DEF r

\* Every step keeps the invariant while no cookie expires.
LEMMA StepsNext ==
  ASSUME NEW t, Tabs = {t}, "idle" \notin Habits, HonestInv, HonestInv', StepInv(t), [Next]_vars
  PROVE  StepInv(t)'
<1>1. CASE User(t) \/ Server(t)
  BY <1>1, StepsUser, StepsServer
<1>2. ASSUME NEW i \in DOMAIN calls, Fulfil(i)
      PROVE  StepInv(t)'
  <2>1. UNCHANGED <<jar, screen, req>>
    BY <1>2 DEF Fulfil
  <2> QED
    BY <2>1 DEF StepInv
<1>3. ~Expire
  BY DEF Expire
<1>4. CASE UNCHANGED vars
  BY <1>4 DEF vars, StepInv
<1> QED
  BY <1>1, <1>2, <1>3, <1>4 DEF Next

\* At first there are no cookies.
LEMMA InitSteps ==
  ASSUME NEW t \in Tabs, Init
  PROVE  StepInv(t)
<1>1. InStep(jar)
  BY DEF Init, EmptyJar, InStep, Has, DisposeOnlySet, Keys
<1> QED
  BY <1>1 DEF Init, StepInv, NoRequest, Blank

\* With one tab and a user who is never idle for so long that a cookie expires: the
\* sets of RelatedCacheKeys leave no cookie of a later step behind.
THEOREM CookiesAlwaysInStep ==
  ASSUME NEW one, Tabs = {one}, "idle" \notin Habits
  PROVE  Spec => []CookiesInStep
<1>1. Init => StepInv(one)
  BY InitSteps
<1>2. HonestInv /\ StepInv(one) /\ [Next]_vars => StepInv(one)'
  BY NextHonest, StepsNext
<1>3. StepInv(one) => CookiesInStep
  BY DEF StepInv, CookiesInStep
<1> QED
  BY <1>1, <1>2, <1>3, AlwaysHonest, PTL DEF Spec

\* Under the same conditions DisposeSuccess.present finds all the cookies it asks for
\* when the answer to a performed disposal has just set them.
THEOREM SuccessIsAlwaysReported ==
  ASSUME NEW one, Tabs = {one}, "idle" \notin Habits
  PROVE  Spec => SuccessIsReported
<1>1. Init => StepInv(one)
  BY InitSteps
<1>2. HonestInv /\ StepInv(one) /\ [Next]_vars => StepInv(one)'
  BY NextHonest, StepsNext
<1>3. HonestInv /\ StepInv(one) =>
        [\A t \in Tabs :
           LET ck == req[t].result.cookies
               shown == req'[t].result.screen
           IN  Receive(t) /\ ck["DisposeFormRegistrationNumber"] \in Vehicles =>
                 /\ ~req'[t].result.redirect
                 /\ shown.page = "DisposeSuccess"
                 /\ shown.reg = ck["DisposeFormRegistrationNumber"]
                 /\ shown.tx = ck["DisposeFormTransactionId"]]_vars
  BY NumberIsShown
<1> QED
  BY <1>1, <1>2, <1>3, AlwaysHonest, PTL DEF Spec, SuccessIsReported

(***************************************************************************)
(* What a user is promised who has one tab and only follows the links and  *)
(* submits the forms of its pages: any vehicles and traders, any bound on  *)
(* the calls.                                                              *)
(*                                                                         *)
(* LinksInv says what the cookies are worth on the page that is shown      *)
(* (AtPage) and on the page a redirect or a link goes to (Heading).  Both  *)
(* take the vehicles found and not submitted since (offered) and the calls *)
(* made to the disposal service (made) as parameters, so that they speak   *)
(* of the states before and after a step alike.                            *)
(***************************************************************************)

\* Pages up to the choice of an address: a trader may have been entered anew since
\* TraderDetails was written.
TradePages == {"BeforeYouStart", "SetUpTradeDetails", "BusinessChooseYourAddress",
               "EnterAddressManually", "UprnNotFound"}

\* TraderDetails is the trader of the trade-details form.
Named(p, c) ==
  \/ p \in TradePages
  \/ ~Has(c, {"TraderDetails"})
  \/ c["TraderDetails"].name = c["SetupTradeDetails"]

\* The vehicle that would be submitted is the one that was found last.
FormReady(c, offered) ==
  /\ c["VehicleLookupFormModel"] = c["VehicleLookupDetails"]
  /\ c["VehicleLookupDetails"] \in offered

Disposed(i, v, made) == i \in DOMAIN made /\ made[i] = [veh |-> v, fate |-> "performed"]

\* A success page tells of one disposal.
Receipt(s, made) ==
  s.page = "DisposeSuccess" => s.veh = s.reg /\ Disposed(s.tx, s.reg, made)

\* Cookies c of a browser that shows s.
AtPage(s, c, offered, made) ==
  /\ Named(s.page, c)
  /\ c["DisposeFormRegistrationNumber"] = None
  /\ s.page = "SoapEndpointError" => Has(c, {"PreventGoingToDisposePage"})
  /\ s.page = "Dispose" =>
       /\ FormReady(c, offered) /\ c["VehicleLookupDetails"] = s.veh
       /\ Has(c, {"TraderDetails", "VehicleLookupDetails"})
  /\ Receipt(s, made)

\* Cookies c of a request for page p.
Heading(p, c, offered, made) ==
  /\ Named(p, c)
  /\ \/ c["DisposeFormRegistrationNumber"] = None
     \/ /\ p = "DisposeSuccess" /\ Has(c, ReceiptKeys)
        /\ c["VehicleLookupDetails"] = c["DisposeFormRegistrationNumber"]
        /\ Disposed(c["DisposeFormTransactionId"], c["DisposeFormRegistrationNumber"], made)
  /\ p = "SoapEndpointError" => Has(c, {"PreventGoingToDisposePage"})
  /\ p = "Dispose" => Has(c, {"PreventGoingToDisposePage"}) \/ FormReady(c, offered)

\* A result on its way to a browser with cookies c.
Leads(r, c, offered, made) ==
  IF r.redirect THEN Heading(r.screen.page, Leaves(r, c), offered, made)
  ELSE AtPage(r.screen, Leaves(r, c), offered, made)

LinksInv(t) ==
  /\ req[t].at = "none" => AtPage(screen[t], jar, found, calls)
  /\ req[t].at = "reply" => Leads(req[t].result, jar, found, calls)
  /\ req[t].at \in {"permit", "lookup"} => Heading("VehicleLookup", jar, found, calls)
  /\ req[t].at = "dispose" =>
       /\ Heading("DisposeFailure", jar, found, calls)
       /\ Has(jar, {"VehicleLookupDetails"})
       /\ calls[req[t].call].veh = jar["VehicleLookupDetails"]

----------
(* Pages and redirects.                                                    *)

\* Where a handler's result leads, from the cookies it leaves.
LEMMA ResultsLead ==
  ASSUME NEW c, c = [k \in Keys |-> c[k]], NEW offered, NEW made
  PROVE  /\ \A p : Heading(p, c, offered, made) => Leads(GoTo(p), c, offered, made)
         /\ \A p : AtPage(Blank(p), c, offered, made) => Leads(Show(p), c, offered, made)
         /\ \A s : AtPage(s, c, offered, made) => Leads(Ok(s, Untouched), c, offered, made)
         /\ \A p, ck : Heading(p, Received(c, ck), offered, made) =>
              Leads(Redirect(p, ck), c, offered, made)
         /\ \A s, ck : AtPage(s, Received(c, ck), offered, made) =>
              Leads(Ok(s, ck), c, offered, made)
<1>1. /\ \A p, ck : Heading(p, Received(c, ck), offered, made) =>
           Leads(Redirect(p, ck), c, offered, made)
      /\ \A s, ck : AtPage(s, Received(c, ck), offered, made) =>
           Leads(Ok(s, ck), c, offered, made)
  BY DEF Leads, Leaves, Redirect, Ok, Blank
<1>2. Received(c, Untouched) = c
  BY PlainLeave
<1> QED
  BY <1>1, <1>2 DEF GoTo, Show

\* Cookies without a registration number, on the pages that ask for nothing else.
LEMMA AnyPage ==
  ASSUME NEW c, c["DisposeFormRegistrationNumber"] = None, NEW offered, NEW made
  PROVE  /\ \A p \in TradePages : Heading(p, c, offered, made)
         /\ \A p : Named(p, c) /\ p \notin {"SoapEndpointError", "Dispose"} =>
              Heading(p, c, offered, made)
         /\ \A s : Named(s.page, c)
                     /\ s.page \notin {"SoapEndpointError", "Dispose", "DisposeSuccess"} =>
              AtPage(s, c, offered, made)
         /\ \A p : Blank(p).page = p
  BY DEF Heading, AtPage, Receipt, Named, TradePages, Blank

\* Pages behind the trade details are all the same to Named.
LEMMA NamedElsewhere ==
  ASSUME NEW c, NEW p, p \notin TradePages, Named(p, c)
  PROVE  \A q : Named(q, c)
  BY DEF Named

\* A page is left by its links.
LEMMA LinksHead ==
  ASSUME NEW c, NEW offered, NEW made, NEW s, AtPage(s, c, offered, made),
         NEW p \in Links(s.page)
  PROVE  Heading(p, c, offered, made)
<1>1. /\ s.page \in TradePages => p \in TradePages
      /\ p \notin {"SoapEndpointError", "DisposeSuccess"}
      /\ p = "Dispose" => s.page = "SoapEndpointError"
  BY DEF Links, TradePages
<1> QED
  BY <1>1 DEF AtPage, Heading, Named

\* Every GET address leads on.
LEMMA PresentLeads ==
  ASSUME NEW c, c = [k \in Keys |-> c[k]], NEW offered, NEW made,
         NEW r \in Routes, Heading(r, c, offered, made)
  PROVE  Leads(Present(r, c), c, offered, made)
<1>1. r # "DisposeSuccess" => c["DisposeFormRegistrationNumber"] = None
  BY DEF Heading
<1>2. r \notin TradePages => \A q : Named(q, c)
  BY NamedElsewhere DEF Heading
<1>3. c["DisposeFormRegistrationNumber"] = None =>
        \A p \in TradePages : Leads(GoTo(p), c, offered, made) /\ Leads(Show(p), c, offered, made)
  BY AnyPage, ResultsLead DEF Named, TradePages
<1>4. CASE r = "BeforeYouStart"
  <2> DEFINE after == Received(c, Discarding(FullSet))
  <2>1. after["DisposeFormRegistrationNumber"] = None
    BY ReceivedAt DEF Keys, FullSet, DisposeSet
  <2> HIDE DEF after
  <2>2. AtPage(Blank("BeforeYouStart"), after, offered, made)
    BY <2>1 DEF AtPage, Receipt, Named, TradePages, Blank
  <2>3. Leads(Ok(Blank("BeforeYouStart"), Discarding(FullSet)), c, offered, made)
    BY <2>2, ResultsLead DEF after
  <2> QED
    BY <1>4, <2>3 DEF Present, BeforeYouStartPresent
<1>5. CASE r \in {"BusinessChooseYourAddress", "EnterAddressManually"}
  BY <1>1, <1>3, <1>5 DEF Present, NeedsSetup, TradePages
<1>6. CASE r = "VehicleLookup"
  <2>1. \A b : [Blank("VehicleLookup") EXCEPT !.trader = c["TraderDetails"],
                  !.exit = b].page = "VehicleLookup"
    BY DEF Blank
  <2>2. \A s : s.page = "VehicleLookup" => Leads(Ok(s, Untouched), c, offered, made)
    BY <1>1, <1>2, <1>6, AnyPage, ResultsLead DEF TradePages
  <2> QED
    BY <1>1, <1>3, <1>6, <2>1, <2>2 DEF Present, VehicleLookupPresent, TradePages
<1>7. CASE r = "VehicleLookupBack"
  BY <1>1, <1>3, <1>7 DEF Present, VehicleLookupBack, TradePages
<1>8. CASE r = "VehicleLookupFailure"
  <2>1. \A v : [Blank("VehicleLookupFailure") EXCEPT !.veh = v].page = "VehicleLookupFailure"
    BY DEF Blank
  <2>2. \A s : s.page = "VehicleLookupFailure" => Leads(Ok(s, Untouched), c, offered, made)
    BY <1>1, <1>2, <1>8, AnyPage, ResultsLead DEF TradePages
  <2> QED
    BY <1>1, <1>3, <1>8, <2>1, <2>2 DEF Present, VehicleLookupFailurePresent, TradePages
<1>9. CASE r = "VrmLocked"
  <2>1. Leads(Show("VrmLocked"), c, offered, made) /\ Leads(GoTo("VehicleLookup"), c, offered, made)
    BY <1>1, <1>2, <1>9, AnyPage, ResultsLead DEF TradePages
  <2> QED
    BY <1>9, <2>1 DEF Present, VrmLockedPresent
<1>10. CASE r = "Dispose"
  <2>1. Leads(GoTo("VehicleLookup"), c, offered, made)
    BY <1>1, <1>2, <1>10, AnyPage, ResultsLead DEF TradePages
  <2>2. CASE Has(c, {"PreventGoingToDisposePage"})
    <3> DEFINE after == Received(c, Discarding({"PreventGoingToDisposePage"}))
    <3>1. \A k \in Keys \ {"PreventGoingToDisposePage"} : after[k] = c[k]
      BY ReceivedAt
    <3> HIDE DEF after
    <3>2. Heading("VehicleLookup", after, offered, made)
      BY <1>1, <1>2, <1>10, <3>1 DEF TradePages, Named, Has, Heading, Keys
    <3>3. Leads(Redirect("VehicleLookup", Discarding({"PreventGoingToDisposePage"})),
                c, offered, made)
      BY <3>2, ResultsLead DEF after
    <3> QED
      BY <1>10, <2>2, <3>3 DEF Present, DisposePresent
  <2>3. ASSUME ~Has(c, {"PreventGoingToDisposePage"}), Has(c, {"TraderDetails"}),
               Has(c, {"VehicleLookupDetails"})
        PROVE  Leads(Ok(DisposeScreen(c), Untouched), c, offered, made)
    <3>1. DisposeScreen(c).page = "Dispose" /\ DisposeScreen(c).veh = c["VehicleLookupDetails"]
      BY DEF DisposeScreen, Blank
    <3>2. AtPage(DisposeScreen(c), c, offered, made)
      BY <1>1, <1>2, <1>10, <2>3, <3>1 DEF TradePages, AtPage, Receipt, Heading, Has
    <3> QED
      BY <3>2, ResultsLead
  <2> QED
    BY <1>1, <1>3, <1>10, <2>1, <2>2, <2>3 DEF Present, DisposePresent, TradePages
<1>11. CASE r = "DisposeSuccess"
  <2>1. CASE Has(c, ReceiptKeys)
    <3> DEFINE after == Received(c, Discarding(DisposeOnlySet))
               s == [Blank("DisposeSuccess") EXCEPT
                       !.veh = c["VehicleLookupDetails"],
                       !.trader = c["TraderDetails"],
                       !.reg = c["DisposeFormRegistrationNumber"],
                       !.tx = c["DisposeFormTransactionId"]]
    <3>1. \A k \in Keys : after[k] = IF k \in DisposeOnlySet THEN None ELSE c[k]
      BY ReceivedAt
    <3>2. /\ s.page = "DisposeSuccess" /\ s.veh = c["VehicleLookupDetails"]
          /\ s.reg = c["DisposeFormRegistrationNumber"]
          /\ s.tx = c["DisposeFormTransactionId"]
      BY DEF Blank
    <3>3. DisposeSuccessPresent(c) = Ok(s, Discarding(DisposeOnlySet))
      BY <2>1 DEF DisposeSuccessPresent, ReceiptKeys
    <3> HIDE DEF after, s
    <3>4. c["DisposeFormRegistrationNumber"] # None
      BY <2>1 DEF Has, ReceiptKeys
    <3>5. Named("DisposeSuccess", after)
      BY <1>2, <1>11, <3>1 DEF TradePages, Named, Has, Keys, DisposeOnlySet
    <3>6. after["DisposeFormRegistrationNumber"] = None
      BY <3>1 DEF Keys, DisposeOnlySet
    <3>7. AtPage(s, after, offered, made)
      BY <1>11, <3>2, <3>4, <3>5, <3>6 DEF AtPage, Receipt, Heading
    <3>8. Leads(Ok(s, Discarding(DisposeOnlySet)), c, offered, made)
      BY <3>7, ResultsLead DEF after
    <3> QED
      BY <1>11, <3>3, <3>8 DEF Present
  <2>2. CASE ~Has(c, ReceiptKeys)
    <3>1. Leads(GoTo("VehicleLookup"), c, offered, made)
      BY <1>2, <1>11, <2>2, AnyPage, ResultsLead DEF Heading, TradePages
    <3> QED
      BY <1>11, <2>2, <3>1 DEF Present, DisposeSuccessPresent, ReceiptKeys
  <2> QED
    BY <2>1, <2>2
<1>12. CASE r = "DisposeFailure"
  <2> DEFINE s == [Blank("DisposeFailure") EXCEPT
                     !.veh = c["VehicleLookupDetails"],
                     !.trader = c["TraderDetails"],
                     !.tx = c["DisposeFormTransactionId"]]
  <2>1. s.page = "DisposeFailure"
    BY DEF Blank
  <2>2. DisposeFailurePresent(c) \in {Ok(s, Untouched), GoTo("SetUpTradeDetails")}
    BY DEF DisposeFailurePresent
  <2> HIDE DEF s
  <2>3. Leads(Ok(s, Untouched), c, offered, made)
    BY <1>1, <1>2, <1>12, <2>1, AnyPage, ResultsLead DEF TradePages
  <2>4. Leads(GoTo("SetUpTradeDetails"), c, offered, made)
    BY <1>1, <1>3, <1>12 DEF TradePages
  <2> QED
    BY <1>12, <2>2, <2>3, <2>4 DEF Present
<1>13. CASE r \in {"SetUpTradeDetails", "UprnNotFound", "DuplicateDisposalError",
                   "MicroServiceError", "SoapEndpointError", "Error"}
  <2>1. Blank(r).page = r
    BY DEF Blank
  <2>2. AtPage(Blank(r), c, offered, made)
    BY <1>1, <1>13, <2>1 DEF AtPage, Receipt, Heading
  <2>3. Leads(Show(r), c, offered, made)
    BY <2>2, ResultsLead
  <2> QED
    BY <1>13, <2>3 DEF Present
<1> QED
  BY <1>4, <1>5, <1>6, <1>7, <1>8, <1>9, <1>10, <1>11, <1>12, <1>13 DEF Routes, Pages

\* The forms of the trade details.
LEMMA TradeFormsLead ==
  ASSUME NEW c, c = [k \in Keys |-> c[k]], c["SetupTradeDetails"] \in Traders \union {None},
         c["DisposeFormRegistrationNumber"] = None, NEW offered, NEW made
  PROVE  /\ \A n \in Traders \union {None} :
              Leads(SetUpTradeDetailsSubmit(n, c), c, offered, made)
         /\ \A b \in BOOLEAN : Leads(BusinessChooseYourAddressSubmit(b, c), c, offered, made)
         /\ Leads(EnterAddressManuallySubmit(c), c, offered, made)
         /\ \A p \in TradePages : Leads(NeedsSetup(p, c), c, offered, made)
<1>1. \A p \in TradePages : Leads(GoTo(p), c, offered, made) /\ Leads(Show(p), c, offered, made)
  BY AnyPage, ResultsLead DEF Named, TradePages
<1>2. \A p \in TradePages : Leads(NeedsSetup(p, c), c, offered, made)
  BY <1>1 DEF NeedsSetup, TradePages
<1>3. ASSUME NEW n \in Traders
      PROVE  Leads(SetUpTradeDetailsSubmit(n, c), c, offered, made)
  <2> DEFINE r == SetUpTradeDetailsSubmit(n, c)
             after == Leaves(r, c)
  <2>1. n # None
    BY MarksAreNotValues
  <2>2. r.redirect /\ r.screen.page = "BusinessChooseYourAddress"
    BY <2>1 DEF SetUpTradeDetailsSubmit, Redirect, Blank
  <2>3. after["DisposeFormRegistrationNumber"] = None
    BY TradeDetailsLeave DEF Keys
  <2> HIDE DEF r, after
  <2>4. Heading("BusinessChooseYourAddress", after, offered, made)
    BY <2>3, AnyPage DEF TradePages
  <2>5. Leads(r, c, offered, made)
    BY <2>2, <2>4 DEF Leads, after
  <2> QED
    BY <2>5 DEF r
<1>4. Leads(SetUpTradeDetailsSubmit(None, c), c, offered, made)
  BY <1>1 DEF SetUpTradeDetailsSubmit, TradePages
<1>5. ASSUME NEW r, Has(c, {"SetupTradeDetails"}),
             \/ r = BusinessChooseYourAddressSubmit(TRUE, c)
             \/ r = EnterAddressManuallySubmit(c)
      PROVE  Leads(r, c, offered, made)
  <2> DEFINE after == Leaves(r, c)
  <2>1. r.redirect /\ r.screen.page = "VehicleLookup"
    <3>1. /\ BusinessChooseYourAddressSubmit(TRUE, c).redirect
          /\ BusinessChooseYourAddressSubmit(TRUE, c).screen.page = "VehicleLookup"
      BY <1>5 DEF BusinessChooseYourAddressSubmit, Redirect, Blank
    <3>2. /\ EnterAddressManuallySubmit(c).redirect
          /\ EnterAddressManuallySubmit(c).screen.page = "VehicleLookup"
      BY <1>5 DEF EnterAddressManuallySubmit, Redirect, Blank
    <3> QED
      BY <1>5, <3>1, <3>2
  <2>2. c["SetupTradeDetails"] \in Traders
    BY <1>5 DEF Has
  <2>3. /\ after["TraderDetails"].name = c["SetupTradeDetails"]
        /\ \A k \in Keys \ {"TraderDetails", "BusinessChooseYourAddress",
                            "EnterAddressManually"} : after[k] = c[k]
    BY <1>5, <2>2, AddressLeaves
  <2> HIDE DEF after
  <2>4. Heading("VehicleLookup", after, offered, made)
    <3>1. after["DisposeFormRegistrationNumber"] = None
      BY <2>3 DEF Keys
    <3>2. after["SetupTradeDetails"] = c["SetupTradeDetails"]
      BY <2>3 DEF Keys
    <3> QED
      BY <2>3, <3>1, <3>2 DEF Heading, Named
  <2> QED
    BY <2>1, <2>4 DEF Leads, after
<1>6. ASSUME NEW b \in BOOLEAN
      PROVE  Leads(BusinessChooseYourAddressSubmit(b, c), c, offered, made)
  <2>1. CASE Has(c, {"SetupTradeDetails"}) /\ b = TRUE
    BY <1>5, <2>1
  <2>2. CASE ~Has(c, {"SetupTradeDetails"}) \/ b = FALSE
    BY <1>1, <2>2 DEF BusinessChooseYourAddressSubmit, TradePages
  <2> QED
    BY <2>1, <2>2
<1>7. Leads(EnterAddressManuallySubmit(c), c, offered, made)
  <2>1. CASE Has(c, {"SetupTradeDetails"})
    BY <1>5, <2>1
  <2>2. CASE ~Has(c, {"SetupTradeDetails"})
    BY <1>1, <2>2 DEF EnterAddressManuallySubmit, TradePages
  <2> QED
    BY <2>1, <2>2
<1> QED
  BY <1>2, <1>3, <1>4, <1>6, <1>7

\* The ways back to the first page.
LEMMA ExitsLead ==
  ASSUME NEW c, c = [k \in Keys |-> c[k]], NEW offered, NEW made
  PROVE  /\ Leads(VehicleLookupExit(c), c, offered, made)
         /\ Leads(VrmLockedExit(c), c, offered, made)
         /\ Leads(DisposeSuccessExit(c), c, offered, made)
         /\ Leads(ErrorSubmit(c), c, offered, made)
<1> DEFINE number == "DisposeFormRegistrationNumber"
<1>1. number \in Keys /\ number \in FullSet
  BY DEF Keys, FullSet, DisposeSet
<1>2. /\ Leaves(VehicleLookupExit(c), c)[number] = None
      /\ Leaves(VrmLockedExit(c), c)[number] = None
      /\ Leaves(DisposeSuccessExit(c), c)[number] = None
      /\ Leaves(ErrorSubmit(c), c)[number] = None
  BY <1>1, DiscardingLeave, ExitsLeave
<1>3. \A after : after[number] = None => Heading("BeforeYouStart", after, offered, made)
  BY AnyPage DEF TradePages
<1>4. \A ck : LET r == Redirect("BeforeYouStart", ck)
              IN  r.redirect /\ r.screen.page = "BeforeYouStart"
  BY DEF Redirect, Blank
<1> QED
  BY <1>2, <1>3, <1>4
     DEF Leads, VehicleLookupExit, VrmLockedExit, DisposeSuccessExit, ErrorSubmit

\* A new disposal by the same trader.
LEMMA NewDisposalsLead ==
  ASSUME NEW c, c = [k \in Keys |-> c[k]], NEW offered, NEW made, NEW p, p \notin TradePages,
         Named(p, c), c["DisposeFormRegistrationNumber"] = None
  PROVE  /\ Leads(VrmLockedNewDisposal(c), c, offered, made)
         /\ Leads(DisposeSuccessNewDisposal(c), c, offered, made)
<1>1. Leads(GoTo("SetUpTradeDetails"), c, offered, made)
  BY AnyPage, ResultsLead DEF TradePages
<1>2. ASSUME NEW after, \A k \in Keys \ {"PreventGoingToDisposePage", "DisposeOccurred"} :
                          after[k] = IF k \in DisposeSet THEN None ELSE c[k]
      PROVE  Heading("VehicleLookup", after, offered, made)
  BY <1>2 DEF Heading, Named, Has, Keys, DisposeSet
<1>3. ASSUME Has(c, {"TraderDetails"})
      PROVE  Leads(VrmLockedNewDisposal(c), c, offered, made)
  <2>1. /\ VrmLockedNewDisposal(c).redirect
        /\ VrmLockedNewDisposal(c).screen.page = "VehicleLookup"
    BY <1>3 DEF VrmLockedNewDisposal, Redirect, Blank
  <2>2. \A k \in Keys : Leaves(VrmLockedNewDisposal(c), c)[k] =
                          IF k \in DisposeSet THEN None ELSE c[k]
    BY <1>3, DiscardingLeave
  <2> QED
    BY <1>2, <2>1, <2>2 DEF Leads
<1>4. ASSUME Has(c, {"TraderDetails", "VehicleLookupDetails"})
      PROVE  Leads(DisposeSuccessNewDisposal(c), c, offered, made)
  <2>1. /\ DisposeSuccessNewDisposal(c).redirect
        /\ DisposeSuccessNewDisposal(c).screen.page = "VehicleLookup"
    BY <1>4 DEF DisposeSuccessNewDisposal, Redirect, Blank
  <2>2. \A k \in Keys \ {"PreventGoingToDisposePage", "DisposeOccurred"} :
          Leaves(DisposeSuccessNewDisposal(c), c)[k] = IF k \in DisposeSet THEN None ELSE c[k]
    BY <1>4, ExitsLeave
  <2> QED
    BY <1>2, <2>1, <2>2 DEF Leads
<1> QED
  BY <1>1, <1>3, <1>4 DEF VrmLockedNewDisposal, DisposeSuccessNewDisposal

\* Forms that show their page again, or are turned away.
LEMMA PagesAgain ==
  ASSUME NEW c, c = [k \in Keys |-> c[k]], NEW offered, NEW made, NEW s, AtPage(s, c, offered, made)
  PROVE  /\ s.page = "VehicleLookup" => Leads(VehicleLookupPresent(c), c, offered, made)
         /\ s.page = "Dispose" => /\ Leads(DisposeInvalid(c), c, offered, made)
                                  /\ Leads(DisposeRefused(c), c, offered, made)
<1>1. ASSUME s.page = "VehicleLookup"
      PROVE  Leads(VehicleLookupPresent(c), c, offered, made)
  <2>1. Heading("VehicleLookup", c, offered, made)
    BY <1>1 DEF AtPage, Heading
  <2>2. Leads(Present("VehicleLookup", c), c, offered, made)
    BY <2>1, PresentLeads DEF Routes, Pages
  <2> QED
    BY <2>2 DEF Present
<1>2. ASSUME s.page = "Dispose"
      PROVE  Leads(DisposeInvalid(c), c, offered, made)
  <2>1. DisposeScreen(c).page = "Dispose" /\ DisposeScreen(c).veh = c["VehicleLookupDetails"]
    BY DEF DisposeScreen, Blank
  <2>2. AtPage(DisposeScreen(c), c, offered, made)
    BY <1>2, <2>1 DEF AtPage, Receipt
  <2>3. Leads(Ok(DisposeScreen(c), Untouched), c, offered, made)
    BY <2>2, ResultsLead
  <2> QED
    BY <1>2, <2>3 DEF DisposeInvalid, AtPage
<1>3. ASSUME s.page = "Dispose"
      PROVE  Leads(DisposeRefused(c), c, offered, made)
  <2>1. Leads(GoTo("VehicleLookup"), c, offered, made) /\ Leads(GoTo("SetUpTradeDetails"), c, offered, made)
    BY <1>3, AnyPage, NamedElsewhere, ResultsLead DEF AtPage, TradePages
  <2> QED
    BY <2>1 DEF DisposeRefused
<1> QED
  BY <1>1, <1>2, <1>3

----------
(* The answers of the services.                                            *)

\* The brute-force service refuses, or the lookup service answers: a dispose page is
\* headed for with the vehicle that has just been found.
LEMMA LookupsLead ==
  ASSUME NEW c, c = [k \in Keys |-> c[k]], NEW offered, NEW made,
         Heading("VehicleLookup", c, offered, made), NEW v \in Vehicles
  PROVE  /\ Leads(VrmLockedResult(v), c, offered, made)
         /\ Leads(GoTo("MicroServiceError"), c, offered, made)
         /\ \A o \in LookupOutcomes :
              Leads(LookupVehicleResult(v, o), c,
                    IF o = "found" THEN offered \union {v} ELSE offered, made)
<1>1. c["DisposeFormRegistrationNumber"] = None /\ \A q : Named(q, c)
  BY NamedElsewhere DEF Heading, TradePages
<1>2. Leads(GoTo("MicroServiceError"), c, offered, made)
  BY <1>1, AnyPage, ResultsLead
<1>3. Leads(VrmLockedResult(v), c, offered, made)
  <2> DEFINE after == Leaves(VrmLockedResult(v), c)
  <2>1. VrmLockedResult(v).redirect /\ VrmLockedResult(v).screen.page = "VrmLocked"
    BY DEF VrmLockedResult, Redirect, Blank
  <2>2. \A k \in Keys \ {"BruteForcePreventionViewModel"} : after[k] = c[k]
    BY LockedLeaves
  <2> HIDE DEF after
  <2>3. Heading("VrmLocked", after, offered, made)
    BY <1>1, <2>2 DEF Heading, Named, Has, TradePages, Keys
  <2> QED
    BY <2>1, <2>3 DEF Leads, after
<1>4. ASSUME NEW o \in LookupOutcomes, NEW now,
             now = IF o = "found" THEN offered \union {v} ELSE offered
      PROVE  Leads(LookupVehicleResult(v, o), c, now, made)
  <2> DEFINE r == LookupVehicleResult(v, o)
             after == Leaves(r, c)
             others == Keys \ {"VehicleLookupFormModel", "BruteForcePreventionViewModel",
                               "VehicleLookupDetails", "VehicleLookupResponseCode",
                               "PreventGoingToDisposePage"}
  <2>1. /\ o = "found" => after["VehicleLookupFormModel"] = v /\ after["VehicleLookupDetails"] = v
        /\ \A k \in others : after[k] = c[k]
    BY LookupLeaves
  <2>2. /\ r.redirect
        /\ r.screen.page \in {"Dispose", "VehicleLookupFailure", "MicroServiceError"}
        /\ r.screen.page = "Dispose" => o = "found"
    BY DEF LookupVehicleResult, LookupOutcomes, GoTo, Redirect, Blank
  <2> HIDE DEF after
  <2>3. after["DisposeFormRegistrationNumber"] = None /\ \A q : Named(q, after)
    BY <1>1, <2>1 DEF Named, Has, TradePages, Keys
  <2>4. o = "found" => FormReady(after, now)
    BY <1>4, <2>1 DEF FormReady
  <2> HIDE DEF r
  <2>5. Heading(r.screen.page, after, now, made)
    BY <2>2, <2>3, <2>4 DEF Heading
  <2>6. Leads(r, c, now, made)
    BY <2>2, <2>5 DEF Leads, after
  <2> QED
    BY <2>6 DEF r
<1> QED
  BY <1>2, <1>3, <1>4

\* The disposal service answers call i, which was made for the vehicle v of the cookies:
\* identifiers are only set for a disposal that it performed.
LEMMA AnswersLead ==
  ASSUME NEW c, c = [k \in Keys |-> c[k]], InStep(c), NEW offered, NEW made,
         Has(c, {"TraderDetails", "VehicleLookupFormModel", "VehicleLookupDetails"}),
         Heading("DisposeFailure", c, offered, made),
         NEW v \in Vehicles, v = c["VehicleLookupDetails"],
         NEW i \in Nat, i \in DOMAIN made, NEW fate, made[i] = [veh |-> v, fate |-> fate],
         NEW a \in AnswersFor(fate)
  PROVE  Leads(DisposeAnswered(a, v, i), c, offered, made)
<1> DEFINE r == DisposeAnswered(a, v, i)
           after == Leaves(r, c)
           ck == r.cookies
<1>1. after = Leaves(DisposeAnswered(a, v, i), c) /\ ck = DisposeAnswered(a, v, i).cookies
  OBVIOUS
<1>2. r.redirect /\ r.screen.page = NextPage(a)
  BY DEF DisposeAnswered, Redirect, Blank
<1>3. /\ ck["DisposeFormRegistrationNumber"] \in Vehicles => Has(after, ReceiptKeys)
      /\ ck = r.cookies /\ after = Leaves(r, c)
  <2>1. StepResult(r, c, "MicroServiceError")
    BY AnswerSteps
  <2> HIDE DEF r
  <2> QED
    BY <2>1 DEF StepResult
<1> HIDE DEF after, r, ck
<1>4. /\ Has(after, {"PreventGoingToDisposePage"})
      /\ ck["DisposeFormRegistrationNumber"] = IF a.body # None /\ a.body.reg THEN v ELSE Keep
      /\ after["DisposeFormRegistrationNumber"] =
           IF a.body # None /\ a.body.reg THEN v ELSE c["DisposeFormRegistrationNumber"]
      /\ after["DisposeFormTransactionId"] =
           IF a.body # None /\ a.body.tx THEN i ELSE c["DisposeFormTransactionId"]
      /\ \A k \in Keys \ {"DisposeModel", "DisposeFormModel", "DisposeFormTimestampId",
                          "PreventGoingToDisposePage", "DisposeFormRegistrationNumber",
                          "DisposeFormTransactionId"} : after[k] = c[k]
  BY <1>1, AnswerLeaves DEF Has
<1>5. NextPage(a) # "Dispose"
  BY DEF NextPage, HandleResponseCode, HandleHttpStatusCode
<1>6. c["DisposeFormRegistrationNumber"] = None /\ Named(NextPage(a), after)
  BY <1>4 DEF Heading, Named, Has, TradePages, Keys
<1>7. CASE a.body # None /\ a.body.reg
  <2>1. fate = "performed" /\ a.body.tx /\ NextPage(a) = "DisposeSuccess"
    BY <1>7, AnswerPages
  <2>2. Has(after, ReceiptKeys)
    BY <1>3, <1>4, <1>7
  <2>3. /\ after["DisposeFormRegistrationNumber"] = v
        /\ after["DisposeFormTransactionId"] = i
        /\ after["VehicleLookupDetails"] = v
    BY <1>4, <1>7, <2>1 DEF Keys
  <2>4. Disposed(i, v, made)
    BY <2>1 DEF Disposed
  <2>5. Heading("DisposeSuccess", after, offered, made)
    BY <2>4, <2>3, <2>2, <2>1, <1>6 DEF Heading
  <2>6. Leads(r, c, offered, made)
    BY <1>2, <1>3, <2>1, <2>5 DEF Leads
  <2> QED
    BY <2>6 DEF r
<1>8. CASE ~(a.body # None /\ a.body.reg)
  <2>1. Heading(NextPage(a), after, offered, made)
    BY <1>4, <1>5, <1>6, <1>8 DEF Heading
  <2>2. Leads(r, c, offered, made)
    BY <1>2, <1>3, <2>1 DEF Leads
  <2> QED
    BY <2>2 DEF r
<1> QED
  BY <1>7, <1>8

----------
(* Steps.                                                                  *)

\* A user who is not impatient acts on a page that is shown.
LEMMA ActsOnPage ==
  ASSUME NEW t \in Tabs, Habits = {}, LinksInv(t), MayAct(t)
  PROVE  AtPage(screen[t], jar, found, calls)
  BY DEF MayAct, NoRequest, LinksInv

\* A result that leads on keeps the invariant when it is the answer.
LEMMA LinksAnswered ==
  ASSUME HonestInv, NEW t \in Tabs, NEW r, Answered(t, r), Leads(r, jar, found, calls)
  PROVE  LinksInv(t)'
<1>1. /\ req'[t].at = "reply" /\ req'[t].result = r
      /\ UNCHANGED <<jar, screen, calls, found>>
  BY AnsweredRequest
<1>2. Leads(req'[t].result, jar', found', calls')
  BY <1>1
<1> QED
  BY <1>1, <1>2 DEF LinksInv

\* A link is followed.
LEMMA LinksVisit ==
  ASSUME HonestInv, NEW t \in Tabs, Habits = {}, LinksInv(t), Visit(t)
  PROVE  LinksInv(t)'
<1>1. PICK r \in Routes : r \in Links(screen[t].page) /\ Answered(t, Present(r, jar))
  BY DEF Visit
<1>2. AtPage(screen[t], jar, found, calls)
  BY ActsOnPage DEF Visit
<1>3. Heading(r, jar, found, calls)
  BY <1>1, <1>2, LinksHead
<1>4. Leads(Present(r, jar), jar, found, calls)
  BY <1>3, JarIsFunction, PresentLeads
<1> QED
  BY <1>1, <1>4, LinksAnswered

\* The forms that ask no service.
LEMMA LinksForms ==
  ASSUME HonestInv, NEW t \in Tabs, Habits = {}, LinksInv(t),
         \/ SubmitSetUpTradeDetails(t) \/ SubmitBusinessChooseYourAddress(t)
         \/ SubmitEnterAddressManually(t) \/ SubmitInvalidVehicleLookup(t)
         \/ ExitVehicleLookup(t) \/ SubmitVrmLocked(t) \/ SubmitDisposeSuccess(t)
         \/ SubmitError(t) \/ SubmitDisposeInVain(t)
  PROVE  LinksInv(t)'
<1>1. /\ jar = [k \in Keys |-> jar[k]]
      /\ jar["SetupTradeDetails"] \in Traders \union {None}
  BY JarIsFunction
<1>2. MayAct(t)
  BY DEF SubmitSetUpTradeDetails, SubmitBusinessChooseYourAddress, SubmitEnterAddressManually,
         SubmitInvalidVehicleLookup, ExitVehicleLookup, SubmitVrmLocked, SubmitDisposeSuccess,
         SubmitError, SubmitDisposeInVain, Form
<1>3. AtPage(screen[t], jar, found, calls)
  BY <1>2, ActsOnPage
<1>4. jar["DisposeFormRegistrationNumber"] = None /\ Named(screen[t].page, jar)
  BY <1>3 DEF AtPage
<1>5. CASE SubmitSetUpTradeDetails(t)
  BY <1>1, <1>4, <1>5, TradeFormsLead, LinksAnswered DEF SubmitSetUpTradeDetails, Form
<1>6. CASE SubmitBusinessChooseYourAddress(t)
  BY <1>1, <1>4, <1>6, TradeFormsLead, LinksAnswered
     DEF SubmitBusinessChooseYourAddress, Form, TradePages
<1>7. CASE SubmitEnterAddressManually(t)
  BY <1>1, <1>4, <1>7, TradeFormsLead, LinksAnswered
     DEF SubmitEnterAddressManually, Form, TradePages
<1>8. CASE SubmitInvalidVehicleLookup(t)
  BY <1>1, <1>3, <1>8, PagesAgain, LinksAnswered DEF SubmitInvalidVehicleLookup, Form
<1>9. CASE ExitVehicleLookup(t) \/ SubmitError(t)
  BY <1>1, <1>9, ExitsLead, LinksAnswered DEF ExitVehicleLookup, SubmitError, Form
<1>10. CASE SubmitVrmLocked(t)
  <2>1. screen[t].page = "VrmLocked"
    BY <1>10 DEF SubmitVrmLocked, Form
  <2>2. Leads(VrmLockedNewDisposal(jar), jar, found, calls)
    BY <1>1, <1>4, <2>1, NewDisposalsLead DEF TradePages
  <2> QED
    BY <1>1, <1>10, <2>2, ExitsLead, LinksAnswered DEF SubmitVrmLocked, Form
<1>11. CASE SubmitDisposeSuccess(t)
  <2>1. screen[t].page = "DisposeSuccess"
    BY <1>11 DEF SubmitDisposeSuccess, Form
  <2>2. Leads(DisposeSuccessNewDisposal(jar), jar, found, calls)
    BY <1>1, <1>4, <2>1, NewDisposalsLead DEF TradePages
  <2> QED
    BY <1>1, <1>11, <2>2, ExitsLead, LinksAnswered DEF SubmitDisposeSuccess, Form
<1>12. CASE SubmitDisposeInVain(t)
  BY <1>1, <1>3, <1>12, PagesAgain, LinksAnswered DEF SubmitDisposeInVain, Form
<1> QED
  BY <1>5, <1>6, <1>7, <1>8, <1>9, <1>10, <1>11, <1>12

\* A valid vehicle-lookup form, and its permission.
LEMMA LinksAsks ==
  ASSUME HonestInv, NEW t \in Tabs, Habits = {}, LinksInv(t),
         SubmitVehicleLookup(t) \/ Permit(t)
  PROVE  LinksInv(t)'
<1>1. \E v : \/ req' = [req EXCEPT ![t] = [at |-> "permit", veh |-> v]]
              \/ req' = [req EXCEPT ![t] = [at |-> "lookup", veh |-> v]]
  BY DEF SubmitVehicleLookup, Permit
<1>2. req'[t].at \in {"permit", "lookup"}
  BY <1>1 DEF HonestInv
<1>3. UNCHANGED <<jar, screen, calls, found>>
  BY DEF SubmitVehicleLookup, Permit
<1>4. Heading("VehicleLookup", jar, found, calls)
  <2>1. CASE SubmitVehicleLookup(t)
    <3>1. AtPage(screen[t], jar, found, calls) /\ screen[t].page = "VehicleLookup"
      BY <2>1, ActsOnPage DEF SubmitVehicleLookup
    <3> QED
      BY <3>1 DEF AtPage, Heading
  <2>2. CASE Permit(t)
    BY <2>2 DEF Permit, LinksInv
  <2> QED
    BY <2>1, <2>2
<1>5. Heading("VehicleLookup", jar', found', calls')
  BY <1>3, <1>4
<1> QED
  BY <1>2, <1>5 DEF LinksInv

\* A valid dispose form: the call is made for the vehicle of the page.
LEMMA LinksSubmit ==
  ASSUME HonestInv, NEW t \in Tabs, Habits = {}, LinksInv(t), SubmitDispose(t)
  PROVE  /\ LinksInv(t)'
         /\ CallMade.veh = screen[t].veh
         /\ CallMade.veh = jar["VehicleLookupFormModel"] /\ CallMade.veh \in found
         /\ req'[t].trader.name = jar["SetupTradeDetails"]
<1> DEFINE v == jar["VehicleLookupFormModel"]
           n == Len(calls)
<1>1. AtPage(screen[t], jar, found, calls) /\ screen[t].page = "Dispose"
  BY ActsOnPage DEF SubmitDispose
<1>2. /\ FormReady(jar, found) /\ jar["VehicleLookupDetails"] = screen[t].veh
      /\ Has(jar, {"TraderDetails"}) /\ Has(jar, {"VehicleLookupDetails"})
      /\ Named("Dispose", jar) /\ jar["DisposeFormRegistrationNumber"] = None
  BY <1>1 DEF AtPage, Has
<1>3. /\ calls' = Append(calls, [veh |-> v, fate |-> "open"])
      /\ req' = [req EXCEPT ![t] = [at |-> "dispose", call |-> n + 1,
                                   trader |-> jar["TraderDetails"]]]
      /\ UNCHANGED <<jar, screen>>
  BY DEF SubmitDispose, DisposeRequest
<1>4. calls \in Seq(Calls) /\ n \in Nat
  BY DEF HonestInv
<1>5. /\ req'[t].at = "dispose" /\ req'[t].call = n + 1
      /\ req'[t].trader = jar["TraderDetails"]
  <2>1. req'[t] = [at |-> "dispose", call |-> n + 1, trader |-> jar["TraderDetails"]]
    BY <1>3 DEF HonestInv
  <2> QED
    BY <2>1
<1>6. Len(calls') = n + 1 /\ calls'[n + 1].veh = v
  <2> DEFINE call == [veh |-> v, fate |-> "open"]
  <2>1. call.veh = v
    OBVIOUS
  <2>2. calls' = Append(calls, call)
    BY <1>3
  <2> HIDE DEF call
  <2>3. calls \in Seq(Calls \union {call})
    BY <1>4
  <2>4. Len(calls') = n + 1 /\ calls'[n + 1] = call
    BY <1>4, <2>2, <2>3
  <2> QED
    BY <2>1, <2>4
<1>7. CallMade.veh = v
  BY <1>6 DEF CallMade
<1>8. Heading("DisposeFailure", jar', found', calls')
  BY <1>2, <1>3 DEF Heading, Named, TradePages
<1>9. LinksInv(t)'
  BY <1>2, <1>3, <1>5, <1>6, <1>8 DEF LinksInv, FormReady
<1>10. req'[t].trader.name = jar["SetupTradeDetails"]
  BY <1>2, <1>5 DEF Named, TradePages
<1> QED
  BY <1>2, <1>7, <1>9, <1>10 DEF FormReady

\* The vehicle-lookup service answers.
LEMMA LinksAnswerLookup ==
  ASSUME HonestInv, NEW t \in Tabs, LinksInv(t), AnswerLookup(t)
  PROVE  LinksInv(t)'
<1> DEFINE v == req[t].veh
<1>1. PICK o \in LookupOutcomes :
        /\ req' = [req EXCEPT ![t] = Reply(LookupVehicleResult(v, o))]
        /\ found' = IF o = "found" THEN found \union {v} ELSE found
  BY DEF AnswerLookup
<1>2. Heading("VehicleLookup", jar, found, calls) /\ UNCHANGED <<jar, calls>>
  BY DEF AnswerLookup, LinksInv
<1>3. v \in Vehicles
  BY RequestStages DEF AnswerLookup
<1>4. req'[t].at = "reply" /\ req'[t].result = LookupVehicleResult(v, o)
  <2>1. req'[t] = Reply(LookupVehicleResult(v, o))
    BY <1>1 DEF HonestInv
  <2> QED
    BY <2>1 DEF Reply
<1> HIDE DEF v
<1>5. Leads(LookupVehicleResult(v, o), jar, found', calls)
  BY <1>1, <1>2, <1>3, JarIsFunction, LookupsLead
<1>6. Leads(req'[t].result, jar', found', calls')
  BY <1>2, <1>4, <1>5
<1> QED
  BY <1>4, <1>6 DEF LinksInv

\* The disposal service answers.
LEMMA LinksAnswerDispose ==
  ASSUME HonestInv, NEW t \in Tabs, StepInv(t), LinksInv(t), AnswerDispose(t)
  PROVE  LinksInv(t)'
<1> DEFINE i == req[t].call
           v == jar["VehicleLookupDetails"]
<1>1. i \in DOMAIN calls /\ i \in Nat
  BY RequestStages, MaxCallsAssumption DEF AnswerDispose, TxIds
<1>2. PICK a \in AnswersFor(calls[i].fate) : Answered(t, DisposeAnswered(a, calls[i].veh, i))
  BY DEF AnswerDispose
<1>3. /\ Heading("DisposeFailure", jar, found, calls) /\ calls[i].veh = v
      /\ InStep(jar)
      /\ Has(jar, {"TraderDetails", "VehicleLookupFormModel", "VehicleLookupDetails"})
  BY DEF AnswerDispose, LinksInv, StepInv
<1>4. v \in Vehicles /\ calls[i] = [veh |-> v, fate |-> calls[i].fate]
  <2>1. calls \in Seq(Calls)
    BY DEF HonestInv
  <2>2. calls[i] \in Calls
    BY <1>1, <2>1
  <2> QED
    BY <1>3, <2>2 DEF Calls
<1> HIDE DEF i
<1>5. Leads(DisposeAnswered(a, v, i), jar, found, calls)
  BY <1>1, <1>2, <1>3, <1>4, JarIsFunction, AnswersLead
<1> QED
  BY <1>2, <1>3, <1>5, LinksAnswered

\* The browser receives a response, and follows it if it is a redirect.
LEMMA LinksReceive ==
  ASSUME HonestInv, NEW t \in Tabs, LinksInv(t), Receive(t)
  PROVE  LinksInv(t)'
<1> DEFINE r == req[t].result
           jarNow == Leaves(r, jar)
           next == Present(r.screen.page, jarNow)
<1>1. /\ jar' = jarNow /\ UNCHANGED <<calls, found>>
      /\ \/ r.redirect /\ req'[t] = Reply(next)
         \/ ~r.redirect /\ req'[t] = NoRequest /\ screen'[t] = r.screen
  BY DEF Receive, HonestInv, Leaves
<1>2. r.screen.page \in Routes
  BY DEF Receive, HonestInv, HonestResult, ResultOK, Screens, Routes
<1>3. /\ r.redirect => Heading(r.screen.page, jarNow, found, calls)
      /\ ~r.redirect => AtPage(r.screen, jarNow, found, calls)
  BY DEF Receive, LinksInv, Leads
<1>4. jarNow = [k \in Keys |-> jarNow[k]]
  BY DEF Leaves, Received
<1> HIDE DEF jarNow
<1>5. CASE r.redirect
  <2>1. Leads(next, jarNow, found, calls)
    BY <1>2, <1>3, <1>4, <1>5, PresentLeads
  <2> HIDE DEF next
  <2>2. req'[t].at = "reply" /\ req'[t].result = next
    BY <1>1, <1>5 DEF Reply
  <2>3. Leads(req'[t].result, jar', found', calls')
    BY <1>1, <2>1, <2>2
  <2> QED
    BY <2>2, <2>3 DEF LinksInv
<1>6. CASE ~r.redirect
  <2>1. AtPage(screen'[t], jar', found', calls')
    BY <1>1, <1>3, <1>6
  <2>2. req'[t].at = "none"
    BY <1>1, <1>6 DEF NoRequest
  <2> QED
    BY <2>1, <2>2 DEF LinksInv
<1> QED
  BY <1>5, <1>6

\* Every step of the server.
LEMMA LinksServer ==
  ASSUME HonestInv, NEW t \in Tabs, Habits = {}, StepInv(t), LinksInv(t), Server(t)
  PROVE  LinksInv(t)'
<1>1. CASE Refuse(t)
  <2>1. req[t].veh \in Vehicles /\ Heading("VehicleLookup", jar, found, calls)
    BY <1>1, RequestStages DEF Refuse, LinksInv
  <2> QED
    BY <1>1, <2>1, JarIsFunction, LookupsLead, LinksAnswered DEF Refuse
<1>2. CASE FailDispose(t)
  <2>1. Heading("MicroServiceError", jar, found, calls)
    BY <1>2 DEF FailDispose, LinksInv, Heading, Named, TradePages
  <2>2. Leads(GoTo("MicroServiceError"), jar, found, calls)
    BY <2>1, JarIsFunction, ResultsLead
  <2> QED
    BY <1>2, <2>2, LinksAnswered DEF FailDispose, DisposeCallFailed
<1> QED
  BY <1>1, <1>2, LinksAsks, LinksAnswerLookup, LinksAnswerDispose, LinksReceive DEF Server

\* What the service makes of a call undoes no disposal.
LEMMA SettledStays ==
  ASSUME HonestInv, NEW i \in DOMAIN calls, Fulfil(i)
  PROVE  /\ \A j, v : Disposed(j, v, calls) => Disposed(j, v, calls')
         /\ \A j \in DOMAIN calls : calls'[j].veh = calls[j].veh
<1>1. PICK fate \in {"performed", "refused"} : calls' = [calls EXCEPT ![i].fate = fate]
  BY DEF Fulfil
<1>2. calls \in Seq(Calls)
  BY DEF HonestInv
<1>3. calls[i] \in Calls /\ calls[i].fate = "open"
  BY <1>2 DEF Fulfil
<1>4. /\ [calls[i] EXCEPT !.fate = fate] \in Calls
      /\ [calls[i] EXCEPT !.fate = fate].veh = calls[i].veh
  BY <1>3 DEF Calls
<1>5. /\ DOMAIN calls' = DOMAIN calls
      /\ \A j \in DOMAIN calls : j # i => calls'[j] = calls[j]
      /\ \A j \in DOMAIN calls : calls'[j].veh = calls[j].veh
  BY <1>1, <1>2, <1>4
<1>6. \A j, v : Disposed(j, v, calls) => Disposed(j, v, calls')
  <2> SUFFICES ASSUME NEW j, NEW v, Disposed(j, v, calls)
               PROVE  Disposed(j, v, calls')
    OBVIOUS
  <2>1. j # i
    BY <1>3 DEF Disposed
  <2> QED
    BY <1>5, <2>1 DEF Disposed
<1> QED
  BY <1>5, <1>6

\* The invariant speaks of calls only by what they disposed of and their vehicles.
LEMMA LinksFulfil ==
  ASSUME HonestInv, NEW t \in Tabs, LinksInv(t), NEW i \in DOMAIN calls, Fulfil(i)
  PROVE  LinksInv(t)'
<1>1. \A j \in DOMAIN calls : calls'[j].veh = calls[j].veh
  BY SettledStays
<1>2. \A j, v : Disposed(j, v, calls) => Disposed(j, v, calls')
  BY SettledStays
<1>3. /\ \A s, c : AtPage(s, c, found, calls) => AtPage(s, c, found, calls')
      /\ \A p, c : Heading(p, c, found, calls) => Heading(p, c, found, calls')
  BY <1>2 DEF AtPage, Receipt, Heading
<1>4. \A r, c : Leads(r, c, found, calls) => Leads(r, c, found, calls')
  BY <1>3 DEF Leads
<1>5. UNCHANGED <<jar, screen, req, found>>
  BY DEF Fulfil
<1>6. req[t].at = "dispose" => calls'[req[t].call].veh = calls[req[t].call].veh
  BY <1>1, RequestStages
<1> QED
  BY <1>3, <1>4, <1>5, <1>6 DEF LinksInv

\* The receipt that is shown stays true while the next page is on its way.
LEMMA ReceiptStays ==
  ASSUME NEW t, Tabs = {t}, HonestInv, Receipt(screen[t], calls), LinksInv(t)', [Next]_vars
  PROVE  Receipt(screen[t], calls)'
<1>1. \A j, v : Disposed(j, v, calls) => Disposed(j, v, calls')
  <2>1. CASE SubmitDispose(t)
    <3>1. PICK c : calls' = Append(calls, c)
      BY <2>1 DEF SubmitDispose
    <3>2. calls \in Seq(Calls \union {c})
      BY DEF HonestInv
    <3>3. DOMAIN calls \subseteq DOMAIN calls' /\ \A j \in DOMAIN calls : calls'[j] = calls[j]
      BY <3>1, <3>2
    <3> QED
      BY <3>3 DEF Disposed
  <2>2. ASSUME NEW i \in DOMAIN calls, Fulfil(i)
        PROVE  \A j, v : Disposed(j, v, calls) => Disposed(j, v, calls')
    BY <2>2, SettledStays
  <2>3. CASE UNCHANGED calls
    BY <2>3
  <2>4. User(t) => SubmitDispose(t) \/ UNCHANGED calls
    BY DEF User, Visit, SubmitSetUpTradeDetails, SubmitBusinessChooseYourAddress,
           SubmitEnterAddressManually, SubmitInvalidVehicleLookup, SubmitVehicleLookup,
           ExitVehicleLookup, SubmitVrmLocked, SubmitDisposeSuccess, SubmitError,
           SubmitDisposeInVain, Form, Answered
  <2>5. Server(t) => UNCHANGED calls
    BY DEF Server, Permit, Refuse, AnswerLookup, AnswerDispose, FailDispose, Receive, Answered
  <2>6. Expire \/ UNCHANGED vars => UNCHANGED calls
    BY DEF Expire, vars
  <2> QED
    BY <2>6, <2>5, <2>4, <2>3, <2>2, <2>1 DEF Next
<1>2. CASE UNCHANGED screen
  BY <1>1, <1>2 DEF Receipt
<1>3. CASE Receive(t) /\ ~req[t].result.redirect
  <2>1. req'[t].at = "none"
    BY <1>3 DEF Receive, HonestInv, NoRequest
  <2>2. AtPage(screen'[t], jar', found', calls')
    BY <2>1 DEF LinksInv
  <2> QED
    BY <2>2 DEF AtPage
<1>4. User(t) => UNCHANGED screen
  BY DEF User, Visit, SubmitSetUpTradeDetails, SubmitBusinessChooseYourAddress,
         SubmitEnterAddressManually, SubmitInvalidVehicleLookup, SubmitVehicleLookup,
         ExitVehicleLookup, SubmitVrmLocked, SubmitDisposeSuccess, SubmitError,
         SubmitDisposeInVain, SubmitDispose, Form, Answered
<1>5. Server(t) => UNCHANGED screen \/ (Receive(t) /\ ~req[t].result.redirect)
  BY DEF Server, Permit, Refuse, AnswerLookup, AnswerDispose, FailDispose, Receive, Answered
<1>6. (\E i \in DOMAIN calls : Fulfil(i)) \/ Expire \/ UNCHANGED vars => UNCHANGED screen
  BY DEF Fulfil, Expire, vars
<1> QED
  BY <1>2, <1>3, <1>4, <1>5, <1>6 DEF Next

----------
(* The theorems.                                                           *)

\* The inductive invariant: the types and the honesty shown for any number of tabs, the
\* steps of one tab, and what the cookies are worth on a page.
FollowedInv(t) ==
  HonestInv /\ StepInv(t) /\ LinksInv(t) /\ Receipt(screen[t], calls)

\* At first the page before the journey is shown, without cookies.
LEMMA FollowedInit ==
  ASSUME NEW t \in Tabs, Init
  PROVE  FollowedInv(t)
<1>1. HonestInv /\ StepInv(t)
  BY InitHonest, InitSteps
<1>2. AtPage(Blank("BeforeYouStart"), EmptyJar, {}, <<>>)
  BY DEF AtPage, Receipt, Named, TradePages, Blank, EmptyJar, Keys
<1>3. screen[t] = Blank("BeforeYouStart") /\ req[t].at = "none"
  BY DEF Init, NoRequest
<1> QED
  BY <1>1, <1>2, <1>3 DEF FollowedInv, LinksInv, AtPage, Init

\* Every step keeps the invariant.
LEMMA FollowedNext ==
  ASSUME NEW t, Tabs = {t}, Habits = {}, FollowedInv(t), [Next]_vars
  PROVE  FollowedInv(t)'
<1>1. HonestInv' /\ StepInv(t)'
  BY NextHonest, StepsNext DEF FollowedInv
<1>2. LinksInv(t)'
  <2>1. CASE User(t)
    BY <2>1, LinksVisit, LinksForms, LinksAsks, LinksSubmit DEF User, FollowedInv
  <2>2. CASE Server(t)
    BY <2>2, LinksServer DEF FollowedInv
  <2>3. ASSUME NEW i \in DOMAIN calls, Fulfil(i)
        PROVE  LinksInv(t)'
    BY <2>3, LinksFulfil DEF FollowedInv
  <2>4. ~Expire
    BY DEF Expire
  <2>5. CASE UNCHANGED vars
    BY <2>5 DEF vars, FollowedInv, LinksInv
  <2> QED
    BY <2>5, <2>4, <2>3, <2>2, <2>1 DEF Next
<1>3. Receipt(screen[t], calls)'
  BY <1>2, ReceiptStays DEF FollowedInv
<1> QED
  BY <1>1, <1>2, <1>3 DEF FollowedInv

\* What the dispose form submits, from the invariant.
LEMMA FollowedSubmits ==
  ASSUME NEW one, Tabs = {one}, Habits = {}, FollowedInv(one), [Next]_vars,
         NEW t \in Tabs, Submits(t)
  PROVE  /\ CallMade.veh = screen[t].veh
         /\ req'[t].trader.name = jar["SetupTradeDetails"]
<1>1. SubmitDispose(t)
  BY CallsAreSubmitted DEF Submits, FollowedInv
<1> QED
  BY <1>1, LinksSubmit DEF FollowedInv

\* With one tab and a user who follows links and forms: the three cookies that
\* DisposeSuccess.present puts together belong to one disposal.
THEOREM ReceiptsAreOfOneDisposal ==
  ASSUME NEW one, Tabs = {one}, Habits = {}
  PROVE  Spec => []ReceiptIsOfOneDisposal
<1>1. Init => FollowedInv(one)
  BY FollowedInit
<1>2. FollowedInv(one) /\ [Next]_vars => FollowedInv(one)'
  BY FollowedNext
<1>3. FollowedInv(one) => ReceiptIsOfOneDisposal
  BY DEF FollowedInv, Receipt, Disposed, ReceiptIsOfOneDisposal
<1> QED
  BY <1>1, <1>2, <1>3, PTL DEF Spec

\* Under the same conditions disposeAction submits the vehicle that
\* Dispose.createViewModel put on the page.
THEOREM VehicleShownIsSubmitted ==
  ASSUME NEW one, Tabs = {one}, Habits = {}
  PROVE  Spec => DisposesWhatIsShown
<1>1. Init => FollowedInv(one)
  BY FollowedInit
<1>2. FollowedInv(one) /\ [Next]_vars => FollowedInv(one)'
  BY FollowedNext
<1>3. FollowedInv(one) /\ [Next]_vars =>
        [\A t \in Tabs : Submits(t) => CallMade.veh = screen[t].veh]_vars
  BY FollowedSubmits
<1> QED
  BY <1>1, <1>2, <1>3, PTL DEF Spec, DisposesWhatIsShown

\* And the trader it submits is the one last typed into the trade-details form, although
\* SetUpTradeDetails.submit leaves an older TraderDetails cookie where it is.
THEOREM TraderEnteredIsSubmitted ==
  ASSUME NEW one, Tabs = {one}, Habits = {}
  PROVE  Spec => DisposesForTraderEntered
<1>1. Init => FollowedInv(one)
  BY FollowedInit
<1>2. FollowedInv(one) /\ [Next]_vars => FollowedInv(one)'
  BY FollowedNext
<1>3. FollowedInv(one) /\ [Next]_vars =>
        [\A t \in Tabs : Submits(t) => req'[t].trader.name = jar["SetupTradeDetails"]]_vars
  BY FollowedSubmits
<1> QED
  BY <1>1, <1>2, <1>3, PTL DEF Spec, DisposesForTraderEntered

----------
(* The abstract machine.                                                   *)

\* A vehicle none of whose calls was performed is not settled.
LEMMA NotSettled ==
  ASSUME NEW v, v \notin Performed
  PROVE  ~Promise!Settled(v)
<1> SUFFICES ASSUME NEW i \in DOMAIN calls, calls[i] = [veh |-> v, fate |-> "performed"]
             PROVE  FALSE
  BY DEF Promise!Settled
<1>1. calls[i].veh = v /\ calls[i].fate = "performed"
  OBVIOUS
<1> QED
  BY <1>1 DEF Performed

\* Looking up, submitting and settling are steps of the abstract machine, every other
\* step leaves what it sees alone.
LEMMA StepsPromised ==
  ASSUME NEW one, Tabs = {one}, Habits = {}, FollowedInv(one), [Next]_vars
  PROVE  [Promise!Next]_(Promise!promise)
<1>1. CASE SubmitDispose(one)
  <2> DEFINE v == jar["VehicleLookupFormModel"]
  <2>1. v \in found /\ v \in Vehicles
    <3>1. CallMade.veh = v /\ CallMade.veh \in found
      BY <1>1, LinksSubmit DEF FollowedInv
    <3> QED
      BY <3>1 DEF FollowedInv, HonestInv
  <2>2. /\ calls' = Append(calls, [veh |-> v, fate |-> "open"])
        /\ found' = found \ {v}
    BY <1>1 DEF SubmitDispose, DisposeRequest
  <2> HIDE DEF v
  <2>3. Promise!Submit(v)
    BY <2>1, <2>2 DEF Promise!Submit
  <2> QED
    BY <2>1, <2>3 DEF Promise!Next
<1>2. CASE AnswerLookup(one)
  <2> DEFINE v == req[one].veh
  <2>1. PICK o \in LookupOutcomes :
          /\ o = "found" => v \notin Performed
          /\ found' = IF o = "found" THEN found \union {v} ELSE found
    BY <1>2 DEF AnswerLookup
  <2>2. v \in Vehicles /\ UNCHANGED calls
    BY <1>2, RequestStages DEF AnswerLookup, FollowedInv
  <2> HIDE DEF v
  <2>3. CASE o = "found"
    <3>1. Promise!Find(v)
      BY <2>1, <2>2, <2>3, NotSettled DEF Promise!Find
    <3> QED
      BY <2>2, <3>1 DEF Promise!Next
  <2>4. CASE o # "found"
    BY <2>1, <2>2, <2>4 DEF Promise!promise
  <2> QED
    BY <2>3, <2>4
<1>3. ASSUME NEW i \in DOMAIN calls, Fulfil(i)
      PROVE  [Promise!Next]_(Promise!promise)
  <2>1. Promise!Settle(i)
    BY <1>3, NotSettled DEF Fulfil, Promise!Settle
  <2> QED
    BY <2>1 DEF Promise!Next
<1>4. User(one) => SubmitDispose(one) \/ UNCHANGED <<found, calls>>
  BY DEF User, Visit, SubmitSetUpTradeDetails, SubmitBusinessChooseYourAddress,
         SubmitEnterAddressManually, SubmitInvalidVehicleLookup, SubmitVehicleLookup,
         ExitVehicleLookup, SubmitVrmLocked, SubmitDisposeSuccess, SubmitError,
         SubmitDisposeInVain, Form, Answered
<1>5. Server(one) => AnswerLookup(one) \/ UNCHANGED <<found, calls>>
  BY DEF Server, Permit, Refuse, AnswerDispose, FailDispose, Receive, Answered
<1>6. Expire \/ UNCHANGED vars => UNCHANGED <<found, calls>>
  BY DEF Expire, vars
<1>7. UNCHANGED <<found, calls>> => [Promise!Next]_(Promise!promise)
  BY DEF Promise!promise
<1> QED
  BY <1>1, <1>2, <1>3, <1>4, <1>5, <1>6, <1>7 DEF Next

\* With one tab and a user who follows links and forms the application implements
\* DisposalPromise: every submission uses up a lookup of its vehicle, so that nothing is
\* submitted twice (US320), and the fate of a call is decided once.
THEOREM JourneyKeepsPromise ==
  ASSUME NEW one, Tabs = {one}, Habits = {}
  PROVE  Spec => KeepsPromise
<1>1. Init => FollowedInv(one)
  BY FollowedInit
<1>2. FollowedInv(one) /\ [Next]_vars => FollowedInv(one)'
  BY FollowedNext
<1>3. Init => Promise!Init
  BY DEF Init, Promise!Init
<1>4. FollowedInv(one) /\ [Next]_vars => [Promise!Next]_(Promise!promise)
  BY StepsPromised
<1> QED
  BY <1>1, <1>2, <1>3, <1>4, PTL DEF Spec, KeepsPromise, Promise!Spec
================================================================================
