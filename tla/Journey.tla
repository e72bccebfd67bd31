------------------------------- MODULE Journey -------------------------------
(***************************************************************************)
(* The disposal of vehicles end to end: a trader's browser, the stateless  *)
(* web tier and the three services it calls (brute-force prevention,       *)
(* vehicle lookup, disposal).                                              *)
(*                                                                         *)
(* The tabs of a browser share one cookie jar.  A request carries the jar  *)
(* as it was when the request was sent, the handler reads nothing else, so *)
(* a synchronous handler runs in the step that sends the request; the ones *)
(* that call a service keep what they read of the cookies until the answer *)
(* arrives.  Set-Cookie instructions reach the jar when the response is    *)
(* received, whatever other tabs did meanwhile.                            *)
(***************************************************************************)
EXTENDS Handlers, Sequences

CONSTANTS
  Tabs,     \* tabs of the browser
  Habits,   \* what users do beyond following links and forms of the page
  MaxCalls  \* bound: calls to the disposal service in a behaviour

ASSUME HabitsAssumption == Habits \subseteq {"address", "impatient", "idle"}
ASSUME MaxCallsAssumption == MaxCalls \in Nat

VARIABLES
  jar,       \* the browser's cookies
  screen,    \* screen[t]: what tab t shows
  req,       \* req[t]: the request tab t waits for, and how far it got
  calls,     \* the calls made to the disposal service, in order
  found      \* vehicles found by the lookup and not submitted since

vars == <<jar, screen, req, calls, found>>

(***************************************************************************)
(* calls[i] is the i-th call: its vehicle and what the service did with    *)
(* it.  found is a history variable: no handler reads it.                  *)
(***************************************************************************)
Performed == {calls[i].veh : i \in {j \in DOMAIN calls : calls[j].fate = "performed"}}

NoRequest == [at |-> "none"]
Reply(result) == [at |-> "reply", result |-> result]

Init ==
  /\ jar = EmptyJar
  /\ screen = [t \in Tabs |-> Blank("BeforeYouStart")]
  /\ req = [t \in Tabs |-> NoRequest]
  /\ calls = <<>>
  /\ found = {}

-------------------------------------------------------------------------------
(* The user.  A request that is still waited for is abandoned by the next  *)
(* one of the same tab: its response is lost, what it started goes on.     *)

MayAct(t) == req[t] = NoRequest \/ "impatient" \in Habits

Answered(t, result) ==
  /\ req' = [req EXCEPT ![t] = Reply(result)]
  /\ UNCHANGED <<jar, screen, calls, found>>

\* A form of page p is submitted and handled without calling a service.
Form(t, p, result) == MayAct(t) /\ screen[t].page = p /\ Answered(t, result)

\* The user follows a link, or goes to an address of his own accord: types
\* it, reloads, uses a bookmark or the browser's history.
Visit(t) ==
  /\ MayAct(t)
  /\ \E r \in Routes :
       /\ r \in Links(screen[t].page) \/ "address" \in Habits
       /\ Answered(t, Present(r, jar))

SubmitSetUpTradeDetails(t) ==
  \E n \in Traders \union {None} :
    Form(t, "SetUpTradeDetails", SetUpTradeDetailsSubmit(n, jar))

SubmitBusinessChooseYourAddress(t) ==
  \/ \E uprnFound \in BOOLEAN :
       Form(t, "BusinessChooseYourAddress", BusinessChooseYourAddressSubmit(uprnFound, jar))
  \/ Form(t, "BusinessChooseYourAddress", NeedsSetup("BusinessChooseYourAddress", jar))

SubmitEnterAddressManually(t) ==
  \/ Form(t, "EnterAddressManually", EnterAddressManuallySubmit(jar))
  \/ Form(t, "EnterAddressManually", NeedsSetup("EnterAddressManually", jar))

SubmitInvalidVehicleLookup(t) == Form(t, "VehicleLookup", VehicleLookupPresent(jar))

\* A valid vehicle-lookup form: the brute-force service is asked first.
SubmitVehicleLookup(t) ==
  /\ MayAct(t)
  /\ screen[t].page = "VehicleLookup"
  /\ \E v \in Vehicles : req' = [req EXCEPT ![t] = [at |-> "permit", veh |-> v]]
  /\ UNCHANGED <<jar, screen, calls, found>>

ExitVehicleLookup(t) ==
  screen[t].exit /\ Form(t, "VehicleLookup", VehicleLookupExit(jar))

SubmitVrmLocked(t) ==
  \/ Form(t, "VrmLocked", VrmLockedNewDisposal(jar))
  \/ Form(t, "VrmLocked", VrmLockedExit(jar))

SubmitDisposeSuccess(t) ==
  \/ Form(t, "DisposeSuccess", DisposeSuccessNewDisposal(jar))
  \/ Form(t, "DisposeSuccess", DisposeSuccessExit(jar))

SubmitError(t) == Form(t, "Error", ErrorSubmit(jar))

\* A dispose form that does not lead to a call of the service.
SubmitDisposeInVain(t) ==
  \/ Form(t, "Dispose", DisposeInvalid(jar))
  \/ ~MayDispose(jar) /\ Form(t, "Dispose", DisposeRefused(jar))

\* A valid dispose form: the disposal service is called.
SubmitDispose(t) ==
  /\ MayAct(t)
  /\ screen[t].page = "Dispose"
  /\ MayDispose(jar)
  /\ Len(calls) < MaxCalls
  /\ LET r == DisposeRequest(jar)
     IN  /\ calls' = Append(calls, [veh |-> r.veh, fate |-> "open"])
         /\ found' = found \ {r.veh}
         /\ req' = [req EXCEPT ![t] = [at |-> "dispose", call |-> Len(calls) + 1,
                                      trader |-> r.trader]]
  /\ UNCHANGED <<jar, screen>>

-------------------------------------------------------------------------------
(* The services.                                                           *)

\* bruteForceAndLookup: the vehicle may be looked up.
Permit(t) ==
  /\ req[t].at = "permit"
  /\ req' = [req EXCEPT ![t] = [at |-> "lookup", veh |-> req[t].veh]]
  /\ UNCHANGED <<jar, screen, calls, found>>

\* bruteForceAndLookup: the vehicle is locked, or the service failed.
Refuse(t) ==
  /\ req[t].at = "permit"
  /\ \/ Answered(t, VrmLockedResult(req[t].veh))
     \/ Answered(t, GoTo("MicroServiceError"))

\* The lookup service answers.  A vehicle whose disposal was performed is no
\* longer found: its document reference number has changed.
AnswerLookup(t) ==
  /\ req[t].at = "lookup"
  /\ \E outcome \in LookupOutcomes :
       /\ outcome = "found" => req[t].veh \notin Performed
       /\ req' = [req EXCEPT ![t] = Reply(LookupVehicleResult(req[t].veh, outcome))]
       /\ found' = IF outcome = "found" THEN found \union {req[t].veh} ELSE found
  /\ UNCHANGED <<jar, screen, calls>>

\* The disposal service works off call i, waited for or not.  It performs at
\* most one disposal of a vehicle.
Fulfil(i) ==
  /\ calls[i].fate = "open"
  /\ \E fate \in {"performed", "refused"} :
       /\ fate = "performed" => calls[i].veh \notin Performed
       /\ calls' = [calls EXCEPT ![i].fate = fate]
  /\ UNCHANGED <<jar, screen, req, found>>

\* The answers the service gives: an identifier of the vehicle and no
\* response code only when the disposal was performed.
AnswersFor(fate) ==
  {a \in Answers : a.body # None =>
     IF fate = "performed" THEN a.body = [code |-> None, tx |-> TRUE, reg |-> TRUE]
     ELSE ~a.body.reg /\ (a.body.code = None => ~a.body.tx)}

\* The answer arrives in time.
AnswerDispose(t) ==
  /\ req[t].at = "dispose"
  /\ LET i == req[t].call
     IN  /\ calls[i].fate # "open"
         /\ \E a \in AnswersFor(calls[i].fate) :
              Answered(t, DisposeAnswered(a, calls[i].veh, i))

\* The call times out or fails, whether or not the service saw it.
FailDispose(t) == req[t].at = "dispose" /\ Answered(t, DisposeCallFailed)

-------------------------------------------------------------------------------
(* The response reaches the browser, which stores the cookies and shows    *)
(* the page or follows the redirect with the cookies it has now.           *)

Receive(t) ==
  /\ req[t].at = "reply"
  /\ LET result == req[t].result
         jarNow == Received(jar, result.cookies)
     IN  /\ jar' = jarNow
         /\ IF result.redirect
            THEN /\ req' = [req EXCEPT ![t] = Reply(Present(result.screen.page, jarNow))]
                 /\ UNCHANGED screen
            ELSE /\ req' = [req EXCEPT ![t] = NoRequest]
                 /\ screen' = [screen EXCEPT ![t] = result.screen]
  /\ UNCHANGED <<calls, found>>

\* A cookie lasts 30 minutes from when it was last set, so an idle user loses them one
\* by one.  Which one goes first is left open here.
Expire ==
  /\ "idle" \in Habits
  /\ \E k \in Keys : jar[k] # None /\ jar' = [jar EXCEPT ![k] = None]
  /\ UNCHANGED <<screen, req, calls, found>>

User(t) ==
  \/ Visit(t) \/ SubmitSetUpTradeDetails(t) \/ SubmitBusinessChooseYourAddress(t)
  \/ SubmitEnterAddressManually(t) \/ SubmitInvalidVehicleLookup(t)
  \/ SubmitVehicleLookup(t) \/ ExitVehicleLookup(t) \/ SubmitVrmLocked(t)
  \/ SubmitDisposeSuccess(t) \/ SubmitError(t) \/ SubmitDisposeInVain(t)
  \/ SubmitDispose(t)

Server(t) ==
  Permit(t) \/ Refuse(t) \/ AnswerLookup(t) \/ AnswerDispose(t) \/ FailDispose(t)
    \/ Receive(t)

Next ==
  \/ \E t \in Tabs : User(t) \/ Server(t)
  \/ \E i \in DOMAIN calls : Fulfil(i)
  \/ Expire

Spec == Init /\ [][Next]_vars

-------------------------------------------------------------------------------
(* Type invariant.                                                         *)

TxIds == 1 .. MaxCalls

CookieValue(k) ==
  CASE k = "SetupTradeDetails" -> Traders
    [] k = "TraderDetails" -> TraderDetails
    [] k \in {"BruteForcePreventionViewModel", "VehicleLookupDetails",
              "VehicleLookupFormModel", "DisposeModel",
              "DisposeFormRegistrationNumber"} -> Vehicles
    [] k = "DisposeFormTransactionId" -> TxIds
    [] OTHER -> {""}

Screens == [page : Pages, veh : Vehicles \union {None},
            trader : TraderDetails \union {None}, reg : Vehicles \union {None},
            tx : TxIds \union {None}, exit : BOOLEAN]

\* f gives every key a value fit for it or one of the marks.
CookieFunction(f, marks) ==
  /\ f = [k \in Keys |-> f[k]]
  /\ \A k \in Keys : f[k] \in CookieValue(k) \union marks

ResultOK(r) ==
  /\ r = [redirect |-> r.redirect, screen |-> r.screen, cookies |-> r.cookies]
  /\ r.redirect \in BOOLEAN
  /\ r.screen \in Screens
  /\ CookieFunction(r.cookies, {None, Keep})

RequestOK(q) ==
  \/ q = NoRequest
  \/ \E v \in Vehicles : q = [at |-> "permit", veh |-> v] \/ q = [at |-> "lookup", veh |-> v]
  \/ \E i \in DOMAIN calls, d \in TraderDetails :
       q = [at |-> "dispose", call |-> i, trader |-> d]
  \/ q.at = "reply" /\ q = Reply(q.result) /\ ResultOK(q.result)

Calls == [veh : Vehicles, fate : {"open", "performed", "refused"}]

\* Every variable stays in its domain: cookies hold the kind of value their
\* readers expect, requests are in one of the handlers' stages.
TypeOK ==
  /\ CookieFunction(jar, {None})
  /\ screen \in [Tabs -> Screens]
  /\ req = [t \in Tabs |-> req[t]]
  /\ \A t \in Tabs : RequestOK(req[t])
  /\ calls \in Seq(Calls)
  /\ Len(calls) <= MaxCalls
  /\ found \subseteq Vehicles

-------------------------------------------------------------------------------
(* What a disposal call is made of.  The page shows VehicleLookupDetails,  *)
(* the request is built from VehicleLookupFormModel: two cookies written   *)
(* by different answers.                                                   *)

\* This step submits the dispose form of tab t to the service.
Submits(t) == Len(calls') > Len(calls) /\ req'[t] # req[t]
CallMade == calls'[Len(calls')]

\* The vehicle submitted to the disposal service is the one the dispose page
\* showed when its form was sent (Dispose.createViewModel against disposeAction).
DisposesWhatIsShown ==
  [][\A t \in Tabs : Submits(t) => CallMade.veh = screen[t].veh]_vars

\* The trader submitted is the one the dispose page showed.
DisposesForTraderShown ==
  [][\A t \in Tabs : Submits(t) => req'[t].trader = screen[t].trader]_vars

\* The trader submitted is the one last typed into the trade-details form,
\* although SetUpTradeDetails.submit leaves an older TraderDetails cookie.
DisposesForTraderEntered ==
  [][\A t \in Tabs : Submits(t) => req'[t].trader.name = jar["SetupTradeDetails"]]_vars

\* Every submission uses up a successful lookup of its vehicle: no form is
\* resubmitted, which is what the interstitial cookie of US320 is for.
OneCallPerLookup ==
  [][\A t \in Tabs : Submits(t) => CallMade.veh \in found]_vars

\* The same as an abstract machine that Journey implements, with the fate of
\* the calls.
Promise == INSTANCE DisposalPromise WITH sent <- calls
KeepsPromise == Promise!Spec

-------------------------------------------------------------------------------
(* What the user is told.                                                  *)

\* A success page names a vehicle the service has really disposed of, however
\* many tabs write the cookies it is put together from.
ReceiptIsHonest ==
  \A t \in Tabs : screen[t].page = "DisposeSuccess" => screen[t].reg \in Performed

\* The pieces of a success page belong to one disposal: the details, the
\* registration number and the transaction id come from three cookies.
ReceiptIsOfOneDisposal ==
  \A t \in Tabs : screen[t].page = "DisposeSuccess" =>
    /\ screen[t].veh = screen[t].reg
    /\ calls[screen[t].tx] = [veh |-> screen[t].reg, fate |-> "performed"]

\* When the answer to a performed disposal reaches the browser, the redirect
\* it carries does show the success page with the answer's identifiers: the
\* five cookies DisposeSuccess.present asks for are all there.
SuccessIsReported ==
  [][\A t \in Tabs :
       LET ck == req[t].result.cookies
           shown == req'[t].result.screen
       IN  Receive(t) /\ ck["DisposeFormRegistrationNumber"] \in Vehicles =>
             /\ ~req'[t].result.redirect
             /\ shown.page = "DisposeSuccess"
             /\ shown.reg = ck["DisposeFormRegistrationNumber"]
             /\ shown.tx = ck["DisposeFormTransactionId"]]_vars

\* Cookies c of a later step come with those of the steps before it.
InStep(c) ==
  LET Needs(later, earlier) == ~Has(c, {later}) \/ Has(c, earlier)
  IN  /\ Needs("TraderDetails", {"SetupTradeDetails"})
      /\ Needs("VehicleLookupDetails",
               {"VehicleLookupFormModel", "BruteForcePreventionViewModel"})
      /\ Needs("VehicleLookupResponseCode",
               {"VehicleLookupFormModel", "BruteForcePreventionViewModel"})
      /\ \A k \in DisposeOnlySet :
           Needs(k, {"TraderDetails", "VehicleLookupFormModel", "VehicleLookupDetails",
                     "DisposeModel", "DisposeFormModel", "DisposeFormTimestampId"})

\* Cookies of a later step never outlive those of the steps before it, so no
\* page is put together from the remains of an earlier disposal: the sets of
\* RelatedCacheKeys are discarded as wholes.
CookiesInStep == InStep(jar)

\* A redirect is followed with the cookies that it leaves; a page is its own end.
Followed(at) ==
  LET jarNow == Received(at.jar, at.result.cookies)
  IN  IF at.result.redirect
      THEN [result |-> Present(at.result.screen.page, jarNow), jar |-> jarNow]
      ELSE at

\* No chain of redirects goes on for ever: whatever the cookies have become since a
\* request was sent, and whichever of them have expired, the reply leads to a page
\* within three redirects.
RedirectsEnd ==
  \A t \in Tabs : req[t].at = "reply" =>
    ~Followed(Followed(Followed([result |-> req[t].result, jar |-> jar]))).result.redirect

==============================================================================
