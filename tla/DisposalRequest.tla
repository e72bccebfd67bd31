---------------------------- MODULE DisposalRequest ----------------------------
(***************************************************************************)
(* The request to the disposal service: the date of disposal and the       *)
(* trader's address in the step that makes it.  The date comes first: if   *)
(* it is no DateTime the exception leaves before the address is converted. *)
(***************************************************************************)
EXTENDS DisposalDates, Addresses

requestVars == <<vars, addressVars>>

RequestInit == Init /\ AddressInit

\* buildDisposeMicroServiceRequest.
BuildRequest ==
  /\ Build
  /\ IF ToDateTime(sale.date) THEN Send ELSE UNCHANGED addressVars

RequestNext ==
  \/ (Tick \/ Present \/ Submit \/ Bind) /\ UNCHANGED addressVars
  \/ BuildRequest

RequestSpec == RequestInit /\ [][RequestNext]_requestVars

================================================================================
