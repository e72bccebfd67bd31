--------------------------- MODULE DisposalPromise ---------------------------
(***************************************************************************)
(* What the application promises about the calls it makes to the disposal  *)
(* service: a vehicle is submitted only after a lookup has found it, every *)
(* such lookup is good for one submission, and what the service makes of a *)
(* submission is settled once.                                             *)
(***************************************************************************)
EXTENDS Naturals, Sequences

CONSTANT Vehicles

VARIABLES found, \* vehicles that may be submitted
          sent   \* the submissions, each with its vehicle and its fate

promise == <<found, sent>>

Init == found = {} /\ sent = <<>>

Settled(v) == \E i \in DOMAIN sent : sent[i] = [veh |-> v, fate |-> "performed"]

\* The lookup finds a vehicle that has not been disposed of.
Find(v) ==
  /\ ~Settled(v)
  /\ found' = found \union {v}
  /\ UNCHANGED sent

Submit(v) ==
  /\ v \in found
  /\ found' = found \ {v}
  /\ sent' = Append(sent, [veh |-> v, fate |-> "open"])

Settle(i) ==
  /\ sent[i].fate = "open"
  /\ \/ ~Settled(sent[i].veh) /\ sent' = [sent EXCEPT ![i].fate = "performed"]
     \/ sent' = [sent EXCEPT ![i].fate = "refused"]
  /\ UNCHANGED found

Next ==
  \/ \E v \in Vehicles : Find(v) \/ Submit(v)
  \/ \E i \in DOMAIN sent : Settle(i)

Spec == Init /\ [][Next]_promise

==============================================================================
