-------------------------------- MODULE Outcomes --------------------------------
(***************************************************************************)
(* What a script may rely on when it waits for an outcome: a deferred is   *)
(* settled at most once, a callback is called at most once, only for the   *)
(* outcome it was added for, and never before one that was added earlier.  *)
(***************************************************************************)
EXTENDS Naturals, Sequences

VARIABLES
  outcome, \* outcome[d]: of deferred d
  added,   \* added[u]: the <<d, outcome>> that callback u waits for
  called   \* called[u]: how often it was called

Pending == "pending"

Init ==
  /\ outcome \in Seq({Pending})
  /\ added = <<>>
  /\ called = <<>>

Make ==
  /\ outcome' = Append(outcome, Pending)
  /\ UNCHANGED <<added, called>>

Settle(d) ==
  /\ outcome[d] = Pending
  /\ outcome' = [outcome EXCEPT ![d] = outcome'[d]]
  /\ outcome'[d] \in {"resolved", "rejected"}
  /\ UNCHANGED <<added, called>>

AddCallback ==
  /\ Len(added') = Len(added) + 1
  /\ SubSeq(added', 1, Len(added)) = added
  /\ called' = Append(called, 0)
  /\ UNCHANGED outcome

CallOne(u) ==
  /\ called[u] = 0
  /\ \E on \in added[u] :
       /\ outcome[on[1]] = on[2]
       /\ \A earlier \in 1 .. u - 1 : on \in added[earlier] => called[earlier] = 1
  /\ called' = [called EXCEPT ![u] = 1]
  /\ UNCHANGED <<outcome, added>>

Next ==
  \/ Make \/ AddCallback
  \/ \E d \in DOMAIN outcome : Settle(d)
  \/ \E u \in DOMAIN added : CallOne(u)

Spec == Init /\ [][Next]_<<outcome, added, called>>

==============================================================================
