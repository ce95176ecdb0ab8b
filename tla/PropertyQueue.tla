--------------------------- MODULE PropertyQueue ---------------------------
(***************************************************************************)
(* What teei_daemon promises about the properties the TEE asks it to set:  *)
(* each request is applied, once, in the order of the requests.            *)
(***************************************************************************)
EXTENDS Sequences

CONSTANTS Setting,  \* property settings: a name and a value
          Nothing   \* no setting

VARIABLES
  pending,  \* requests that have been accepted
  current,  \* the one taken off the queue
  applied   \* the last one that became a property

vars == <<pending, current, applied>>

Init == pending = <<>> /\ current = Nothing /\ applied = Nothing

Request(s) == /\ pending' = Append(pending, s)
              /\ UNCHANGED <<current, applied>>

Take == /\ current = Nothing /\ pending # <<>>
        /\ current' = Head(pending) /\ pending' = Tail(pending)
        /\ UNCHANGED applied

Apply == /\ current # Nothing
         /\ applied' = current /\ current' = Nothing
         /\ UNCHANGED pending

Next == Take \/ Apply \/ \E s \in Setting : Request(s)

Spec == Init /\ [][Next]_vars /\ WF_vars(Take) /\ WF_vars(Apply)
=============================================================================
