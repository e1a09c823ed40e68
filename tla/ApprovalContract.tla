--------------------------- MODULE ApprovalContract ---------------------------
(***************************************************************************)
(* What the approval workflow promises, without processes, keys, tables or *)
(* failures: a request is opened once, collects approvals of distinct      *)
(* eligible actors other than its requester, and is decided once, by the   *)
(* last approval it requires or by the first rejection.                    *)
(***************************************************************************)
EXTENDS Naturals, FiniteSets

CONSTANTS
  Request, Actor, Capability,
  Holder,        \* Holder[c]: the actors allowed to decide what requires c
  NoActor, NoCapability

VARIABLE ballot

BallotState == {"unopened", "PENDING_APPROVAL", "APPROVED", "REJECTED"}
Ballot == [state : BallotState, requester : Actor \cup {NoActor},
           capability : Capability \cup {NoCapability}, required : 0 .. 2,
           yes : SUBSET Actor, no : SUBSET Actor]
Unopened == [state |-> "unopened", requester |-> NoActor, capability |-> NoCapability,
             required |-> 0, yes |-> {}, no |-> {}]

Init == ballot = [r \in Request |-> Unopened]

Open(r, a, c, n) ==
  /\ ballot[r].state = "unopened"
  /\ ballot' = [ballot EXCEPT ![r] =
                  [state |-> "PENDING_APPROVAL", requester |-> a, capability |-> c,
                   required |-> n, yes |-> {}, no |-> {}]]

MayDecide(r, a) ==
  /\ ballot[r].state = "PENDING_APPROVAL"
  /\ a # ballot[r].requester
  /\ a \in Holder[ballot[r].capability]
  /\ a \notin ballot[r].yes \cup ballot[r].no

(* The ballot after a vote: only the votes and the state change.           *)
Cast(r, yes, no, state) ==
  ballot' = [ballot EXCEPT ![r] =
               [state |-> state, requester |-> ballot[r].requester,
                capability |-> ballot[r].capability, required |-> ballot[r].required,
                yes |-> yes, no |-> no]]

Approve(r, a) ==
  LET yes == ballot[r].yes \cup {a} IN
  /\ MayDecide(r, a)
  /\ Cast(r, yes, ballot[r].no,
          IF Cardinality(yes) >= ballot[r].required THEN "APPROVED" ELSE "PENDING_APPROVAL")

Reject(r, a) == MayDecide(r, a) /\ Cast(r, ballot[r].yes, {a}, "REJECTED")

Next == \E r \in Request, a \in Actor :
          \/ \E c \in Capability, n \in 1 .. 2 : Open(r, a, c, n)
          \/ Approve(r, a)
          \/ Reject(r, a)

Spec == Init /\ [][Next]_ballot
=============================================================================
