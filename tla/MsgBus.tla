------------------------------- MODULE MsgBus -------------------------------
(* What a message queue promises its readers: each gets messages that were   *)
(* published, whole and in order. Messages may be missed. A reader may lose  *)
(* its footing (it no longer knows where the publisher is); what it gets     *)
(* then is undefined until it has found the newest message again.            *)
EXTENDS Integers, FiniteSets

CONSTANT Readers

VARIABLES
  published,   \* the numbers of the messages that were published
  last,        \* per reader: the last message it was given
  lost         \* per reader: has it lost its footing?

vars == <<published, last, lost>>

Newest == IF published = {} THEN 0 ELSE CHOOSE m \in published : \A k \in published : k <= m

Init ==
  /\ published = {}
  /\ last = [r \in Readers |-> 0]
  /\ lost = [r \in Readers |-> FALSE]

Publish ==
  /\ published \subseteq published'
  /\ \E m \in published' : Newest < m /\ published' \ published = {m}
  /\ UNCHANGED <<last, lost>>

Deliver(r) ==
  /\ ~lost[r]
  /\ \E m \in published : last[r] < m /\ last' = [last EXCEPT ![r] = m]
  /\ UNCHANGED <<published, lost>>

DeliverAnything(r) ==
  /\ lost[r]
  /\ last' = [last EXCEPT ![r] = last'[r]]
  /\ UNCHANGED <<published, lost>>

LoseFooting ==
  /\ \E R \in SUBSET Readers : lost' = [r \in Readers |-> lost[r] \/ r \in R]
  /\ UNCHANGED <<published, last>>

\* The reader starts over after the newest message.
FindNewest(r) ==
  /\ lost' = [lost EXCEPT ![r] = FALSE]
  /\ last' = [last EXCEPT ![r] = Newest]
  /\ UNCHANGED published

Next ==
  \/ Publish \/ LoseFooting
  \/ \E r \in Readers : Deliver(r) \/ DeliverAnything(r) \/ FindNewest(r)

Spec == Init /\ [][Next]_vars
=============================================================================
