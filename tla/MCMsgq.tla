------------------------------- MODULE MCMsgq -------------------------------
(* Sizes of Msgq for TLC. Each behaviour is one of two: one reader in a ring   *)
(* that is lapped (part "lap", the constants of the configuration), or two     *)
(* readers that share two slots and evict each other while two messages are    *)
(* sent (part "share"): the third subscription, of a reader that was restarted, *)
(* finds both slots taken. To keep the parts small nothing restarts with a      *)
(* conflating reader, nor once the last message has begun, in part "lap", and   *)
(* only r1 in part "share".                                                    *)
EXTENDS Msgq

CONSTANTS r1, r2

VARIABLES
  part,
  num_readers2, write_pointer2, read_pointers2, read_valids2, read_uids2, data2,
  pub2, rd2, started2, restarts2, published2, last2, lost2

vars2 == <<num_readers2, write_pointer2, read_pointers2, read_valids2, read_uids2, data2,
           pub2, rd2, started2, restarts2, published2, last2, lost2>>

Share == INSTANCE Msgq WITH
  Readers <- {r1, r2}, NUM_READERS <- 2, Size <- 6, MsgSizes <- {1},
  Conflate <- {FALSE}, MaxMsgs <- 2, MaxRestarts <- 1,
  num_readers <- num_readers2, write_pointer <- write_pointer2,
  read_pointers <- read_pointers2, read_valids <- read_valids2,
  read_uids <- read_uids2, data <- data2, pub <- pub2, rd <- rd2,
  started <- started2, restarts <- restarts2,
  published <- published2, last <- last2, lost <- lost2

MCInit ==
  /\ Init /\ Share!Init
  /\ \/ part = "lap"
     \/ part = "share" /\ \A r \in Readers : ~rd[r].conflate

MCNext ==
  \/ /\ part = "lap" /\ Next /\ UNCHANGED <<vars2, part>>
     /\ restarts' = restarts \/ (started < MaxMsgs /\ \A r \in Readers : ~rd[r].conflate)
  \/ /\ part = "share" /\ Share!Next /\ UNCHANGED <<vars, part>>
     /\ restarts2' = restarts2 \/ (pub2' = pub2 /\ rd2'[r2] = rd2[r2])

\* Every step of the publisher changes pub, every step of a reader rd.
MCFairness ==
  /\ WF_pub(part = "lap" /\ PubStep)
  /\ \A r \in Readers : WF_rd(part = "lap" /\ RecvStep(r))
  /\ WF_pub2(part = "share" /\ Share!PubStep)
  /\ \A r \in {r1, r2} : WF_rd2(part = "share" /\ Share!RecvStep(r))

MCSpec == MCInit /\ [][MCNext]_<<vars, vars2, part>> /\ MCFairness

\* Readers that share slots and evict each other too are given whole messages in
\* order (ImplementsBus of msgq_init_subscriber's evictions).
SharedImplementBus == Share!ImplementsBus

\* Once nothing is sent any more every reader, evicted, lapped or neither, that
\* keeps calling comes to the end of the queue; it never circles in the ring, in
\* resets or in subscriptions (goto start of msgq_msg_recv, the loop of
\* msgq_init_subscriber). It does not hold of every instance: readers evict each
\* other for ever when there are more of them than slots, and, step for step in
\* turn, when they subscribe while a restarted publisher clears the slots.
CatchesUp ==
  /\ \A r \in Readers : []<>(part = "share" \/ AtRest(r))
  /\ \A r \in {r1, r2} : []<>(part = "lap" \/ Share!AtRest(r))
=============================================================================
