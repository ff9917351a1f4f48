----------------------------- MODULE MCSteering -----------------------------
(* PandaHooks on the whole alphabet of frames, and Steering on the frames that *)
(* measure the torque and engage; each behaviour is one of the two.           *)
EXTENDS MCPandaHooks, Steering

VARIABLE part

MCSteerFrames ==
  [id: {"ACC"}, bus: {0}, fits: {TRUE}, ok: {TRUE}, on: BOOLEAN, gas: {FALSE}]
  \cup [id: {"TORQUE"}, bus: {0}, fits: {TRUE}, ok: {TRUE}, on: {FALSE}, gas: {FALSE}]
MCTorques == -3..1
MCMeasures == {-3, 2}

MCInit == HooksInit /\ SteerInit /\ part \in {"hooks", "steering"}

MCNext ==
  \/ part = "hooks" /\ HooksNext /\ UNCHANGED <<steerVars, part>>
  \/ part = "steering" /\ SteerNext /\ UNCHANGED part

MCSpec == MCInit /\ [][MCNext]_<<hookVars, steerVars, part>>
=============================================================================
