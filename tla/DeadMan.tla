------------------------------ MODULE DeadMan ------------------------------
(***************************************************************************)
(* What the panda promises the driver, without saying how: a switch that    *)
(* lets a host act on the car only while the host keeps in touch, and lets  *)
(* it command the car only while it makes use of that.                      *)
(***************************************************************************)
EXTENDS Naturals

CONSTANTS Patience,   \* seconds without contact the switch puts up with (> 0)
          IdleLimit   \* seconds of unused command it puts up with (> 0)

VARIABLES
  acting,       \* the host's frames may reach the car
  commanding,   \* and may steer, brake or accelerate it
  silence,      \* seconds since the host was last heard of, up to Patience
  idle          \* seconds the command has gone unused, up to IdleLimit

deadManVars == <<acting, commanding, silence, idle>>

DeadManInit ==
  acting = FALSE /\ commanding = FALSE /\ silence = 0 /\ idle = 0

\* A command that is given up has no idle time.
Settle == idle' \in IF commanding' THEN {0, idle} ELSE {0}

\* The host calls: it may change what it does, but not take command.
Contact ==
  /\ silence' = 0
  /\ acting' \in BOOLEAN
  /\ commanding' \in {FALSE, commanding} /\ (commanding' => acting')
  /\ Settle

\* The driver gives or takes the command through the car's own controls.
Driver ==
  /\ commanding' \in BOOLEAN /\ (commanding' => acting)
  /\ Settle
  /\ UNCHANGED <<acting, silence>>

\* The switch itself restarts.
Restart ==
  acting' = FALSE /\ commanding' = FALSE /\ idle' = 0 /\ UNCHANGED silence

\* A second passes.  Whoever has been silent or idle for too long is out.
Second ==
  /\ silence' = IF silence < Patience THEN silence + 1 ELSE Patience
  /\ acting' \in {FALSE, acting} /\ (acting' => silence' < Patience)
  /\ commanding' \in {FALSE, commanding}
  /\ commanding' => acting' /\ idle' < IdleLimit
  /\ idle' \in IF commanding' THEN {0, idle + 1} ELSE {0}

DeadManNext == Contact \/ Driver \/ Restart \/ Second

DeadManSpec == DeadManInit /\ [][DeadManNext]_deadManVars
=============================================================================
