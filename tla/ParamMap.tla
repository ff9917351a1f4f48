------------------------------ MODULE ParamMap ------------------------------
(* What the parameter store promises: a map whose keys change one at a time   *)
(* and survive a loss of power with the value they had or the one they were   *)
(* being given, never with a part of one.                                     *)
CONSTANTS Keys, Values, Absent

VARIABLES
  now,   \* what a reader sees
  may    \* what each key may be after a loss of power

mapVars == <<now, may>>

MapInit == now \in [Keys -> Values \union {Absent}] /\ may = [k \in Keys |-> {now[k]}]

Change(k, v) == now' = [now EXCEPT ![k] = v] /\ may' = [may EXCEPT ![k] = @ \union {v}]

Settle == now' = now /\ may' = [k \in Keys |-> {now[k]}]

LosePower ==
  /\ now' \in [Keys -> Values \union {Absent}]
  /\ \A k \in Keys : now'[k] \in may[k]
  /\ may' = [k \in Keys |-> {now'[k]}]

MapNext ==
  \/ \E k \in Keys, v \in Values \union {Absent} : Change(k, v)
  \/ Settle
  \/ LosePower

MapSpec == MapInit /\ [][MapNext]_mapVars
=============================================================================
