------------------------------ MODULE MCLogger ------------------------------
(* Two cameras; a handle for each, one for the log, one for the next segment. *)
EXTENDS Logger

CONSTANTS road, wide
=============================================================================
