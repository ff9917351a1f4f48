--------------------------- MODULE MCPandaHooks ---------------------------
(* PandaHooks on the whole alphabet of frames. *)
EXTENDS PandaHooks

Bus0(ids) == [id: ids, bus: {0}, fits: {TRUE}, ok: {TRUE}, on: {TRUE, FALSE}, gas: {FALSE}]
AccFrames == [id: {"ACC"}, bus: {0}, fits: {TRUE}, ok: {TRUE}, on: BOOLEAN, gas: BOOLEAN]
BadFrames == [id: ChecksummedIds, bus: {0}, fits: {TRUE}, ok: {FALSE}, on: {TRUE}, gas: {FALSE}]
Silent(ids, b) == [id: ids, bus: {b}, fits: {TRUE}, ok: {TRUE}, on: {FALSE}, gas: {FALSE}]

\* Of the other brake address, or too short; the checksum is not looked at.
Unchecked == [id: {"BRAKE", "TORQUE"}, bus: {0}, fits: {FALSE}, ok: {FALSE}, on: BOOLEAN, gas: {FALSE}]

MCRxFrames == Bus0({"SPEED", "BRAKE", "GAS_SENSOR"}) \cup AccFrames \cup BadFrames
              \cup Unchecked \cup Silent({"TORQUE", "LKA", "OTHER"}, 0)
              \cup Silent({"LKA", "CAMERA", "ACC", "OTHER"}, 2)
MCChecks == {"SPEED", "TORQUE", "ACC", "BRAKE"}

=============================================================================
