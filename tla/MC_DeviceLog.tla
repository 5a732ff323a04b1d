---------------------------- MODULE MC_DeviceLog ----------------------------
(* Instances of DeviceLog for TLC: one disk with two partitions. *)
EXTENDS DeviceLog

CONSTANTS OneSlot, TwoSlots   \* sets of process slots

MCDisks == <<1>>
MCParts == <<1, 2>>
AllOptions   == {"--getudev", "--showlocaldisks", "--getparts"}
==============================================================================
