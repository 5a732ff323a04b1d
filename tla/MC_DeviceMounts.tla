--------------------------- MODULE MC_DeviceMounts ---------------------------
(* Two partitions of a hard disk, one with NTFS, whose names begin alike,   *)
(* and a stick that gets another name when it is plugged again.             *)
EXTENDS DeviceMounts

MCBeginsWith == [n \in Names |-> IF n = "sda1" THEN {"sda1", "sda10"} ELSE {n}]
MCHome == [d \in Disks |-> CASE d = "hd1" -> "sda1" [] d = "hd10" -> "sda10" [] d = "stick" -> "sdb1"]
MCDo(op, dev) == [op |-> op, dev |-> dev]
MCSlotSymmetry == Permutations(Slots)
MCCalls == {MCDo("--mount", "sda1"), MCDo("--mount", "sda10"), MCDo("--umount", "sda1")}
           \union {MCDo(op, "sdb1") : op \in NameOps} \union {MCDo(op, "stick") : op \in DiskOps}
==============================================================================
