------------------------------ MODULE MC_Mount ------------------------------
(* Instances of MountListener for TLC: a file system that is there from the    *)
(* start, one that is not, and one of a /dev/disk/ name.                       *)
EXTENDS MountListener

MCLines   == {"/dev/hda1", "/dev/sda1", "/dev/disk/x"}
MCIgnored == {"/dev/disk/x"}
MCTable   == <<"/dev/hda1">>
==============================================================================
