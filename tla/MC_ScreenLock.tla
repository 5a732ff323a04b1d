---------------------------- MODULE MC_ScreenLock ----------------------------
(* Instances of ScreenLock for TLC. *)
EXTENDS ScreenLock

CONSTANTS OneSlot, TwoSlots   \* sets of slots for calls

AllCalls  == {"lockscreen", "unlockscreen", "lockvlc", "unlockvlc", "lockvnc", "unlockvnc",
              "startclient", "stopclient", "startserver", "stopserver"}
LessonCalls == {"lockscreen", "startclient", "stopclient"}
==============================================================================
