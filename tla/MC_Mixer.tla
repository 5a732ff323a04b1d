------------------------------ MODULE MC_Mixer -------------------------------
(* Two sessions; a card with a stereo output and a control that records.    *)
(* Three levels are enough for what sessions do to each other and for a     *)
(* percentage that is no level of the card; what is lost when a percentage  *)
(* becomes a level is evaluated for many ranges.                            *)
EXTENDS Mixer, TLC

MCNone     == << >>
MCOuts     == <<"Master">>
MCCaps     == <<"Capture">>
MCChannels == [c \in {"Master", "Capture"} |-> IF c = "Master" THEN <<"left", "right">> ELSE <<"capture">>]
\* A level for each control, and what may leave the range of the card, or does nothing: to
\* switch off the playback of a control that records.
MCRequests == {"Master", "Capture"} \X {Arg("%", 40)}
              \union {"Capture"} \X {Arg("+%", 5), Arg("-%", 5), OnOff("off")}
Interchangeable == Permutations(Slots)

\* A percentage comes back as itself or at most one level of the card higher.
ASSUME \A top \in {1, 3, 15, 31, 39, 64, 87, 100, 127, 255} : \A p \in 0..100 :
           Percent(Raw(p, top), top) \in p..(p + CeilDiv(100, top))
==============================================================================
