-------------------------- MODULE ScreenshotsProofs --------------------------
(***************************************************************************)
(* Proofs about Screenshots, for any number of calls.                      *)
(***************************************************************************)
EXTENDS Screenshots, TLAPS

\* How far the script of a call is, seen from the call, and whether it has a file.
Phase == \A c \in Calls :
    /\ at[c] = "new" => script[c] = "none" /\ opened[c] = None
    /\ at[c] = "waiting" => script[c] # "none" /\ opened[c] = None
    /\ at[c] \in {"measuring", "reading", "done"} => script[c] = "over"
    /\ script[c] \in {"none", "clear", "grab"} => hand[c] = None
    /\ script[c] = "saving" => hand[c] # None

\* A script that was over when a call began has nothing in what the call may still read.
Fresh == \A c \in Calls :
    /\ \A d \in before[c] : script[d] = "over"
    /\ at[c] = "waiting" /\ Cleared(c) /\ thumb # None => file[thumb].of \intersect before[c] = {}
    /\ opened[c] # None => file[opened[c]].of \intersect before[c] = {}
    /\ at[c] = "done" => answer[c].of \intersect before[c] = {}

\* What an undisturbed call is going to read is its own picture, or no file.
OwnScript(c) ==
    /\ script[c] = "grab" => thumb = None
    /\ script[c] = "saving" => thumb = hand[c] /\ file[hand[c]] = [of |-> {c}, whole |-> FALSE]
    /\ script[c] = "over" => thumb = hand[c] /\ (hand[c] # None => file[hand[c]] = Whole(c))
OwnReading(c) ==
    /\ at[c] \in {"measuring", "reading"} =>
           opened[c] = hand[c] /\ hand[c] # None /\ file[hand[c]] = Whole(c)
    /\ at[c] = "reading" => seen[c] = Whole(c)
    /\ at[c] = "done" => answer[c] = IF hand[c] = None THEN Error ELSE Whole(c)
Own == \A c \in Calls : ~disturbed[c] => (at[c] = "waiting" => OwnScript(c)) /\ OwnReading(c)

Inv == TypeOK /\ Phase /\ Fresh /\ Own

LEMMA InitInv == Init => Inv
BY NoneAssumption DEF Init, Inv, TypeOK, Phase, Fresh, Own, OwnScript, OwnReading, Everywhere, Nothing, Picture, Cleared

LEMMA BeginInv == ASSUME Inv, NEW c \in Calls, Begin(c) PROVE Inv'
<1> USE NoneAssumption DEF Inv, Begin
<1>1. TypeOK'
  BY DEF TypeOK
<1>2. Phase'
  BY DEF TypeOK, Phase
<1>3. Fresh'
  BY DEF TypeOK, Phase, Fresh, Cleared
<1>4. Own'
  BY DEF TypeOK, Phase, Own, OwnScript, OwnReading
<1> QED BY <1>1, <1>2, <1>3, <1>4

LEMMA CrashInv == ASSUME Inv, NEW c \in Calls, Crash(c) PROVE Inv'
<1> USE NoneAssumption DEF Inv, Crash, diskVars
<1>1. TypeOK'
  BY DEF TypeOK
<1>2. Phase'
  BY DEF TypeOK, Phase
<1>3. Fresh'
  BY DEF TypeOK, Phase, Fresh, Cleared
<1>4. Own'
  BY DEF TypeOK, Phase, Own, OwnScript, OwnReading
<1> QED BY <1>1, <1>2, <1>3, <1>4

LEMMA OpenInv == ASSUME Inv, NEW c \in Calls, Open(c) PROVE Inv'
<1> USE NoneAssumption DEF Inv, Open, ScriptDone, diskVars
<1>1. TypeOK'
  <2>1. Error \in Picture
    BY DEF Error, Picture
  <2> QED BY <2>1 DEF TypeOK
<1>2. Phase'
  BY DEF TypeOK, Phase
<1>3. Fresh'
  BY DEF TypeOK, Phase, Fresh, Cleared, Error
<1>4. Own'
  BY DEF TypeOK, Phase, Own, OwnScript, OwnReading
<1> QED BY <1>1, <1>2, <1>3, <1>4

LEMMA MeasureInv == ASSUME Inv, NEW c \in Calls, Measure(c) PROVE Inv'
<1> USE NoneAssumption DEF Inv, Measure, diskVars
<1>1. TypeOK'
  BY DEF TypeOK
<1>2. Phase'
  BY DEF TypeOK, Phase
<1>3. Fresh'
  BY DEF TypeOK, Phase, Fresh, Cleared
<1>4. Own'
  BY DEF TypeOK, Phase, Own, OwnScript, OwnReading
<1> QED BY <1>1, <1>2, <1>3, <1>4

LEMMA ReadInv == ASSUME Inv, NEW c \in Calls, Read(c) PROVE Inv'
<1> USE NoneAssumption DEF Inv, Read, diskVars
<1>0. /\ opened[c] \in Calls /\ file[opened[c]] \in Picture
      /\ \A d \in Calls : d # c => answer'[d] = answer[d]
      /\ answer'[c].of = file[opened[c]].of
  BY DEF TypeOK
<1>1. TypeOK'
  <2>1. answer'[c] \in Picture
    <3>1. answer \in [Calls -> Picture] /\ file[opened[c]].of \in SUBSET Calls
      BY <1>0 DEF TypeOK, Picture
    <3>2. PICK b \in BOOLEAN : answer'[c] = [of |-> file[opened[c]].of, whole |-> b]
      <4>1. answer'[c] = [of |-> file[opened[c]].of, whole |-> seen[c] = file[opened[c]] /\ seen[c].whole]
        BY <3>1, Zenon
      <4>2. (seen[c] = file[opened[c]] /\ seen[c].whole) \in BOOLEAN
        BY Zenon
      <4> QED BY <4>1, <4>2, Zenon
    <3> QED BY <3>1, <3>2 DEF Picture
  <2>2. answer' \in [Calls -> Picture]
    BY <1>0, <2>1 DEF TypeOK
  <2> QED BY <2>2 DEF TypeOK
<1>2. Phase'
  BY DEF TypeOK, Phase
<1>3. Fresh'
  BY <1>0 DEF TypeOK, Phase, Fresh, Cleared
<1>4. Own'
  <2>1. ASSUME ~disturbed[c] PROVE answer'[c] = Whole(c)
    <3>1. seen[c] = Whole(c) /\ file[opened[c]] = Whole(c)
      BY <2>1 DEF TypeOK, Own, OwnScript, OwnReading
    <3>2. answer'[c] = [of |-> file[opened[c]].of, whole |-> seen[c] = file[opened[c]] /\ seen[c].whole]
      BY Zenon DEF TypeOK
    <3>3. Whole(c).of = {c} /\ Whole(c).whole
      BY DEF Whole
    <3> QED BY <3>1, <3>2, <3>3, Zenon DEF Whole
  <2>2. OwnReading(c)' \/ disturbed[c]
    <3>1. ~disturbed[c] => hand[c] # None
      BY DEF Own, OwnReading
    <3>2. at'[c] = "done"
      BY DEF TypeOK
    <3> QED BY <2>1, <3>1, <3>2 DEF OwnReading
  <2>3. ASSUME NEW d \in Calls, d # c, ~disturbed[d]
        PROVE  (at[d] = "waiting" => OwnScript(d)) /\ OwnReading(d)'
    <3>1. at'[d] = at[d] /\ opened'[d] = opened[d]
      BY <2>3 DEF TypeOK
    <3> QED BY <1>0, <2>3, <3>1 DEF Own, OwnReading
  <2>4. at'[c] # "waiting" /\ \A d \in Calls : d # c => at'[d] = at[d]
    BY DEF TypeOK
  <2> QED BY <2>2, <2>3, <2>4 DEF Own, OwnScript
<1> QED BY <1>1, <1>2, <1>3, <1>4

\* What a script that goes on leaves undisturbed.
LEMMA DisturbsFact ==
    ASSUME TypeOK, NEW c \in Calls, NEW f, Disturbs(c, f)
    PROVE  /\ disturbed' \in [Calls -> BOOLEAN]
           /\ \A d \in Calls : ~disturbed'[d] => /\ ~disturbed[d]
                                                 /\ d # c /\ at[d] = "waiting" /\ Cleared(d) => f \notin {None, thumb'}
                                                 /\ d # c /\ f # None => opened[d] # f
<1>1. \A d \in Calls : disturbed'[d] = (\/ disturbed[d]
                                        \/ (d # c /\ at[d] = "waiting" /\ Cleared(d) /\ f \in {None, thumb'})
                                        \/ (d # c /\ f # None /\ opened[d] = f))
  BY Zenon DEF Disturbs
<1> QED BY <1>1, Zenon DEF Disturbs, TypeOK

LEMMA ClearInv == ASSUME Inv, NEW c \in Calls, Clear(c) PROVE Inv'
<1> USE NoneAssumption DEF Inv, Clear, ScriptGoes, callVars
<1>0. /\ disturbed' \in [Calls -> BOOLEAN]
      /\ \A d \in Calls : ~disturbed'[d] => ~disturbed[d] /\ ~(d # c /\ at[d] = "waiting" /\ Cleared(d))
  BY DisturbsFact
<1>1. TypeOK'
  BY <1>0 DEF TypeOK
<1>2. Phase'
  BY DEF TypeOK, Phase
<1>3. Fresh'
  BY DEF TypeOK, Phase, Fresh, Cleared
<1>4. Own'
  BY <1>0 DEF TypeOK, Phase, Own, OwnScript, OwnReading, Cleared
<1> QED BY <1>1, <1>2, <1>3, <1>4

LEMMA GrabFailsInv == ASSUME Inv, NEW c \in Calls, GrabFails(c) PROVE Inv'
<1> USE NoneAssumption DEF Inv, GrabFails, ScriptGoes, callVars
<1>1. TypeOK'
  BY DEF TypeOK
<1>2. Phase'
  BY DEF TypeOK, Phase
<1>3. Fresh'
  BY DEF TypeOK, Phase, Fresh, Cleared
<1>4. Own'
  BY DEF TypeOK, Phase, Own, OwnScript, OwnReading, Cleared
<1> QED BY <1>1, <1>2, <1>3, <1>4

LEMMA CreateInv == ASSUME Inv, NEW c \in Calls, Create(c) PROVE Inv'
<1> USE NoneAssumption DEF Inv, Create, ScriptGoes, callVars
<1>0. /\ disturbed' \in [Calls -> BOOLEAN]
      /\ \A d \in Calls : ~disturbed'[d] => /\ ~disturbed[d]
                                            /\ ~(d # c /\ at[d] = "waiting" /\ Cleared(d))
                                            /\ d # c => opened[d] # thumb'
  <2>1. thumb' \in Calls /\ thumb' # None
    BY DEF TypeOK
  <2> QED BY <2>1, DisturbsFact
<1>1. TypeOK'
  <2>1. [of |-> {c}, whole |-> FALSE] \in Picture
    BY DEF Picture
  <2>2. /\ thumb' \in Calls /\ hand' \in [Calls -> Calls \union {None}] /\ file' \in [Calls -> Picture]
        /\ \A f \in Calls : file'[f] = IF f = thumb' THEN [of |-> {c}, whole |-> FALSE] ELSE file[f]
    BY <2>1 DEF TypeOK
  <2> QED BY <1>0, <2>2 DEF TypeOK
<1>2. Phase'
  BY DEF TypeOK, Phase
<1>3. Fresh'
  BY DEF TypeOK, Phase, Fresh, Cleared
<1>4. Own'
  <2> SUFFICES ASSUME NEW d \in Calls, ~disturbed'[d]
               PROVE  (at[d] = "waiting" => OwnScript(d)') /\ OwnReading(d)'
    BY DEF Own
  <2>0. ~disturbed[d] /\ (d # c => ~(at[d] = "waiting" /\ Cleared(d)) /\ opened[d] # thumb')
    BY <1>0
  <2>1. CASE d = c
    <3>1. at[c] # "waiting" => at[c] = "lost"
      BY DEF Phase, TypeOK
    <3>2. at[c] = "waiting" => OwnScript(c)'
      BY <2>0, <2>1 DEF Own, OwnScript, TypeOK
    <3>3. OwnReading(c)'
      BY <3>1 DEF OwnReading
    <3> QED BY <2>1, <3>2, <3>3
  <2>2. CASE d # c
    <3>1. /\ script'[d] = script[d] /\ hand'[d] = hand[d]
          /\ \A f \in Calls : f # thumb' => file'[f] = file[f]
          /\ hand[d] \in Calls \union {None}
      BY <2>2 DEF TypeOK
    <3>2. at[d] = "waiting" => OwnScript(d)'
      BY <2>0, <2>2, <3>1 DEF OwnScript, Cleared, TypeOK
    <3>3. OwnReading(d)'
      BY <2>0, <2>2, <3>1 DEF Own, OwnReading
    <3> QED BY <3>2, <3>3
  <2> QED BY <2>1, <2>2
<1> QED BY <1>1, <1>2, <1>3, <1>4

LEMMA SaveInv == ASSUME Inv, NEW c \in Calls, Save(c) PROVE Inv'
<1> USE NoneAssumption DEF Inv, Save, ScriptGoes, callVars
<1>0. /\ disturbed' \in [Calls -> BOOLEAN]
      /\ hand[c] \in Calls /\ file[hand[c]] \in Picture
      /\ \A f \in Calls : f # hand[c] => file'[f] = file[f]
      /\ file'[hand[c]].of = file[hand[c]].of \union {c}
      /\ \A d \in Calls : ~disturbed'[d] => /\ ~disturbed[d]
                                            /\ d # c /\ at[d] = "waiting" /\ Cleared(d) => hand[c] # thumb
                                            /\ d # c => opened[d] # hand[c]
  BY DisturbsFact DEF TypeOK, Phase
<1>1. TypeOK'
  <2>1. file'[hand[c]] \in Picture
    <3>1. file \in [Calls -> Picture] /\ file[hand[c]].of \in SUBSET Calls
      BY <1>0 DEF TypeOK, Picture
    <3>2. PICK b \in BOOLEAN : file'[hand[c]] = [of |-> file[hand[c]].of \union {c}, whole |-> b]
      BY <1>0, <3>1, Zenon
    <3>3. file[hand[c]].of \union {c} \in SUBSET Calls
      BY <3>1
    <3> QED BY <3>2, <3>3 DEF Picture
  <2>2. file' \in [Calls -> Picture]
    BY <1>0, <2>1 DEF TypeOK
  <2> QED BY <1>0, <2>2 DEF TypeOK, Phase
<1>2. Phase'
  BY DEF TypeOK, Phase
<1>3. Fresh'
  BY <1>0 DEF TypeOK, Phase, Fresh, Cleared
<1>4. Own'
  <2>1. ASSUME file[hand[c]] = [of |-> {c}, whole |-> FALSE] PROVE file'[hand[c]] = Whole(c)
    <3> DEFINE part == [of |-> {c}, whole |-> FALSE]
    <3>1. file'[hand[c]] = [of |-> file[hand[c]].of \union {c}, whole |-> file[hand[c]] = part]
      BY <1>0, Zenon DEF TypeOK
    <3>2. file[hand[c]].of \union {c} = {c} /\ (file[hand[c]] = part) = TRUE
      BY <2>1
    <3> QED BY <3>1, <3>2, Zenon DEF Whole
  <2> SUFFICES ASSUME NEW d \in Calls, ~disturbed'[d]
               PROVE  (at[d] = "waiting" => OwnScript(d)') /\ OwnReading(d)'
    BY DEF Own
  <2>2. CASE d = c
    <3>1. at[c] # "waiting" => at[c] = "lost"
      BY DEF Phase, TypeOK
    <3>2. at[c] = "waiting" => OwnScript(c)'
      BY <1>0, <2>1, <2>2 DEF Own, OwnScript, TypeOK
    <3>3. OwnReading(c)'
      BY <3>1 DEF OwnReading
    <3> QED BY <2>2, <3>2, <3>3
  <2>3. CASE d # c
    <3>1. script'[d] = script[d] /\ hand[d] \in Calls \union {None}
      BY <2>3 DEF TypeOK
    <3>2. at[d] = "waiting" => OwnScript(d)'
      BY <1>0, <2>3, <3>1 DEF Own, OwnScript, Cleared, TypeOK
    <3>3. OwnReading(d)'
      BY <1>0, <2>3, <3>1 DEF Own, OwnReading
    <3> QED BY <3>2, <3>3
  <2> QED BY <2>2, <2>3
<1> QED BY <1>1, <1>2, <1>3, <1>4

LEMMA StepInv == Inv /\ [Next]_vars => Inv'
<1> SUFFICES ASSUME Inv, [Next]_vars PROVE Inv'
  OBVIOUS
<1>1. CASE UNCHANGED vars
  BY <1>1 DEF Inv, TypeOK, Phase, Fresh, Own, OwnScript, OwnReading, Cleared, vars, callVars, diskVars
<1>2. ASSUME NEW c \in Calls, Serve(c) \/ Script(c) PROVE Inv'
  BY <1>2, BeginInv, CrashInv, OpenInv, MeasureInv, ReadInv, ClearInv, GrabFailsInv, CreateInv, SaveInv DEF Serve, Script
<1> QED BY <1>1, <1>2 DEF Next

LEMMA InvAlways == Spec => []Inv
BY InitInv, StepInv, PTL DEF Spec

\* The state of calls, scripts and files is well typed, and a call that measures or reads a
\* file has one that is not empty (readfile).
THEOREM TypeCorrect == Spec => []TypeOK
BY InvAlways, PTL DEF Inv

\* However many calls overlap and wherever the server ends: the picture of a call that no
\* other script disturbed is its own (get_screenshot.c:66 waits for the script).
THEOREM OwnPictureAlways == Spec => []OwnPicture
<1>1. Inv => OwnPicture
  BY DEF Inv, Own, OwnScript, OwnReading, OwnPicture
<1> QED BY <1>1, InvAlways, PTL

\* Nobody is shown a picture of a script that was over before the call (screenshot.sh:49
\* removes what is there).
THEOREM NoOldPictureAlways == Spec => []NoOldPicture
<1>1. Inv => NoOldPicture
  BY DEF Inv, Fresh, NoOldPicture
<1> QED BY <1>1, InvAlways, PTL
==============================================================================
