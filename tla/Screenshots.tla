----------------------------- MODULE Screenshots -----------------------------
(***************************************************************************)
(* Pictures of the screen.  tcos.getscreenshot (xmlrpc/get_screenshot.c)   *)
(* runs screenshot.sh, which empties one directory, the same for all       *)
(* calls, and has scrot take a picture and save a small one there; then it *)
(* reads the small one.  Calls overlap, and a script outlives the server.  *)
(* What is in the file at a moment is the set of the calls that wrote into *)
(* it, and whether it is the whole picture of one of them.                 *)
(***************************************************************************)
CONSTANTS
    Calls,  \* the calls of a behaviour
    None    \* no call, and no file

ASSUME NoneAssumption == None \notin Calls

VARIABLES
    at,         \* how far the server is with each call
    script,     \* how far its screenshot.sh is
    thumb,      \* the file that has the name capture-thumb.jpg: the call that made it
    file,       \* what is in the file each call has made
    hand,       \* the file its scrot has written to
    opened,     \* the file the server has opened for it
    seen,       \* what was in it when the server measured it
    answer,     \* the picture it is answered with
    before,     \* history: the calls whose scripts were over when it began
    disturbed   \* history: another script came between it and its picture

callVars == <<at, opened, seen, answer>>
diskVars == <<script, thumb, file, hand>>
vars     == <<callVars, diskVars, before, disturbed>>

Picture == [of : SUBSET Calls, whole : BOOLEAN]
Nothing == [of |-> {}, whole |-> FALSE]
Error   == [of |-> {}, whole |-> TRUE]   \* the answer when there is no file
Whole(c) == [of |-> {c}, whole |-> TRUE]

Everywhere(v) == [c \in Calls |-> v]
Init == /\ at        = Everywhere("new")
        /\ script    = Everywhere("none")
        /\ thumb     = None
        /\ file      = Everywhere(Nothing)
        /\ hand      = Everywhere(None)
        /\ opened    = Everywhere(None)
        /\ seen      = Everywhere(Nothing)
        /\ answer    = Everywhere(Nothing)
        /\ before    = Everywhere({})
        /\ disturbed = Everywhere(FALSE)

\* A script has removed the picture, or written to the file f.
Cleared(c)     == script[c] \notin {"none", "clear"}
Disturbs(c, f) == disturbed' = [d \in Calls |-> disturbed[d]
                      \/ (d # c /\ at[d] = "waiting" /\ Cleared(d) /\ f \in {None, thumb'})
                      \/ (d # c /\ f # None /\ opened[d] = f)]
------------------------------------------------------------------------------
(* get_screenshot.c, when the login is right. *)

Begin(c) == /\ at[c] = "new"
            /\ at'     = [at EXCEPT ![c] = "waiting"]
            /\ script' = [script EXCEPT ![c] = "clear"]
            /\ before' = [before EXCEPT ![c] = {d \in Calls : script[d] = "over"}]
            /\ UNCHANGED <<opened, seen, answer, thumb, file, hand, disturbed>>

\* popen() fails and fclose() is given no file: the server ends, with all its calls, and is
\* started again.  The scripts go on.
Crash(c) == /\ at[c] = "new"
            /\ at' = [d \in Calls |-> IF d = c \/ at[d] \notin {"new", "done"} THEN "lost" ELSE at[d]]
            /\ opened' = [d \in Calls |-> None]
            /\ UNCHANGED <<seen, answer, diskVars, before, disturbed>>

\* Variant with a bug: the end of the script is not waited for.
NotWaiting(c) == at[c] = "waiting"

\* fclose() of a pipe waits for the script.
ScriptDone(c) == at[c] = "waiting" /\ script[c] = "over"

\* Variant with a bug: readfile() does not look whether there is a file.
OpenAny(c) == /\ ScriptDone(c)
              /\ at'     = [at EXCEPT ![c] = "measuring"]
              /\ opened' = [opened EXCEPT ![c] = thumb]
              /\ UNCHANGED <<seen, answer, diskVars, before, disturbed>>

Open(c) == /\ ScriptDone(c)
           /\ IF thumb = None
              THEN /\ at'     = [at EXCEPT ![c] = "done"]
                   /\ answer' = [answer EXCEPT ![c] = Error]
                   /\ UNCHANGED opened
              ELSE /\ at'     = [at EXCEPT ![c] = "measuring"]
                   /\ opened' = [opened EXCEPT ![c] = thumb]
                   /\ UNCHANGED answer
           /\ UNCHANGED <<seen, diskVars, before, disturbed>>

Measure(c) == /\ at[c] = "measuring"
              /\ at'   = [at EXCEPT ![c] = "reading"]
              /\ seen' = [seen EXCEPT ![c] = file[opened[c]]]
              /\ UNCHANGED <<opened, answer, diskVars, before, disturbed>>

\* As many bytes are read as were measured, whatever is in the file by now.
Read(c) == /\ at[c] = "reading"
           /\ at'     = [at EXCEPT ![c] = "done"]
           /\ answer' = [answer EXCEPT ![c] =
                            [of |-> file[opened[c]].of, whole |-> seen[c] = file[opened[c]] /\ seen[c].whole]]
           /\ opened' = [opened EXCEPT ![c] = None]
           /\ UNCHANGED <<seen, diskVars, before, disturbed>>
------------------------------------------------------------------------------
(* screenshot.sh *)

ScriptGoes(c, from, to) == script[c] = from /\ script' = [script EXCEPT ![c] = to]

\* Variant with a bug: "rm -rf" is left out.
ClearNot(c) == /\ ScriptGoes(c, "clear", "grab")
               /\ UNCHANGED <<callVars, thumb, file, hand, before, disturbed>>

\* rm -rf: who has opened the file keeps it.
Clear(c) == /\ ScriptGoes(c, "clear", "grab")
            /\ thumb' = None
            /\ Disturbs(c, None)
            /\ UNCHANGED <<callVars, file, hand, before>>

\* scrot cannot open the display.
GrabFails(c) == /\ ScriptGoes(c, "grab", "over")
                /\ UNCHANGED <<callVars, thumb, file, hand, before, disturbed>>

\* scrot has its picture, and opens the file: it makes one, or empties the one there is.
Create(c) == /\ ScriptGoes(c, "grab", "saving")
             /\ hand'  = [hand EXCEPT ![c] = IF thumb = None THEN c ELSE thumb]
             /\ thumb' = hand'[c]
             /\ file'  = [file EXCEPT ![thumb'] = [of |-> {c}, whole |-> FALSE]]
             /\ Disturbs(c, thumb')
             /\ UNCHANGED <<callVars, before>>

\* The picture is written.  If another scrot has written meanwhile, both are in the file.
Save(c) == /\ ScriptGoes(c, "saving", "over")
           /\ LET f == hand[c] IN
              /\ file' = [file EXCEPT ![f] = [of |-> @.of \union {c}, whole |-> @ = [of |-> {c}, whole |-> FALSE]]]
              /\ UNCHANGED thumb
              /\ Disturbs(c, f)
           /\ UNCHANGED <<callVars, hand, before>>

Script(c) == Clear(c) \/ GrabFails(c) \/ Create(c) \/ Save(c)
Serve(c)  == Begin(c) \/ Crash(c) \/ Open(c) \/ Measure(c) \/ Read(c)

Next == \E c \in Calls : Serve(c) \/ Script(c)

Spec == Init /\ [][Next]_vars
------------------------------------------------------------------------------
\* Types; a call that measures or reads has a file, in which somebody has written.
TypeOK == /\ at \in [Calls -> {"new", "waiting", "measuring", "reading", "done", "lost"}]
          /\ script \in [Calls -> {"none", "clear", "grab", "saving", "over"}]
          /\ thumb \in Calls \union {None} /\ hand \in [Calls -> Calls \union {None}]
          /\ file \in [Calls -> Picture] /\ seen \in [Calls -> Picture] /\ answer \in [Calls -> Picture]
          /\ opened \in [Calls -> Calls \union {None}]
          /\ before \in [Calls -> SUBSET Calls] /\ disturbed \in [Calls -> BOOLEAN]
          /\ thumb # None => file[thumb].of # {}
          /\ \A c \in Calls : at[c] \in {"measuring", "reading"} => opened[c] # None /\ file[opened[c]].of # {}

\* A call is answered with the picture its own scrot took, whole, and with an error when
\* that took none, unless another script removed it or wrote to it meanwhile
\* (screenshot.sh:49): the script is over before the file is read (get_screenshot.c:66).
OwnPicture == \A c \in Calls :
    at[c] = "done" /\ ~disturbed[c] => answer[c] = IF hand[c] = None THEN Error ELSE Whole(c)

\* Whatever overlaps, fails or ends, nobody is shown a picture whose script was over before
\* the call began: each call removes what is there before it takes its own.
NoOldPicture == \A c \in Calls : at[c] = "done" => answer[c].of \intersect before[c] = {}
==============================================================================
