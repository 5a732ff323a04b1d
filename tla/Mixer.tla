------------------------------- MODULE Mixer --------------------------------
(***************************************************************************)
(* The volumes of the terminal: tmixer (tmixer.c, tmixer-alsa.c,           *)
(* tmixer-oss.c), which reads and sets one control of the sound card, and  *)
(* the two scripts of the server that call it, soundctl.sh and             *)
(* rtp-controller.sh.  Every call of tmixer is a process of its own, a     *)
(* session is one run of a script, and sessions overlap.                   *)
(***************************************************************************)
EXTENDS Integers, Sequences

CONSTANTS
    Slots,        \* sessions that may run at the same time
    Outs,         \* the controls set_volume names that the card has, a sequence
    Mics, Boosts, \* the same of set_mic: the microphones and their boosts
    Caps,         \* the same: the controls that record
    Channels,     \* the channels of each control: "left", "right", "capture"
    Switched,     \* the controls that have a switch
    OssNames,     \* the controls that tmixer-oss knows by their name
    AlsaMax,      \* the highest level of a control in ALSA
    Drivers,      \* what tmixer.c may find: "alsa", "oss", "none"
    Asked,        \* the controls consoles ask the level or the switch of
    Requests      \* what they ask to set: pairs of a control and what it is to be set to

Controls == DOMAIN Channels
In(c, names) == \E k \in DOMAIN names : names[k] = c
ASSUME ControlAssumption ==
    /\ Channels \in [Controls -> Seq({"left", "right", "capture"}) \ {<< >>}]
    /\ {Outs, Mics, Boosts, Caps} \subseteq Seq(Controls)
    /\ \A c \in Controls : In(c, Outs) \/ In(c, Mics) => Channels[c][1] = "left"
    /\ \A c \in Controls : In(c, Caps) => \A k \in DOMAIN Channels[c] : Channels[c][k] = "capture"
    /\ \A c \in Controls : /\ In(c, Outs)   => ~In(c, Mics)
                           /\ In(c, Boosts) => ~In(c, Outs) /\ ~In(c, Mics) /\ ~In(c, Caps)
    /\ Switched \subseteq Controls /\ OssNames \subseteq Controls /\ Asked \subseteq Controls
ASSUME LevelAssumption == AlsaMax \in Nat \ {0}

VOLUME        == 85
VOLUME_MIC    == 75
CAPTURE       == 90
OSSMAXLEVEL   == 100
OSSUNMUTELEVEL == 85

VARIABLES
    driver,   \* the driver tmixer uses
    mix,      \* the card: what each channel of each control is set to
    session,  \* what each slot runs
    todo,     \* the calls of tmixer that are left
    known,    \* the levels rtp-controller.sh has read, in percent
    snap,     \* ALSA: the control as the running tmixer has read it
    next,     \* ALSA: the channel it writes next; OSS: 2 when it has written
    shown,    \* what the last call of tmixer has printed
    spoiled,  \* history: controls that a session with another goal wrote meanwhile
    kept      \* history: the goal that a finished session has reached for each control

procVars == <<session, todo, known, snap, next, shown>>
vars     == <<driver, mix, procVars, spoiled, kept>>
------------------------------------------------------------------------------
(* Levels. *)

CeilDiv(a, b) == (a + b - 1) \div b

\* convert_prange1: the lowest level that is not below the percentage.
Raw(p, top) == CeilDiv(p * top, 100)

\* convert_prange: rint() rounds to the nearest, and a half to the even one.
Percent(level, top) ==
    LET q == (100 * level) \div top
        r == 2 * ((100 * level) % top)
    IN  IF r > top \/ (r = top /\ q % 2 = 1) THEN q + 1 ELSE q

\* Variant with a bug: levels are not held in their range.
Unchecked(n, top) == n

Clamp(n, top) == IF n < 0 THEN 0 ELSE IF n > top THEN top ELSE n

Top == IF driver = "oss" THEN OSSMAXLEVEL ELSE AlsaMax

\* ALSA prints neither level nor switch of a control whose one channel records: the lines
\* for mono controls ask for a mono playback (pmono), and the loop skips mono capture (cmono).
Prints(c) == driver = "oss" \/ Channels[c] # <<"capture">>

\* The first channel alone is printed.  Behind the switch for playback comes what a
\* channel that records has, in the same field.
NoLevel == -1
Shown(c, e) ==
    [level  |-> IF Prints(c) THEN Percent(e[1].level, Top) ELSE NoLevel,
     switch |-> IF driver = "oss" THEN (IF e[1].level > 0 THEN "on" ELSE "off")
                ELSE IF c \notin Switched \/ ~Prints(c) THEN "none"
                ELSE IF In("left", Channels[c]) /\ In("capture", Channels[c]) THEN "both"
                ELSE IF e[1].on THEN "on" ELSE "off"]
Unknow == [level |-> NoLevel, switch |-> "unknow"]
------------------------------------------------------------------------------
(* tmixer-alsa.c: one channel after the other. *)

\* Variant with a bug: percentages are rounded down.
NewLevelDown(c, old, a) ==
    LET percent == a.word # "raw" \/ In("left", Channels[c])
        val     == IF percent THEN (a.n * AlsaMax) \div 100 ELSE a.n
    IN  Clamp(CASE a.word = "+%" -> old + val [] a.word = "-%" -> old - val [] OTHER -> val, AlsaMax)

\* set_volume_simple.  "%" is appended to every level of a control with a channel that plays.
NewLevel(c, old, a) ==
    LET percent == a.word # "raw" \/ In("left", Channels[c])
        val     == IF percent THEN Raw(a.n, AlsaMax) ELSE a.n
    IN  Clamp(CASE a.word = "+%" -> old + val [] a.word = "-%" -> old - val [] OTHER -> val, AlsaMax)

Numbers == {"%", "raw", "+%", "-%"}

\* What sset_channels makes of a channel.  Words about playback do nothing to a channel
\* that records, and the other way round.
NewChannel(c, k, ch, a) ==
    LET words == IF Channels[c][k] = "capture" THEN {"cap", "nocap"} ELSE {"on", "off"}
    IN  IF a.word \in Numbers THEN [ch EXCEPT !.level = NewLevel(c, @, a)]
        ELSE IF a.word \in words /\ c \in Switched THEN [ch EXCEPT !.on = a.word \in {"on", "cap"}]
        ELSE ch

\* check_flag: the command is valid when some channel could do what it says.
Valid(c, a) == \/ a.word \in Numbers
               \/ /\ c \in Switched
                  /\ \E k \in DOMAIN Channels[c] :
                         a.word \in (IF Channels[c][k] = "capture" THEN {"cap", "nocap"} ELSE {"on", "off"})

\* The ALSA library writes nothing when its copy has the value already; else it writes the
\* whole control, as its copy has it.
CacheWrite(c, old, new) == mix' = IF new = old THEN mix ELSE [mix EXCEPT ![c] = new]
------------------------------------------------------------------------------
(* The scripts, as the calls of tmixer they make. *)

Arg(word, n) == [word |-> word, n |-> n]
OnOff(word)  == Arg(word, 0)
Sget(c)      == [do |-> "sget", on |-> c, arg |-> OnOff("none")]
Sset(c, a)   == [do |-> "sset", on |-> c, arg |-> a]
\* rtp-controller.sh: only when the level it has read is low.
Raise(c, a)  == [do |-> "raise", on |-> c, arg |-> a]
Each(names, Call(_, _), a) == [k \in DOMAIN names |-> Call(names[k], a)]

\* Every run of rtp-controller.sh reads the levels first; only set_volume uses them.
read_levels  == [k \in DOMAIN Outs |-> Sget(Outs[k])]
\* Variant with a bug: the outputs are not switched on.
set_volume_off == Each(Outs, Raise, Arg("raw", VOLUME))

set_volume   == Each(Outs, Sset, OnOff("on")) \o Each(Outs, Raise, Arg("raw", VOLUME))
set_mic      == Each(Mics, Sset, OnOff("on"))
                \o Each(Boosts, Sset, OnOff("off")) \o Each(Boosts, Sset, Arg("%", 0))
                \o Each(Mics, Sset, Arg("raw", VOLUME_MIC))
                \o Each(Caps, Sset, OnOff("cap")) \o Each(Caps, Sset, Arg("%", CAPTURE))
set_mute_mic == Each(Mics, Sset, OnOff("off")) \o Each(Caps, Sset, OnOff("nocap"))

\* Chat is as send, and stoprtp-recv sets nothing.
RtpSessions == {"startrtp-recv", "startrtp-send", "stoprtp-send"}
RtpScript(s) == CASE s = "startrtp-recv" -> read_levels \o set_volume \o set_mute_mic
                  [] s = "startrtp-send" -> read_levels \o set_volume \o set_mic
                  [] s = "stoprtp-send"  -> set_mute_mic

\* soundctl.sh: one call with what the console asks for.
SoundArgs == {Arg(w, n) : w \in Numbers, n \in 0..100} \union {OnOff("on"), OnOff("off")}
ASSUME RequestAssumption == Requests \subseteq Controls \X SoundArgs
SoundScripts == {<<Sget(c)>> : c \in Asked} \union {<<Sset(r[1], r[2])>> : r \in Requests}
------------------------------------------------------------------------------
Goals == {"any", "loud", "live", "mute"}
Outputs == {c \in Controls : In(c, Outs)}
Inputs  == {c \in Controls : In(c, Mics) \/ In(c, Caps)}
Goal(s, c) == IF c \in Outputs /\ s \in {"startrtp-recv", "startrtp-send"} THEN "loud"
              ELSE IF c \in Inputs /\ s = "startrtp-send" THEN "live"
              ELSE IF c \in Inputs /\ s \in {"startrtp-recv", "stoprtp-send"} THEN "mute"
              ELSE "any"

\* tmixer.c: the environment may name the driver; else ALSA is looked for first.
Detect(force, asound, oss) == IF force # "none" THEN force
                              ELSE IF asound THEN "alsa" ELSE IF oss THEN "oss" ELSE "none"

NoSnap == << >>
Silent(c) == [k \in DOMAIN Channels[c] |-> [level |-> 0, on |-> FALSE]]

Init ==
    /\ driver \in Drivers \intersect {Detect(f, a, o) : f \in {"none", "alsa", "oss"}, a \in BOOLEAN, o \in BOOLEAN}
    /\ mix     = [c \in Controls |-> Silent(c)]
    /\ session = [p \in Slots |-> "none"]
    /\ todo    = [p \in Slots |-> << >>]
    /\ known   = [p \in Slots |-> [c \in Outputs |-> VOLUME]]
    /\ snap    = [p \in Slots |-> NoSnap]
    /\ next    = [p \in Slots |-> 0]
    /\ shown   = [p \in Slots |-> Unknow]
    /\ spoiled = [p \in Slots |-> {}]
    /\ kept    = [c \in Controls |-> "any"]

Begin(p, s, calls) ==
    /\ session[p] = "none"
    /\ session' = [session EXCEPT ![p] = s]
    /\ todo'    = [todo EXCEPT ![p] = calls]
    /\ UNCHANGED <<driver, mix, known, snap, next, shown, spoiled, kept>>

Soundctl(p)      == \E calls \in SoundScripts : Begin(p, "soundctl", calls)
RtpController(p) == \E s \in RtpSessions : Begin(p, s, RtpScript(s))

Running(p) == session[p] # "none"
Cmd(p)     == Head(todo[p])
HasDriver(c) == driver = "alsa" \/ (driver = "oss" /\ c \in OssNames)
\* rtp-controller.sh does not look at what tmixer prints.
CallDone(p, answer) == /\ todo'  = [todo EXCEPT ![p] = Tail(@)]
                       /\ shown' = [shown EXCEPT ![p] = IF session[p] = "soundctl" THEN answer ELSE @]
                       /\ snap'  = [snap EXCEPT ![p] = NoSnap]
                       /\ next'  = [next EXCEPT ![p] = 0]

\* tmixer fails without a card, or when it does not know the control: "unknow".
NoControl(p) == /\ Running(p) /\ todo[p] # << >> /\ next[p] = 0
                /\ ~HasDriver(Cmd(p).on)
                /\ CallDone(p, Unknow)
                /\ known' = IF Cmd(p).on \in Outputs THEN [known EXCEPT ![p][Cmd(p).on] = VOLUME] ELSE known
                /\ UNCHANGED <<driver, mix, session, spoiled, kept>>

\* The call that is next in the session of p, when the driver has its control.
Calls(p, do) == /\ Running(p) /\ todo[p] # << >> /\ next[p] = 0
                /\ Cmd(p).do = do /\ HasDriver(Cmd(p).on)

\* soundctl.sh prints "unknow" for a field that is empty.
ReadLevel(p) ==
    LET c == Cmd(p).on
    IN  /\ Calls(p, "sget")
        /\ CallDone(p, IF Prints(c) THEN Shown(c, mix[c]) ELSE Unknow)
        /\ known' = IF c \in Outputs THEN [known EXCEPT ![p][c] = Shown(c, mix[c]).level] ELSE known
        /\ UNCHANGED <<driver, mix, session, spoiled, kept>>

LoudEnough(p) == /\ Calls(p, "raise") /\ known[p][Cmd(p).on] >= VOLUME
                 /\ CallDone(p, shown[p])
                 /\ UNCHANGED <<driver, mix, session, known, spoiled, kept>>

Sets(p) == Calls(p, "sset") \/ (Calls(p, "raise") /\ known[p][Cmd(p).on] < VOLUME)

\* What a session writes to c is for its goal, unless its copy and what it knows are spoiled.
Aim(p, c) == IF c \in spoiled[p] THEN "any" ELSE Goal(session[p], c)

\* What two sessions that want the same of c take from each other: one that makes an output
\* loud goes by the level it has read, and one that switches several channels on, one after
\* the other, writes the others back as they were.
Fragile(c) == c \in Outputs \/ Len(Channels[c]) > 1

\* p has written control c.  A session that needs it left alone is spoiled: one in the
\* midst of a call on it, and one that wants something else of it, or what is fragile.
Wrote(p, c) ==
    IF mix'[c] = mix[c] THEN UNCHANGED <<spoiled, kept>>
    ELSE LET needs(q) == IF Goal(session[q], c) = "any" THEN next[q] # 0 /\ Cmd(q).on = c
                         ELSE Goal(session[q], c) # Aim(p, c)
                                 \/ (Goal(session[q], c) \in {"loud", "live"} /\ Fragile(c))
         IN  /\ spoiled' = [q \in Slots |-> IF q # p /\ needs(q) THEN spoiled[q] \union {c} ELSE spoiled[q]]
             /\ kept'    = IF Aim(p, c) = kept[c] THEN kept ELSE [kept EXCEPT ![c] = "any"]

\* ALSA: the control is read, then its channels are written one by one; what is printed is
\* the copy.
Load(p) == /\ driver = "alsa" /\ Sets(p)
           /\ snap' = [snap EXCEPT ![p] = mix[Cmd(p).on]]
           /\ next' = [next EXCEPT ![p] = 1]
           /\ UNCHANGED <<driver, mix, session, todo, known, shown, spoiled, kept>>

WriteChannel(p) ==
    LET c   == Cmd(p).on
        k   == next[p]
        new == [snap[p] EXCEPT ![k] = NewChannel(c, k, @, Cmd(p).arg)]
    IN  /\ driver = "alsa" /\ k # 0
        /\ CacheWrite(c, snap[p], new)
        /\ Wrote(p, c)
        /\ IF k = Len(new)
           THEN CallDone(p, IF Valid(c, Cmd(p).arg) THEN Shown(c, new) ELSE Unknow)
           ELSE /\ snap' = [snap EXCEPT ![p] = new]
                /\ next' = [next EXCEPT ![p] = k + 1]
                /\ UNCHANGED <<todo, shown>>
        /\ UNCHANGED <<driver, session, known>>

\* OSS has no switches: "off" is level 0, "on" is a level of its own.  The other channel
\* is in the second byte, which tmixer-oss leaves 0.
OssLevel(a) == Clamp(CASE a.word = "off" -> 0
                       [] a.word = "on"  -> OSSUNMUTELEVEL
                       [] a.word \in Numbers -> a.n
                       [] OTHER -> 0, OSSMAXLEVEL)

OssWrite(p) ==
    LET c == Cmd(p).on
        Value(k) == IF k = 1 THEN OssLevel(Cmd(p).arg) ELSE 0
    IN  /\ driver = "oss" /\ Sets(p)
        /\ mix' = [mix EXCEPT ![c] = [k \in DOMAIN @ |-> [level |-> Value(k), on |-> Value(k) > 0]]]
        /\ Wrote(p, c)
        /\ next' = [next EXCEPT ![p] = 2]
        /\ UNCHANGED <<driver, session, todo, known, snap, shown>>

\* What is printed is read again.
OssShow(p) == /\ driver = "oss" /\ next[p] = 2
              /\ CallDone(p, Shown(Cmd(p).on, mix[Cmd(p).on]))
              /\ UNCHANGED <<driver, mix, session, known, spoiled, kept>>

\* The session has ended: the goals it has reached are kept, unless it was spoiled, or
\* another is in the midst of writing the control.
End(p) ==
    LET reached(c) == /\ Aim(p, c) # "any" /\ HasDriver(c)
                      /\ \A q \in Slots : next[q] # 0 /\ Cmd(q).on = c => Aim(q, c) = Aim(p, c)
    IN  /\ Running(p) /\ todo[p] = << >>
        /\ session' = [session EXCEPT ![p] = "none"]
        /\ shown'   = [shown EXCEPT ![p] = Unknow]
        /\ known'   = [known EXCEPT ![p] = [c \in Outputs |-> VOLUME]]
        /\ spoiled' = [spoiled EXCEPT ![p] = {}]
        /\ kept'    = [c \in Controls |-> IF reached(c) THEN Aim(p, c) ELSE kept[c]]
        /\ UNCHANGED <<driver, mix, todo, snap, next>>

Run(p) == \/ NoControl(p) \/ ReadLevel(p) \/ LoudEnough(p)
          \/ Load(p) \/ WriteChannel(p) \/ OssWrite(p) \/ OssShow(p) \/ End(p)

Next == \E p \in Slots : Soundctl(p) \/ RtpController(p) \/ Run(p)

Spec == Init /\ [][Next]_vars
------------------------------------------------------------------------------
\* Levels stay in the range of the card, whatever is asked for and however it is added up.
TypeOK == /\ driver \in Drivers
          /\ \A c \in Controls : /\ DOMAIN mix[c] = DOMAIN Channels[c]
                                 /\ \A k \in DOMAIN mix[c] : mix[c][k] \in [level : 0..Top, on : BOOLEAN]
          /\ \A p \in Slots : /\ session[p] \in RtpSessions \union {"none", "soundctl"}
                              /\ known[p] \in [Outputs -> 0..100]
                              /\ snap[p] = NoSnap \/ DOMAIN snap[p] = DOMAIN Channels[Cmd(p).on]
                              /\ shown[p].level \in (0..100) \union {NoLevel}
          /\ kept \in [Controls -> Goals]

\* Whether rtp-controller.sh switches channel k of c: "on" and "off" are about channels that
\* play, "cap" and "nocap", for the controls of Caps, about those that record.
Ruled(c, k) == c \in Switched /\ (Channels[c][k] = "capture" => In(c, Caps))

\* The card does what the goal says: the outputs are on and loud, the microphones and
\* the recording on and at their levels, or off.  (The level is that of the first channel,
\* the one that is read: rtp-controller.sh leaves another that is lower alone.)
Target(c, goal) == IF goal = "loud" THEN VOLUME ELSE IF In(c, Mics) THEN VOLUME_MIC ELSE CAPTURE
Low(c, e, goal) == Percent(e[1].level, Top) < Target(c, goal)

Meets(c, goal) ==
    LET e == mix[c]
    IN  IF goal = "mute" THEN \A k \in DOMAIN e : Ruled(c, k) => ~e[k].on
        ELSE /\ ~Low(c, e, goal)
             /\ \A k \in DOMAIN e : Ruled(c, k) => e[k].on \/ (driver = "oss" /\ k > 1)

\* What a session of rtp-controller.sh is for is reached when it has ended, and stays so
\* until a session that wants something else writes the control.  A mute, and a recording
\* that is switched on, is reached even when sessions that want the same overlap and write copies that
\* are old (tmixer-alsa.c:1463): the last of them puts it right.  Two that make an output loud
\* at the same time may leave it low: each raises it only when the level it has read was low
\* (rtp-controller.sh:73).  Two that switch a stereo microphone on may leave a channel off.
GoalsKept == \A c \in Controls :
    kept[c] # "any" /\ (\A p \in Slots : Goal(session[p], c) # kept[c]) => Meets(c, kept[c])

\* The call that ends in this step.
Ends(p) == next[p] # 0 /\ next'[p] = 0

\* The answer to --setlevel is what was asked for, at most one level of the card above it
\* (tmixer-alsa.c:212, FIXME at :372); in OSS, which reads again, unless another session
\* has written the control.  A control that records in one channel is set and answered
\* without a level (tmixer-alsa.c:808), and no other one is.
ShownAsAsked == [][\A p \in Slots :
    session[p] = "soundctl" /\ Ends(p) /\ Cmd(p).arg.word = "%" =>
        LET n == Cmd(p).arg.n
        IN  IF ~Prints(Cmd(p).on) THEN shown'[p].level = NoLevel
            ELSE IF driver = "alsa" THEN shown'[p].level \in n..(n + CeilDiv(100, AlsaMax))
            ELSE shown'[p].level = n \/ Cmd(p).on \in spoiled[p]]_vars
==============================================================================
