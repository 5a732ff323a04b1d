---------------------------- MODULE DeviceMounts ----------------------------
(***************************************************************************)
(* Disks and sticks as the terminal mounts them.  The console mounts a     *)
(* device by its name (devicesctl.sh --mount, xmlrpc/devices.c); the login *)
(* with a stick mounts it by its UUID (tcos-pam-usb.sh) and reads and      *)
(* writes a pad, a one-time secret, on it (xmlrpc/pam-usb.c).  Both look   *)
(* at the mount table, and act on it later.                                *)
(***************************************************************************)
EXTENDS Integers, SequencesExt

CONSTANTS
    Slots,       \* calls that may be served at the same time
    Disks,       \* file systems, by UUID
    Names,       \* block device names
    BeginsWith,  \* the names each name is the beginning of, itself among them
    Home,        \* the name of each disk at first, or "out"
    Ntfs,        \* the disks with an NTFS file system
    Sticks,      \* the disks that are plugged and pulled, and hold a pad
    Calls,       \* the calls made: [op, dev]
    MaxWait,     \* seconds --mount waits for an NTFS file system: 5
    MaxCalls,    \* bound on the number of calls of a behaviour
    MaxPlugs     \* bound on the number of times a stick is plugged again

NameOps == {"--mount", "--umount", "--getstatus", "--eject"}
PadOps  == {"getpad", "newpad", "newpad bad", "savepad"}
DiskOps == {"mountusb", "umountusb", "checkuuid"} \union PadOps

ASSUME DiskAssumption == /\ Ntfs \subseteq Disks /\ Sticks \subseteq Disks
                         /\ Disks \intersect Names = {} /\ "out" \notin Names
                         /\ Home \in [Disks -> Names \union {"out"}]
                         /\ \A d, e \in Disks : Home[d] = Home[e] /\ Home[d] # "out" => d = e
                         /\ BeginsWith \in [Names -> SUBSET Names]
                         /\ \A n \in Names : n \in BeginsWith[n]
ASSUME CallAssumption == Calls \subseteq [op : NameOps, dev : Names] \union [op : DiskOps, dev : Sticks]
ASSUME BoundAssumption == MaxWait \in Nat \ {0} /\ MaxCalls \in Nat /\ MaxPlugs \in Nat

Pads  == {"none", "old", "new", "empty", "other"}
Points == Names \union Disks            \* where a device is mounted by its name, or by its UUID
Entry  == [disk : Disks, name : Names]  \* a line of /proc/mounts
NoEntry == [disk |-> "none"]

VARIABLES
    where,      \* the name of each disk, or "out"
    mounts,     \* the mount table: what is mounted on each point, the last mount on top
    pad,        \* the pad of each disk, as a program sees it
    saved,      \* the pads that may be on the medium, as it is written late
    spawned,    \* the names for which a mount.ntfs-3g runs in the background
    call,       \* the call each slot serves
    at,         \* how far it has come
    count,      \* the seconds it has waited
    held,       \* the mount a file of it is open on
    seen,       \* the pad when it measured the file
    answer,     \* what it will answer
    issued,     \* calls made so far
    plugs,      \* sticks plugged again so far
    disturbed,  \* history: someone else changed the table, a pad or a disk during the call:
                \* another call, a stick, or a mount in the background the call does not wait for
    misled,     \* history: calls whose own umount failed, or own mount in the background was late
    pinned,     \* history: disks an umount of which failed, or that were mounted after one
    spoilt      \* history: disks whose pad was lost as a stick was pulled or had a bad text

diskVars == <<where, mounts, pad, saved, spawned>>
callVars == <<call, at, count, held, seen, answer>>
bounds   == <<issued, plugs>>
history  == <<disturbed, misled, pinned, spoilt>>
vars     == <<diskVars, callVars, bounds, history>>

NoCall == [op |-> "none"]
Init == /\ where = Home /\ mounts = [q \in Points |-> << >>]
        /\ pad = [d \in Disks |-> IF d \in Sticks THEN "old" ELSE "none"]
        /\ saved = [d \in Disks |-> {pad[d]}]
        /\ spawned = {}
        /\ call = [p \in Slots |-> NoCall] /\ at = [p \in Slots |-> "idle"]
        /\ count = [p \in Slots |-> 0] /\ held = [p \in Slots |-> NoEntry]
        /\ seen = [p \in Slots |-> "none"] /\ answer = [p \in Slots |-> "none"]
        /\ issued = 0 /\ plugs = 0
        /\ disturbed = [p \in Slots |-> FALSE] /\ misled = {} /\ pinned = {} /\ spoilt = {}
------------------------------------------------------------------------------
(* The mount table (the kernel's, and mount and umount as the scripts use them). *)

Live(e)    == where[e.disk] = e.name
IsOn(point) == mounts[point] # << >>
Top(point)  == Last(mounts[point])
IsLiveOn(point) == IsOn(point) /\ Live(Top(point))
LiveIn(table, d) == \E q \in Points : \E e \in ToSet(table[q]) : e.disk = d /\ Live(e)

\* Files are only open on mounts by UUID.
Holders(point) == {p \in Slots : at[p] \in {"read", "write"} /\ call[p].dev = point}
Busy(point)    == \E p \in Holders(point) : held[p] = Top(point)

\* A file system is not mounted twice on one point; ntfs-3g takes its device for itself.
CanMount(d, point) ==
    /\ where[d] # "out"
    /\ ~(IsLiveOn(point) /\ Top(point).disk = d)
    /\ d \in Ntfs => ~LiveIn(mounts, d)
Mounted(d, point) == mounts' = [mounts EXCEPT ![point] = Append(@, [disk |-> d, name |-> where[d]])]

Others(p) == [q \in Slots |-> disturbed[q] \/ (q # p /\ at[q] # "idle")]

\* What is written reaches the medium when the last mount of the disk goes.
Unmount(point) ==
    /\ mounts' = [mounts EXCEPT ![point] = Front(@)]
    /\ saved' = [d \in Disks |->
                    IF LiveIn(mounts, d) /\ ~LiveIn(mounts', d) THEN {pad[d]} ELSE saved[d]]

CanUmount(point) == IsOn(point) /\ ~Busy(point)
Tried(p, point)  == IF CanUmount(point)
                    THEN /\ Unmount(point)
                         /\ disturbed' = Others(p)
                         /\ UNCHANGED <<misled, pinned>>
                    ELSE /\ UNCHANGED <<mounts, saved, disturbed>>
                         /\ misled' = IF IsOn(point) THEN misled \union {p} ELSE misled
                         /\ pinned' = pinned \union {e.disk : e \in ToSet(mounts[point])}
------------------------------------------------------------------------------
Begin(p, c) == /\ at[p] = "idle" /\ issued < MaxCalls
               /\ issued' = issued + 1
               /\ call' = [call EXCEPT ![p] = c]
               /\ at' = [at EXCEPT ![p] = "begun"]
               /\ UNCHANGED <<diskVars, count, held, seen, answer, plugs, history>>

Begun(p, ops) == at[p] = "begun" /\ call[p].op \in ops
Dev(p)        == call[p].dev
Goto(p, to)   == at' = [at EXCEPT ![p] = to] /\ UNCHANGED answer
Says(p, v)    == at' = [at EXCEPT ![p] = "answer"] /\ answer' = [answer EXCEPT ![p] = v]

\* "grep -q /mnt/$mnt" finds every mount point whose name begins with the name, and
\* "grep -c ^$2" every device.  A mount by UUID has the name under /dev/disk/by-uuid.
LooksMounted(n) == \E m \in BeginsWith[n] : IsOn(m)

Look(p) == /\ Begun(p, {"--mount"})
           /\ IF LooksMounted(Dev(p)) THEN Says(p, "path")
              ELSE Goto(p, IF \E d \in Ntfs : where[d] = Dev(p) THEN "ntfs" ELSE "mount")
           /\ UNCHANGED <<diskVars, call, count, held, seen, bounds, history>>

TryMount(p, n, point) ==
    \/ /\ \E d \in Disks : where[d] = n /\ CanMount(d, point) /\ Mounted(d, point)
       /\ disturbed' = Others(p)
    \/ UNCHANGED <<mounts, disturbed>>

\* Other file systems, a CD among them: the status of mount decides.
Mount(p) == /\ at[p] = "mount"
            /\ TryMount(p, Dev(p), Dev(p))
            /\ Says(p, IF mounts' # mounts THEN "path" ELSE "error")
            /\ UNCHANGED <<where, pad, saved, spawned, call, count, held, seen, bounds, misled, pinned, spoilt>>

\* NTFS: mount.ntfs-3g is run, its status ignored, and run again in the background.
MountNtfs(p) == /\ at[p] = "ntfs"
                /\ TryMount(p, Dev(p), Dev(p))
                /\ Goto(p, "wait")
                /\ spawned' = spawned \union {Dev(p)}
                /\ UNCHANGED <<where, pad, saved, call, count, held, seen, bounds, misled, pinned, spoilt>>

\* The second one mounts the device, or fails, at any time: in the five seconds, when the
\* call has looked for the last time, or much later.
Waiting(n) == {q \in Slots : at[q] = "wait" /\ Dev(q) = n}
Background(n) ==
    /\ n \in spawned
    /\ spawned' = spawned \ {n}
    /\ \/ /\ \E d \in Ntfs : where[d] = n /\ CanMount(d, n) /\ Mounted(d, n)
          /\ disturbed' = [q \in Slots |-> disturbed[q] \/ (at[q] # "idle" /\ q \notin Waiting(n))]
          /\ misled' = misled \union {q \in Waiting(n) : count[q] = MaxWait}
       \/ UNCHANGED <<mounts, disturbed, misled>>
    /\ UNCHANGED <<where, pad, saved, callVars, bounds, pinned, spoilt>>

\* Variant with a bug: the seconds waited do not count.
WaitAny(p) == /\ at[p] = "wait"
              /\ IF LooksMounted(Dev(p)) \/ count[p] = MaxWait THEN Says(p, "path") /\ UNCHANGED count
                 ELSE /\ count' = [count EXCEPT ![p] = @ + 1]
                      /\ UNCHANGED <<at, answer>>
              /\ UNCHANGED <<diskVars, call, held, seen, bounds, history>>

\* Variant with a bug: "-le" in the place of "-lt".
WaitLonger(p) == /\ at[p] = "wait"
                 /\ IF LooksMounted(Dev(p)) \/ count[p] > MaxWait
                    THEN Says(p, IF LooksMounted(Dev(p)) THEN "path" ELSE "error") /\ UNCHANGED count
                    ELSE /\ count' = [count EXCEPT ![p] = @ + 1]
                         /\ UNCHANGED <<at, answer>>
                 /\ UNCHANGED <<diskVars, call, held, seen, bounds, history>>

\* After MaxWait seconds the answer is an error even if the device has appeared in the last.
Wait(p) == /\ at[p] = "wait"
           /\ IF LooksMounted(Dev(p)) \/ count[p] = MaxWait
              THEN Says(p, IF count[p] < MaxWait THEN "path" ELSE "error") /\ UNCHANGED count
              ELSE /\ count' = [count EXCEPT ![p] = @ + 1]
                   /\ UNCHANGED <<at, answer>>
           /\ UNCHANGED <<diskVars, call, held, seen, bounds, history>>

Umount(p) == /\ Begun(p, {"--umount"})
             /\ Tried(p, Dev(p))
             /\ Says(p, IF CanUmount(Dev(p)) THEN "path" ELSE "error")
             /\ UNCHANGED <<where, pad, spawned, call, count, held, seen, bounds, spoilt>>

Status(n) == IF IsOn(n) THEN "1" ELSE "0"
GetStatus(p) == /\ Begun(p, {"--getstatus"})
                /\ Says(p, Status(Dev(p)))
                /\ UNCHANGED <<diskVars, call, count, held, seen, bounds, history>>

\* The stick is gone, with what was not written.
Gone(d, medium) == /\ where' = [where EXCEPT ![d] = "out"]
                   /\ \E v \in medium[d] : /\ pad' = [pad EXCEPT ![d] = v]
                                           /\ saved' = [medium EXCEPT ![d] = {v}]
                                           /\ spoilt' = IF v = "empty" THEN spoilt \union {d} ELSE spoilt

\* --eject: the eject program unmounts what is mounted under the name of the device, and
\* not what is mounted by UUID; the answer is "ok" whatever it did.
Flushed(d) == IF \E e \in ToSet(mounts[d]) : Live(e) THEN saved[d] ELSE {pad[d]}
Eject(p) ==
    /\ Begun(p, {"--eject"})
    /\ Says(p, "ok")
    /\ \/ /\ \E d \in Sticks : /\ where[d] = Dev(p)
                               /\ Gone(d, [saved EXCEPT ![d] = Flushed(d)])
          /\ mounts' = [mounts EXCEPT ![Dev(p)] = << >>]
          /\ disturbed' = Others(p)
       \/ UNCHANGED <<where, mounts, pad, saved, disturbed, spoilt>>
    /\ UNCHANGED <<spawned, call, count, held, seen, bounds, misled, pinned>>
------------------------------------------------------------------------------
(* tcos-pam-usb.sh *)

\* Variant with a bug: a stick that is mounted is left mounted.
ClearNot(p) == /\ Begun(p, {"mountusb"})
               /\ IF where[Dev(p)] = "out" THEN Says(p, "error") ELSE Goto(p, "mount uuid")
               /\ UNCHANGED <<diskVars, call, count, held, seen, bounds, history>>

\* mountusb: look for the stick, unmount it if it is mounted.
Clear(p) == /\ Begun(p, {"mountusb"})
            /\ IF where[Dev(p)] = "out"
               THEN Says(p, "error") /\ UNCHANGED <<mounts, saved, disturbed, misled, pinned>>
               ELSE Goto(p, "mount uuid") /\ Tried(p, Dev(p))
            /\ UNCHANGED <<where, pad, spawned, call, count, held, seen, bounds, spoilt>>

MountUuid(p) == /\ at[p] = "mount uuid"
                /\ TryMount(p, where[Dev(p)], Dev(p))
                /\ Says(p, IF mounts' # mounts THEN "ok" ELSE "error")
                /\ pinned' = IF mounts' # mounts /\ disturbed[p] THEN pinned \union {Dev(p)} ELSE pinned
                /\ UNCHANGED <<where, pad, saved, spawned, call, count, held, seen, bounds, misled, spoilt>>

\* Variant with a bug: the stick is unmounted by its device name.
UmountName(p) == /\ Begun(p, {"umountusb"})
                 /\ where[Dev(p)] # "out"
                 /\ Tried(p, where[Dev(p)])
                 /\ Says(p, "ok")
                 /\ UNCHANGED <<where, pad, spawned, call, count, held, seen, bounds, spoilt>>

\* umountusb: the answer is "ok" whatever umount did.
UmountUuid(p) == /\ Begun(p, {"umountusb"})
                 /\ Tried(p, Dev(p))
                 /\ Says(p, "ok")
                 /\ UNCHANGED <<where, pad, spawned, call, count, held, seen, bounds, spoilt>>

CheckUuid(p) == /\ Begun(p, {"checkuuid"})
                /\ Says(p, IF where[Dev(p)] = "out" THEN "off" ELSE "on")
                /\ UNCHANGED <<diskVars, call, count, held, seen, bounds, history>>
------------------------------------------------------------------------------
(* pam-usb.c *)

Writers(d) == {p \in Slots : at[p] = "write" /\ Dev(p) = d}
Reading(p) == IF pad[Dev(p)] \in {"none", "empty"} THEN "" ELSE pad[Dev(p)]

\* getpad: readfile measures the file, and then reads as many bytes.
OpenPad(p) == /\ Begun(p, {"getpad"})
              /\ IF IsLiveOn(Dev(p)) /\ pad[Dev(p)] # "none"
                 THEN /\ Goto(p, "read")
                      /\ held' = [held EXCEPT ![p] = Top(Dev(p))]
                      /\ seen' = [seen EXCEPT ![p] = Reading(p)]
                 ELSE Says(p, "") /\ UNCHANGED <<held, seen>>
              /\ disturbed' = [disturbed EXCEPT ![p] = @ \/ Writers(Dev(p)) # {}]
              /\ UNCHANGED <<diskVars, call, count, bounds, misled, pinned, spoilt>>

\* A file that became shorter, or a stick that is gone, leaves malloc's bytes in the buffer.
ReadPad(p) == /\ at[p] = "read"
              /\ Says(p, IF Live(held[p]) /\ Reading(p) = seen[p] THEN seen[p] ELSE "not a pad")
              /\ held' = [held EXCEPT ![p] = NoEntry]
              /\ UNCHANGED <<diskVars, call, count, seen, bounds, history>>

Writes(p, v) == LET d == Dev(p) IN
                /\ pad'   = [pad EXCEPT ![d] = v]
                /\ saved' = [saved EXCEPT ![d] = @ \union {v}]

\* newpad: fopen "w+" empties the pad there is.
Truncate(p) == /\ Begun(p, PadOps \ {"getpad"})
               /\ IF IsLiveOn(Dev(p))
                  THEN /\ Goto(p, "write")
                       /\ Writes(p, "empty")
                       /\ held' = [held EXCEPT ![p] = Top(Dev(p))]
                       /\ disturbed' = [Others(p) EXCEPT ![p] = @ \/ Writers(Dev(p)) # {}]
                  ELSE Says(p, "error") /\ UNCHANGED <<pad, saved, held, disturbed>>
               /\ UNCHANGED <<where, mounts, spawned, call, count, seen, bounds, misled, pinned, spoilt>>

\* Variant with a bug: a pad that is as long as the old one is not written.
WrittenNothing(op) == "empty"

\* A text that does not decode leaves nothing to write; savepad encodes a number of bytes
\* it has not set.
Written(op) == CASE op = "newpad" -> "new" [] op = "newpad bad" -> "empty" [] op = "savepad" -> "other"

\* fwrite: what could be written is not looked at.
Write(p) == /\ at[p] = "write"
            /\ Says(p, "ok")
            /\ IF Live(held[p])
               THEN /\ Writes(p, Written(call[p].op))
                    /\ spoilt' = IF call[p].op = "newpad bad" THEN spoilt \union {Dev(p)} ELSE spoilt \ {Dev(p)}
               ELSE UNCHANGED <<pad, saved, spoilt>>
            /\ held' = [held EXCEPT ![p] = NoEntry]
            /\ disturbed' = Others(p)
            /\ UNCHANGED <<where, mounts, spawned, call, count, seen, bounds, misled, pinned>>

\* A bad text, and the bytes savepad does not have, may end the server, and with it every
\* call that is not in a script.
Crash(p) ==
    LET dying == {q \in Slots : at[q] \in {"read", "write", "answer"} \/ Begun(q, PadOps)}
        After(f, v) == [q \in Slots |-> IF q \in dying THEN v ELSE f[q]]
    IN  /\ at[p] = "write" /\ call[p].op # "newpad"
        /\ at'        = After(at, "idle")
        /\ call'      = After(call, NoCall)
        /\ count'     = After(count, 0)
        /\ held'      = After(held, NoEntry)
        /\ seen'      = After(seen, "none")
        /\ answer'    = After(answer, "none")
        /\ disturbed' = After(Others(p), FALSE)
        /\ misled'    = misled \ dying
        /\ spoilt'    = spoilt \union {Dev(q) : q \in {r \in Slots : at[r] = "write"}}
        /\ UNCHANGED <<diskVars, bounds, pinned>>

Answer(p) == /\ at[p] = "answer"
             /\ at' = [at EXCEPT ![p] = "idle"]
             /\ call' = [call EXCEPT ![p] = NoCall]
             /\ answer' = [answer EXCEPT ![p] = "none"]
             /\ count' = [count EXCEPT ![p] = 0]
             /\ seen' = [seen EXCEPT ![p] = "none"]
             /\ disturbed' = [disturbed EXCEPT ![p] = FALSE]
             /\ misled' = misled \ {p}
             /\ UNCHANGED <<diskVars, held, bounds, pinned, spoilt>>
------------------------------------------------------------------------------
Pull(d) == /\ where[d] # "out"
           /\ Gone(d, saved)
           /\ disturbed' = [q \in Slots |-> disturbed[q] \/ at[q] # "idle"]
           /\ UNCHANGED <<mounts, spawned, callVars, bounds, misled, pinned>>

\* A name is given again only when nothing is mounted under it any more.
Plug(d, n) == /\ where[d] = "out" /\ plugs < MaxPlugs
              /\ \A e \in Disks : where[e] # n
              /\ \A q \in Points : \A e \in ToSet(mounts[q]) : e.name # n
              /\ plugs' = plugs + 1
              /\ where' = [where EXCEPT ![d] = n]
              /\ disturbed' = [q \in Slots |-> disturbed[q] \/ at[q] # "idle"]
              /\ UNCHANGED <<mounts, pad, saved, spawned, callVars, issued, misled, pinned, spoilt>>

Devicesctl(p) == Look(p) \/ Mount(p) \/ MountNtfs(p) \/ Wait(p) \/ Umount(p) \/ GetStatus(p) \/ Eject(p)
PamUsb(p) == Clear(p) \/ MountUuid(p) \/ UmountUuid(p) \/ CheckUuid(p)
             \/ OpenPad(p) \/ ReadPad(p) \/ Truncate(p) \/ Write(p) \/ Crash(p)

Next == \/ \E p \in Slots : (\E c \in Calls : Begin(p, c)) \/ Devicesctl(p) \/ PamUsb(p) \/ Answer(p)
        \/ \E n \in Names : Background(n)
        \/ \E d \in Sticks : Pull(d) \/ \E n \in Names : Plug(d, n)

Spec == Init /\ [][Next]_vars
------------------------------------------------------------------------------
Labels  == {"idle", "begun", "mount", "ntfs", "wait", "mount uuid", "read", "write", "answer"}
Answers == {"none", "path", "error", "ok", "0", "1", "on", "off", "", "not a pad"} \union Pads

\* Types; a call holds at most the one file it reads or writes, on a mount of the table
\* (umount does not go past an open file), and a stick has something on it.
TypeOK == /\ where \in [Disks -> Names \union {"out"}]
          /\ mounts \in [Points -> Seq(Entry)] /\ spawned \subseteq Names
          /\ pad \in [Disks -> Pads] /\ saved \in [Disks -> (SUBSET Pads) \ {{}}]
          /\ call \in [Slots -> Calls \union {NoCall}] /\ at \in [Slots -> Labels]
          /\ count \in [Slots -> 0..MaxWait] /\ held \in [Slots -> Entry \union {NoEntry}]
          /\ seen \in [Slots -> Pads \union {""}] /\ answer \in [Slots -> Answers]
          /\ issued \in 0..MaxCalls /\ plugs \in 0..MaxPlugs
          /\ disturbed \in [Slots -> BOOLEAN] /\ misled \subseteq Slots /\ pinned \subseteq Disks /\ spoilt \subseteq Disks
          /\ \A p \in Slots : IF at[p] \in {"read", "write"}
                              THEN held[p] \in ToSet(mounts[Dev(p)]) ELSE held[p] = NoEntry

\* What an answer tells of the mounts, the stick and the pad.
IsTrue(c, a) ==
    CASE c.op = "--mount"     -> (a = "path") = IsOn(c.dev)
      [] c.op = "--umount"    -> ~IsOn(c.dev)
      [] c.op = "--getstatus" -> a = Status(c.dev)
      [] c.op = "--eject"     -> TRUE
      [] c.op = "mountusb"    -> (a = "ok") = IsLiveOn(c.dev)
      [] c.op = "umountusb"   -> ~IsLiveOn(c.dev)
      [] c.op = "checkuuid"   -> (a = "on") = (where[c.dev] # "out")
      [] c.op = "getpad"      -> a = IF IsLiveOn(c.dev) /\ pad[c.dev] \notin {"none", "empty"}
                                     THEN pad[c.dev] ELSE ""
      [] c.op = "newpad"      -> IF a = "ok" THEN pad[c.dev] = "new" ELSE ~IsLiveOn(c.dev)
      [] OTHER                -> a = "ok" \/ ~IsLiveOn(c.dev)

\* The answers the code gets wrong by itself: --mount takes another device for its own when
\* its name begins alike (devicesctl.sh:124, :152), gives up although the file system came in
\* the last second (:159), and both scripts of the stick go on when umount fails, because
\* a pad is open (tcos-pam-usb.sh:49, :62).
KnownFalse(p) ==
    \/ /\ call[p].op = "--mount" /\ answer[p] = "path"
       /\ \E n \in BeginsWith[Dev(p)] \ {Dev(p)} : IsOn(n)
    \/ /\ p \in misled
       /\ <<call[p].op, answer[p]>> \in {<<"--mount", "error">>, <<"mountusb", "error">>, <<"umountusb", "ok">>}

\* A call that nobody disturbs answers the truth (devicesctl.sh:159, tcos-pam-usb.sh:50):
\* what it says is mounted, unmounted, read or written is, when it says so, although what
\* it looked at was a mount table of a moment before and most statuses are ignored.  There
\* are no other false answers than those of KnownFalse.
AnswersAreTrue == [][\A p \in Slots :
    at[p] = "answer" /\ at'[p] = "idle" /\ call'[p] = NoCall /\ ~disturbed[p] =>
        IsTrue(call[p], answer[p]) \/ KnownFalse(p)]_vars

\* mountusb unmounts a stick that is mounted before it mounts it (tcos-pam-usb.sh:49), so
\* that a stick pulled and plugged again does not pile up: a mount hides another only when
\* that could not be unmounted, or someone got in between.
OnePerPoint == \A q \in Points : Len(mounts[q]) > 1 => \A e \in ToSet(mounts[q]) : e.disk \in pinned

\* After an umountusb that nobody disturbed the stick may be pulled and what was written is
\* on it, unless the console has it mounted under its name as well (devicesctl.sh:157), or
\* a pad was open on it when it was to be unmounted (tcos-pam-usb.sh:62): the two cases in
\* which its "ok" is not to be relied on.
SafeToUnplug == [][\A p \in Slots :
    LET d == Dev(p) IN
    at[p] = "answer" /\ call[p].op = "umountusb" /\ ~disturbed[p] /\ p \notin misled =>
        saved[d] = {pad[d]} \/ \E q \in Points \ {d} : \E e \in ToSet(mounts[q]) : e.disk = d /\ Live(e)]_vars

\* No pad is lost in the file system's hands (pam-usb.c:105 empties it before it writes it):
\* whatever calls overlap, a pad is empty for good only after a text that does not decode,
\* or a stick pulled, or a server ended, before it was written.
PadKept == \A d \in Sticks : pad[d] = "empty" /\ Writers(d) = {} => d \in spoilt
=============================================================================
