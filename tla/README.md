# A verification development for tcos

tcos turns a PC into a thin client: it builds network-boot images, boots them, and
runs on every terminal a small XML-RPC server through which the console of a
classroom (TcosMonitor) blocks a user's network, collects device events, mounts
devices, locks screens, streams video or takes screenshots. This directory holds TLA+
models of the parts of the terminal where concurrency, ordering and failure matter,
the TLC runs that check them, and proofs for TLAPS.

Paths are relative to the repository. Every definition that stands for code is mapped
to its lines in `PROJECT.json` (`map`), with the hazards, findings and theorems.

    tlasany M.tla                                  # parse
    tlc -workers 2 -config NetSerial.cfg MC_Net    # one of the runs below
    tlapm NetControllerProofs.tla                  # check proofs

## 1. Inventory

### How the parts interact

    console --XML-RPC--> tcosxmlrpc (web server, one C function per method)
                              | popen / system: one process or script per call
        +----------+----------+----------+-----------+----------------+
        |          |          |          |           |                |
     tnc.c     devices.c  lockscreen.c  vnc.c/vlc.c  get_screenshot.c  rtp.c, sound.c,
        |          |      lockcontroller.c  |            |             pam-usb.c, ...
        v          v          v             v            v
       tnc    devicesctl.sh daemonize.sh, *-controller.sh  screenshot.sh
        |          ^            |             |             |
     iptables   /tmp/tcos-udevd.log        lockers        one picture file
     OUTPUT chain  ^   ^   ^               -> grabs of the X server
                   |   |   +-- cdrom-mount
                   |   +------ tcos-udevd.sh <- udev
                   +---------- save-udev.sh  <- mount-listener <- /proc/mounts

The server itself keeps almost nothing between calls. What the calls share, and what
makes them hard, is outside it: the iptables chain, log and temporary files in `/tmp`,
the process table, the grabs of the X server, environment variables and static
buffers. Nothing is locked anywhere; every script and program acts as if it were
alone. So the recurring question of this project is what holds when two of them are
not, and what holds when they are.

### Components

The status of every component, and what of it is left out, is in `PROJECT.json`.

| Component (source) | State | Operations | Hard behaviour | Correct when |
|---|---|---|---|---|
| **Net controller** `tnc/tcos-net-controller.c`, `xmlrpc/tnc.c` | OUTPUT chain of iptables; line numbers read from it | status, enable-internet, disable-internet, route-add/del, ip | deletion by line numbers that were read before; no lock; failing popen; uninitialised line buffer; uid 0 for unknown names | only own rules are deleted, the others are kept, loopback is never cut |
| **Mount listener** `udev/mount_listener.c`, `save-udev.sh`, `listener-daemon.sh` | `/tmp/proc_mounts`, scan position, helpers, the event log | copy, compare, report, restart | the table changes between two reads of it; only counts are compared; the listener dies | no change reported that did not happen, none twice, none missed |
| **Device log and requests** `xmlrpc/devices.c`, `devicesctl.sh`, `tcos-udevd.sh`, `cdrom-mount` | `/tmp/tcos-udevd.log`, `/tmp/devicesctl`, the answer buffer | append an event, collect, answer, mount/umount/eject | read then empty; one temporary file for all; bounded buffer; script killed half-way | events once and in order, answers are one's own |
| **Screen locking** `lockscreen/*.c`, `xmlrpc/lockscreen.c`, `lockcontroller.c`, `exe.c`, `bin/daemonize.sh` | processes, their tries, keyboard and pointer grabs | lock, unlock, grab, give up, wait, end | programs are found by name; look then start; tries that run out; three lockers for two devices | a locker that is alone takes hold, no two share the input, a killed one is gone |
| **VNC and VLC sessions** `xmlrpc/vnc.c`, `vlc.c`, `vnc-controller.sh`, `vlc-controller.sh` | processes, password file | startserver, startclient, startscale, stop*, genpass, vlc | kill and restart without waiting; lock although nothing started | stop ends what start began |
| **XML-RPC server** `xmlrpc/tcosxmlrpc.c`, `simple-methods.c`, `exe.c`, `debug.c` | dispatch table, static variables, environment | one method per call, a thread per connection | what is one in a process is shared by all calls; a pipe that was not opened ends the server | a call gets its own answer, or the server ends |
| **Authentication** `xauth.c`, `validate*.c`, `login.c`, `tcospasswd.c` | XAUTHORITY, buffers of crypt() and getspnam(), password file | login, validate, cookie test | the environment and the buffers are shared by calls; the variable is left set | a call is judged by its own credentials |
| **Screenshots** `get_screenshot.c`, `screenshot.c`, `screenshot.sh` | the picture directory, a static result | capture, read | the directory is emptied by the next capture; the result is static | the picture returned is the one taken |
| **Device mounts** `devicesctl.sh` | the mount table, NTFS helpers | mount, umount, getstatus, eject | prefix matches, a wait that ends too early, statuses ignored | answers are true, mounts do not pile up |
| **PAM USB** `pam-usb.c`, `tcos-pam-usb.sh` | pads on the stick, mounts by UUID | check, mount, umount, read and write the pad | pad emptied before it is rewritten; stick pulled in between | no pad lost but by pulling the stick |
| **RTP audio** `rtp.c`, `rtp-controller.sh` | PulseAudio modules by number, the levels it has read | start/stop receiver, sender, chat | numbers and levels that are stale, prefix matches | the volumes are what the session is for |
| **Sound control** `sound.c`, `soundctl.sh` | the mixer, a temporary file | get, set, mute | the temporary file is shared | what is shown is what is set |
| **Mixer** `tmixer/` | the sound card | sget, sset with ALSA or OSS | a control is written as a whole, as the process has read it; percentages are rounded | a level asked for is the level set |
| **Power and X** `reboot_poweroff.c`, `down-controller`, `dpms.c`, `xorg.c`, `restartx.sh` | pending sleeps | reboot, poweroff, restartx | cannot be cancelled, may overlap | the last order given decides |
| **Information, configuration** `info.c`, `pci.c`, `config.c`, `getinfo.sh`, `configctl.sh` | configuration file | read, set | — | — |
| **Helpers** `common.c`, `hex2ascii.c` | — | split, addresses, base64 | token and buffer limits | equal to their reference definitions |
| **Standalone, D-Bus** `tcos-standalone/`, `standalone.c`, `tcos-dbus.py`, `session-cmd/` | messages | forward, ask, exec | a session that has gone | — |
| **Boot scripts** `scripts/`, `conf/tcos-run-functions.sh`, `udhcpc-script`, `get_server` | interfaces, downloads, root file system | choose interface, fetch, mount | links that come up late, retries | boot ends with a network and a root |
| **Autologin, boot chart, images, X configuration, channels, packaging** | files of one run | — | sequential | not modelled, see `PROJECT.json` |

## 2. Modules

| Module | What it is |
|---|---|
| `NetRules` | commands and rules of tnc, and its pure functions (check_user, check_port, get_uid, the awk filters), and picking rules out of a chain |
| `NetController` | tnc processes editing the chain, one iptables command a step |
| `NetPolicy` | what tnc promises: a list of rules for each uid, changed atomically |
| `NetRefinement` | NetController, one command at a time, implements NetPolicy |
| `NetControllerProofs` | proofs about NetController, and that it implements NetPolicy |
| `MountListener` | mount-listener, its helpers, the mount table, a full `/tmp`, death and restart |
| `MountListenerProofs` | proofs about MountListener |
| `DeviceLog` | the event log and the processes of devicesctl.sh |
| `DeviceLogProofs` | proofs about DeviceLog, one request at a time: that it implements EventFeed and keeps its promise |
| `EventFeed` | what the log promises to its readers; DeviceLog implements it |
| `ScreenLock` | calls that start and kill programs by name, lockers, grabs of the X server |
| `ScreenLockProofs` | proofs about ScreenLock |
| `RpcCalls` | the threads of the server, each method as its checks and commands, and what the process shares |
| `RpcCallsProofs` | proofs about RpcCalls |
| `Mixer` | tmixer with its two drivers, and the sessions of soundctl.sh and rtp-controller.sh that call it |
| `MixerProofs` | proofs about Mixer |
| `DeviceMounts` | disks and sticks mounted by name and by UUID, and the pads on the sticks |
| `DeviceMountsProofs` | proofs about DeviceMounts |
| `Screenshots` | captures that share one directory, and the file the server reads |
| `ScreenshotsProofs` | proofs about Screenshots |
| `MC_Net`, `MC_Mount`, `MC_DeviceLog`, `MC_ScreenLock`, `MC_RpcCalls`, `MC_Mixer`, `MC_DeviceMounts`, `MC_Screenshots` | instances for TLC |

How they fit: a call of `RpcCalls` runs a command, and the commands that are hard have
modules of their own (tnc, devicesctl.sh, the lockers, the mixer scripts, the pads, the captures). The
modules are not composed into one state space, as they share no variable: each
takes "several calls at a time" from the server, which is what `RpcCalls` models.
`EventFeed` is composed with `DeviceLog`, and `NetPolicy` with `NetController`, by
refinement.

A definition commented "Variant with a bug" is a plausible mistake in the definition it
precedes; `PROJECT.json` (`mutants`) says which property it breaks. No specification
uses one.

### NetController

A process of tnc is a slot of `Procs` with a program counter. `Start` is `main` up to
the first flush; `Count` (status_iptables_user), `List` (the awk listing), `Delete` (one
`iptables -D OUTPUT n`, from the last line up: `tac`), `Route`, `Block` (one DROP a port),
`Accept` and `Drop` are one popen each. `FlushReturns` and `AddReturns` are the returns of
flush_iptables_user and add_iptables_user to their callers, the error path that flushes
again included. `Refuse` and `Status` change nothing. `AppendForeign` is any other
program that adds a rule. `Forks` says whether popen may fail.

Taken from how iptables behaves: each command is atomic, deleting shifts the later
numbers, `-A` is refused for a name or a network it cannot resolve, `-D` for a number
that does not exist. Reading `line[]` or `dirred[]` when nothing was read into them is
undefined: the process carries on as if nothing was listed, or dies (`survives`).
Routes (route-add, route-del, ip) are not modelled.

### MountListener

`Count`, `Unchanged`, `Open`, `Examine`, `HelperDone` and `EndScan` are the parts of
`compare`, `SyncFiles` is `sync_files`. The table may change before each of them. A scan
reads a file as it was at fopen: the table of a terminal fits one stdio buffer. The
*other* file is opened again for each line, and read as it is at that moment. No line
occurs twice. A helper that has been started outlives the listener; a restarted listener
copies the table anew.

`/tmp` may be full. The copy is one buffer that is written at fclose, so it is then empty,
or is not made at all when the file has to be created; the line of save-udev.sh may be
lost as well. With an empty copy the next comparison reports what is mounted again
and copies anew; without the file compare returns -1 and the listener notices nothing
until it is started again.

### DeviceLog and EventFeed

One step is one command of the shell. `--getudev` reads the log, empties it, stores its
output in `/tmp/devicesctl`, counts the lines, prints each with `head | tail`, and removes
the file; `--showlocaldisks` stands for the options that store their output at once,
`--getparts` for appending line by line. devices.c takes `Capacity` lines. Lines are
compared by kind and number, never by text. When the buffer is full pclose closes the
pipe, and a script that still prints is killed by SIGPIPE or carries on; both are allowed,
as it depends on what the web server does with the signal. A missing and an empty
temporary file are not told apart, as no command of the script prints anything different
for them.

`EventFeed` is the promise: a collector gets the first pending events in order, and an
event is lost only if `missed` says so. The refinement takes `pending` to be what was
taken from the log and not yet answered, followed by the log.

### ScreenLock

A call is a short list of jobs, "start g" and "kill g" (`LockscreenJobs`, `ControllerJobs`,
`VncJobs`), served in order by a slot. `Look` and `Fork` are the two halves of
daemonize.sh: start-stop-daemon looks for a running program of that name, and forks.
Between `Fork` and `Exec` the child does not run the program yet, so neither
start-stop-daemon nor killall finds it. `Killall` signals everything that runs under the
name. A locker grabs the keyboard (`TryKeyboard`), then, except lockvnc, the pointer
(`TryPointer`), else sleeps a second (`Wake`), `MaxTries` times; then it settles and waits
to be killed, whatever it holds (`settled`). `Exit` and `Closed` are the end of a process
and the moment X drops its grabs. `OtherGrabs` is any other X client, an open menu say.

Nothing is assumed of time: another client may keep a device through any number of tries, and a
killed process may take as long to let go; `Wake` waits for neither, as sleep(1) does not. lockscreen.c is not built by the
Makefile (lockscreen2.c is); what lockers draw, the standalone variants over D-Bus,
genpass, volumes and startscale (startserver with an option) are left out.

### RpcCalls

Abyss serves each connection in a thread of the one process, so a slot is a call under
way. A method is the sequence of steps it may go through (`ScriptsOf`): "login" is
validate_login, "cookie" is handle_xauth, a command is one popen, of which three kinds differ
in what the code does when popen fails: report it (`checked`), go on (`carry on`), or
read a pipe that is not there, which ends the server and every call with it (`unchecked`).
`LookUp`, `Hash`, `Compare`, `Expiry` are validate.c and validate-*.c, with the buffers of crypt() and
getspnam() as they are: one for the process. `MakeFile` ... `UnsetEnv` are handle_xauth, with
XAUTHORITY. `Put` and `Give` are the static results of get_screenshot.c and pam-usb.c.

Assumed of what is outside: crypt() takes any salt, and leaves no hash in its buffer when
two run at once; X admits nobody by host name; a password file is well formed. A buffer is forgotten
(`Torn`) when nobody will read it before it is written.

### Mixer

A session is one run of soundctl.sh or rtp-controller.sh: a list of calls of tmixer. With
ALSA a call reads the control (`Load`) and writes it channel by channel (`WriteChannel`), the
whole control each time, as alsa-lib has it in its copy, and not at all when the copy has
the value already (`CacheWrite`). With OSS one write sets the level of the left channel, 0
in the byte of the right one (`OssWrite`), and then reads it again (`OssShow`). rtp-controller.sh
reads all levels first and raises an output only when the level it has read is low
(`LoudEnough`). `Raw` and `Percent` are the conversions with their rounding; the numbers agree
with the floating-point code for every range below 300. Of getmute both switches
are printed in one field (`Shown`). Of a control that records in one channel show_selem prints
neither level nor switch, as it asks whether the control *plays* in one channel (`Prints`). `ControlAssumption` says of the names rtp-controller.sh goes through
(lines 55-119) that none is in two lists that want different things of it, that an output and a microphone
play on their first channel, and that the controls of `Caps` only record; how many channels
a control has is left open. What amixer offers beyond sget and sset is left out.

### DeviceMounts

One step is one command of devicesctl.sh or tcos-pam-usb.sh, or one of open, read,
truncate and write of pam-usb.c. `mounts` is the kernel's table, kept as a stack for each mount point, as nothing here depends on the
order of mounts on different points: a mount may hide another, one with an open
file cannot be unmounted, one whose stick is gone stays in the table. `Look` and `Wait` match
names as grep does (`LooksMounted`), so `sda1` finds `sda10`. An NTFS file system is mounted twice, once
in the foreground with its status ignored and once in the background (`MountNtfs`,
`Background`), then waited for; a device that appears in the last second is answered with
an error. --eject and umountusb answer "ok" whatever happened, and mountusb goes on when its umount
fails; such a call is in `misled`, as is one whose own mount in the background comes in the last
second, while `disturbed` is for what somebody else did. `Truncate` and `Write` are newpad: the old pad is gone
before the new one is written. `saved` is the set of pads that may be on the medium;
writing reaches it when the last mount goes. `Crash` is the server that ends on a text
that does not decode, with all calls that are not in a script.

checkdevice and readdevices print what the machine has and change nothing; initusb sets a
property of the X display that only ltspfs reads. They are left out.

### Screenshots

A call is followed from its popen to its answer: `Begin`, `Open`, `Measure` and `Read` are
get_screenshot.c with readfile, `Crash` is a popen that fails, which ends the server (fclose of no
file). `Clear`, `GrabFails`, `Create` and `Save` are its screenshot.sh, which goes on when the server has ended.
A file is named by the call that made it, and what is in it is the set of the calls
whose scrot wrote there: a file that was removed while it was open is read to its end,
and two scrots that have opened the same one mix their pictures. Closing a pipe with fclose
waits for the script as pclose does (both end in the same function of the C library). The
login comes before and is in `RpcCalls`, as is the static result. Assumed: `/var/www` has room.
The tcos.screenshot method (screenshot.c) is not built by the Makefile.

## 3. Runs

| Run | Shows | Bounds |
|---|---|---|
| `net_serial` | commands that do not overlap implement `NetPolicy`; `LoopbackNeverCut` at every step in between; rules of other programs stay, in their order | 3 commands of 15 kinds, 1 foreign append |
| `net_overlap` | with two processes, and any popen failing, numbers are right until another process deletes | 3 commands of 5 kinds, two slots, the foreign rule that is there at the start |
| `net_overlap_others` | **violation**: a stale number deletes a foreign rule | as above |
| `mount_any` | nothing reported that did not happen or twice, but for one mount per failed write; changes that wait for the listener are each logged once and noticed | 3 lines, 5 changes, deaths and failed writes together |
| `log_serial` | requests one at a time: own lines only, and `EventFeed` is implemented | room for 2 lines, 5 events, 4 requests |
| `log_mixed` | **violation**: two requests mix their lines | two slots, 2 requests |
| `lock_any` | lockers never share the input; one that is alone takes hold unless a foreign grab met every try; tries end; a killed program is gone | 3 calls of 10 kinds, two at a time, 2 tries, any number of foreign grabs |
| `lock_freed` | **violation**: a screen locked during a VNC session is free when the session ends | 3 calls, 5 tries |
| `calls` | every method, two at a time: right verdicts unless calls interfere, no login without a right password, XAUTHORITY is put back, every call ends | 2 threads, 23 methods, 4 logins, 3 cookies; any number of calls |
| `mixer` | what a session is for is reached and kept; what is shown is what was asked for, or no level for a control that records in one channel | 2 sessions at a time, any number of them; 2 controls, 3 levels, 5 kinds of setting, 3 drivers |
| `mounts` | undisturbed answers are true but for four known ones; mounts do not pile up; an unmounted stick may be pulled; no pad is lost by the calls | 2 slots, 4 calls of 14 kinds, 1 plugging |
| `pictures` | an undisturbed call gets its own picture whole; nobody gets an old one | 3 calls, captures that fail, deaths of the server |

### Why the bounds are enough

* *Net.* A number goes stale with two processes and one deletion; a flush, a partial
  disable and a second flush need three commands. Users: two known, one unknown (whose uid
  is 0). Ports: one accepted, one refused by the blacklist. The chain starts with a
  foreign rule; in `net_serial` (`MaxForeign = 2`) another is appended at any moment, so foreign
  rules come before, between and after those of tnc.
* *Mount.* The shortest lost change needs one change at the wrong moment, the shortest swap
  two; a failed copy that reports a line again and a death before or after it are two
  more. The lines are one that is there from the start, one that is not and one of a
  `/dev/disk/` device, which is not reported. The proofs need none of these bounds.
* *Log.* `Capacity` stands for the 499 bytes of devices.c: two lines make an answer of three
  events overflow, five never overflow. Four requests let one be killed, leave its file,
  and be followed by each kind of request.
* *Lock.* Three calls let two starts race and a kill come between or after them. Two tries
  stand for five where every call is tried: a try fails, and the last one fails. Another
  client may grab at any time and keep what it has for any time. `lock_freed` uses the five of the code. `Ids` has
  room for two processes a call, so no step is ever blocked for lack of a number. The
  proofs need none of these bounds.
* *Calls.* Every way two calls can disturb one another is between two checks or two answers;
  a third call can only do what the second does. Calls are not counted: the state after
  an answer is one there was before. Two users (one expired) and a name nobody has, a right
  and a wrong password for each way of checking. The methods left out of the run (echo, logout,
  kill, unlockscreen, unlockcontroller) have the scripts of others. The proofs need
  none of these bounds.
* *Mixer.* Two sessions are two writers of one control, and a reader. One stereo output
  and one control that records are the two kinds of goals; a card with the levels 0, 1 and 2
  has percentages that are no level of it, and a rounding of at most half its range; the rounding of ten other ranges is evaluated for all
  percentages by the assumption in `MC_Mixer`. The control that records is raised and lowered until it
  is clamped, and asked to switch off a playback it does not have; percentages above 100, which are clamped as well, are not asked. The proofs need none of these bounds: they hold
  for any controls, channels, ranges and number of sessions.
* *Mounts.* Two partitions whose names begin alike, one with NTFS, and a stick that may come
  back under another name. Two calls overlap; four let what one leaves behind (a pinned
  mount, a cut pad) meet a third and a fourth. `MaxWait = 2` stands for the 5 seconds: the
  device appears before, in and after the last one. The proofs need none of these bounds.
* *Pictures.* Three calls are one that is looked at, one that comes in its way and one that was over
  before. A fourth can only do what those two do. The proofs need no bound.

`CHECK_DEADLOCK FALSE` is set where a behaviour ends because the commands, events, requests
or calls of the bound are used up and everything is served: the real system waits there
for the next one. `mount_any`, `calls` and `mixer` do check deadlock.

### Fairness

* *Mount*: weak fairness of the listener and of its helpers, which are ordinary processes.
  Nothing obliges anyone to mount or unmount, or the listener to die.
* *Calls*: weak fairness of the steps of each thread. Threads are scheduled by the kernel
  and wait for the commands they start only, all of which end. No call has to be made, and
  the server need not be started again when it has ended.
* The runs of *Net*, *Log*, *Lock*, *Mixer*, *Mounts* and *Pictures* are of safety only. That the tries of a
  locker end is stated without fairness, as a measure that every step of it decreases
  (`TriesRunOut`).

### History variables

`stale`, `began`, `foreign` (Net), `changes`, `calm` (Mount), `delivered`, `missed`, `left` (Log), `alone`,
`over` and `heldUp` (Lock), `mixed` and `near` (Calls), `spoiled` and `kept` (Mixer), `disturbed`, `misled`, `pinned` and
`spoilt` (Mounts), `before` and `disturbed` (Pictures) record what happened for the properties. No guard of an action
that stands for code reads them, with one exception of bounds: `Len(foreign)` and
`Len(changes)` bound what the environment does.

## 4. Properties that hold with conditions, and why

* `FreshLinesAreOwn`, `OnlyOwnRulesDeleted`: numbers listed are right until *another* process
  deletes. The refutation without the condition is `net_overlap_others`.
* `LoopbackNeverCut` is checked without failing popens. When a popen fails between two
  deletions the rule for loopback may go while the DROP stays.
* `AllReported`, `NoticedWhenCalm`: changes wait for the listener, and do not mix mounts with
  umounts between two copies (`Waited`). Without the first condition a change between
  compare and sync_files is copied and never reported; without the second an umount and a
  mount leave equal counts and are not noticed. `AllReported` also needs that no write fails.
* `ReportsAreReal` allows one mount more per write that found `/tmp` full; never an umount.
* `ImplementsFeed` lets an event be missed when it comes between the two commands of --getudev
  (read, then empty) or does not fit the buffer, and in no other case.
* `AnswersAreOwn` in `log_serial` excuses lines left behind by a killed script (`left`), which
  --getparts appends to.
* `KilledIsOver`: for a kill that finds no start of the program under way. Otherwise `Look`
  before and `Fork` after the kill start it again.
* `AloneTakesHold`: a locker beside no other one settles without the devices only if a grab of another
  client met each of its `MaxTries` tries (`heldUp`). So a menu kept open for five seconds does leave a screen that is not
  locked, and nothing else does; no lost try is for any other reason.
* `OwnVerdict`: no other call was between its first and last look at the shared buffers, or
  between its setenv and its XOpenDisplay, or put an answer in the same static variable
  (`mixed`). `LoginsAreSomebodys` needs no such condition: two checks that mix
  their buffers compare hashes of which one is always of a stored password, so somebody's right
  password must have been hashed meanwhile.
* `GoalsKept`: a session is excused for a control that a session with another goal wrote
  meanwhile, and for what is `Fragile` when any other wrote it: two overlapping starts may leave an output
  low, because each raises it only if the level it read was low, and each writes the control
  as it has it in its copy; and they may leave one channel of a stereo microphone off, because the
  copy of one call still has it off when that call switches the other channel. Overlapping sessions that
  want the same of a microphone with one channel, or that mute, are harmless. Only the first channel counts
  for "loud", as only its level is read.
* `ShownAsAsked`: a control that records in one channel is set and answered without a level, although the usage
  text of soundctl.sh promises one; `Prints` says for which controls that is so, and the property that for no other. In OSS
  a session that has written the control in between is excepted.
* `AnswersAreTrue`: nobody else changed the table, a pad or a disk during the call. `KnownFalse` names
  the four answers that are false though nobody did: --mount says "path" of a device that is not mounted when one is whose
  name begins with its name (devicesctl.sh:124, :152); it says "error" when its own background mount comes in the last
  second (:159); mountusb says "error" of a stick that is mounted, and umountusb "ok" of one that is, when an umount of
  theirs failed (tcos-pam-usb.sh:49, :62). Without any one of them the run finds a counterexample; there are no others.
  --eject is excepted, as its answer says nothing.
* `SafeToUnplug`: the "ok" of umountusb is to be relied on but for two cases: the stick could not be
  unmounted (`misled`), or the console has it mounted under its name as well, and umountusb then writes nothing out.
* `OnePerPoint`: a mount hides another one of the same point only after an umount that failed (a
  pad was read) or when someone came in between.
* `PadKept`: a pad is empty for good only after a text that does not decode, or a stick pulled or
  a server ended between the truncation and the write.
* `OwnPicture`: no other script removed or wrote the file between this call's own `Clear` and
  its `Read`. `NoOldPicture` needs no condition.
* `OtherRulesKept` is checked in `net_serial`, where every popen succeeds; that failing ones cannot touch
  other programs' rules either is `OnlyOwnRulesDeletedAlways`.

## 5. Findings

| Run | Code | What |
|---|---|---|
| `net_overlap_others` | `tnc/tcos-net-controller.c:291` | deletes another program's rule, against its comment (236) |
| `log_mixed` | `xmlrpc/sh/devicesctl.sh:289` | one temporary file for all requests |
| `lock_freed` | `lockscreen/lockscreen2.c:284` | lockscreen runs and blocks nothing |

## 6. Proofs

Each holds for every value of the constants that satisfies the module's assumptions.

**NetControllerProofs.** Every property of NetController, and the refinement, in three layers.
* For any number of overlapping processes, any popen failing and any chain: `TypeCorrect`,
  `FreshLinesAreOwnAlways`, `OnlyOwnRulesDeletedAlways`, and `OtherRulesKeptUnlessStale`, which says that
  another program's rule is lost only by a process whose numbers are stale. The invariant is
  `TypeOK /\ CommandOK /\ FreshLinesAreOwn`, where `CommandOK` says that a process past
  `Start` has a command. The heart is `Delete`: of two line numbers, removing the rule at the
  greater leaves the rule at the smaller in place (lemma about `RemoveAt`), `IsNext` picks
  the greatest, and a removal by another process sets `stale`. An append moves no rule.
* For commands that do not overlap (`OneAtATime`: `Procs` has one member), popen failing anywhere:
  `OtherRulesKeptAlways`, as nobody is then ever stale.
* For such commands while every popen succeeds (`Undisturbed`, the case `net_serial` runs): `LoopbackNeverCutAlways` and
  `ImplementsPolicyAlways`. Both are false otherwise: a popen that fails leaves a flush half done, which
  the policy has no step for. `LoopInv` adds to `LoopbackNeverCut` that a flush still holds every line it is
  to delete (`ListComplete`), so that the rule that drops goes before the one that lets loopback through, and
  that this one is in the chain before `Drop` (`LoopbackFirst`).
  `RefInv` says of a command under way which part of its list is done: the rules of the other uids are those it
  began with, its own are what is kept, then the rules for the ports it has got to
  (`ListOK`), and which answer its calls lead to (`CourseOK`). Each action is then a stutter of the policy, but the one
  with which the process exits.

The rules of one uid are picked out of the chain with `Only`, which is `SelectSeq` written as a recursive
function. What it does to `Append`, to `RemoveAt`, to a concatenation and to itself is proved by induction
over sequences (`SeqSet`: a set that has the empty sequence and is closed under `Append` has them all), from the
theorem of the library that < is well founded on Nat.

**MountListenerProofs.** All three invariants of `mount_any`, for any lines, table and number of
changes, deaths and failed writes.
* `TypeCorrect` and `ReportsAreRealAlways` from `Inv`: `TypeOK`, `NoLineTwice` (no file has a line
  twice), `HelpersOK` (a listener has at most the helper it waits for) and `PaidFor(e)` for every event: what
  is reported of e, plus one if the listener may still report it, is at most the changes
  of that kind plus the failed writes. `ReportsAreReal` alone is not inductive: it does not see that a
  line that the copy lacks has a change to its credit that nobody has reported yet.
* `AllReportedAlways`: `NoneLost` says that while changes wait for the listener and no write fails, what
  is reported of an event, plus one if the listener is still to report it, is exactly what happened
  (`Exact`), and that the table has only grown or only shrunk since the copy (`Aligned`).
  Sequences without repetition of which one includes the other are compared by their lengths
  (`LenRange`), which is why equal counts do mean equal tables then.

**DeviceLogProofs.** All three properties of `log_serial`, for one slot (`Procs = {p}`; with two `AnswersAreOwn` is false,
which is `log_mixed`) and any disks, room, number of events and of requests. The invariant is `TypeOK` and, of the
request under way, `OptionOK` (which option leads where), `OutputOK` (what is to be printed of the log is the log
as it was read, all of it while nothing is missed), `TmpOK` (the temporary file is what has been written of the
output, unless a killed script left lines there) and `ReplyOK` (devices.c has the first lines of the file).
* `TypeCorrect`, `AnswersAreOwnAlways` follow from it. `AnswersAreOwn` alone is not inductive: it looks at
  a request that has printed everything.
* `FeedImplemented` is the refinement: an append is `Post`, the answer to --getudev is `Collect` of the events taken, of
  which the first ones are delivered (`EventsAnswered`), emptying the log is `Lose` if an event came since it was read, and
  all else leaves the feed as it is.
* `LogKeepsPromise`: the promise of the feed holds for the log. From `FeedImplemented` and an invariant of
  the feed, `FeedInv`: its types, `InOrder` (the events delivered and pending increase, up to `posted`) and, while
  nothing is missed, `AllThere`. It speaks of the two sequences and not of their concatenation, as a step
  changes an end of one of them.

**ScreenLockProofs.** All five properties `lock_any` checks, for any number of calls, slots, tries and
foreign grabs.
* `TypeCorrect`, `PointerAfterKeyboardAlways` from `Inv`: `TypeOK`, `TriesOK` (a locker that is trying has
  tries left), `PointerAfterKeyboard` and `PointerOK` (a locker goes to the pointer with the keyboard
  in its hands). `PointerAfterKeyboard` alone is not inductive: `TryPointer` needs `PointerOK`.
* `TriesRunOutAlways`: from `Inv`, each action lowers `Distance`.
* `KilledIsOverAlways`: `OverOK` adds that no slot has a start of the program left to serve.
* `AloneTakesHoldAlways`: `HoldOK`. Only lockers grab (`GrabOK`), one that is alone has no rival
  (`AloneOK`), so a device it cannot take is another client's, the try is counted in `heldUp`, and a locker that is
  alone has lost exactly as many tries as that (`TriesPaid`).

**RpcCallsProofs.** `TypeCorrect`, `EnvCleanAlways`, `OwnVerdictAlways`, `LoginsAreSomebodysAlways`, for any
number of threads, users, requests and any methods of the table. The invariant `IInv` is
* `Inv`: `TypeOK`, `Shape` (a check comes before all that depends on it, and the call has credentials of
  its kind) and `Phase` (a thread inside a step is inside the first one left);
* `Pending`: credentials are kept until the check has ended, so that a verdict is about them;
* `Shared`: what an undisturbed call finds in the buffers, in XAUTHORITY and in the static variable is
  its own (`BuffersOwn`, `CookieOwn`, `ResultOwn`), and a hash of a stored password is in the buffer of
  crypt() only if `near` says that somebody presented it meanwhile (`HashNear`).

`OwnVerdict` speaks of the last step of a check, so it needs `Shared` for the steps before; `Shared` is
inductive because every other call that touches a buffer sets `mixed`.

**ScreenshotsProofs.** `TypeCorrect`, `OwnPictureAlways`, `NoOldPictureAlways`, for any number of calls. The
invariant is `TypeOK`, `Phase` (how far the script of a call is, seen from the call), `Fresh` (who was over
when a call began has nothing in the file that call may still read: its own `Clear` removed the
name, and a script that is over writes no more) and `Own` (what an undisturbed call is going to
read, step by step). `OwnPicture` speaks of answers only, so it needs `Own` for the steps before.

**DeviceMountsProofs.** All five properties of `mounts`, for any disks, sticks, names and
number of calls at a time. `TypeCorrect`, `OnePerPointAlways`, `PadKeptAlways` follow from `TypeOK` (an open file is on a
mount of the table), `CallOK` (what a
call that has come so far is about), `TableOK` (what is mounted on the point of a name has that name, on the
point of a UUID that disk, and a name stands for one disk at a time, in the table as well),
`PadOK` (an empty pad is known to be lost, or a call that can still write it is about to) and
`PinOK` (what a mountusb that nobody disturbed is about to hide could not be unmounted).
* `OnePerPoint` needs `PinOK` for the step of mountusb, and `TableOK` so that what is hidden is the same disk; on
  the point of a name nothing is hidden at all, since a kernel does not mount a disk twice on one point.
* `PadKept` needs `PadOK`, and that needs `TableOK`: a stick that is pulled takes only the pads of its own calls.
* `AnswersAreTrueAlways` and `SafeToUnplugAlways` need `Truth`: what an undisturbed call is going to answer is
  true already, step by step, of the mounts and the pad it has worked on (`TruthOf`); only the top of a stack
  may be a mount of a disk that is there (`StackOK`), so that what umount takes away is what the call meant; and a disk
  that is not mounted has on its medium what was written (`SavedOK`). That --mount tells "path" from "error" by
  counting seconds is why `MaxWait` is taken to be positive.

**MixerProofs.** All three properties of `mixer`, for any controls, channels, ranges of the card, levels asked for and number of
sessions at a time.
* `TypeCorrect` from `Inv`: the types, and of each session `SessionOK` (what is left of a script is made of calls of its
  kind; a call under way is at a channel of its control, with a copy that has all its channels). The levels stay in
  range because `Raw` of a percentage is at most the range (`RawType`) and what is added is clamped.
* `ShownAsAskedAlways` from `Inv` and `Asks`: once the first channel is done the copy has the level asked for, and `ShownType` says of which
  controls it is printed. The
  bound on the rounding is `PercentRaw`: a percentage made a level rounding up and back to a percentage rounding half to
  even is itself or at most one level higher, for every range.
* `GoalsKeptAlways` from `Inv` and `GoalInv`. What is kept is met, or some session with the same aim is
  at work on it (`KeptOK`); so an invariant is needed of what such sessions will still do. `ShapeOK`: what is left of a
  script reads first, switches on, then sets the level (`ScriptShape` shows that the scripts of rtp-controller.sh
  do). `LevelOK`, `MuteOK`: when a level is low, or a channel on, that a session wants otherwise, one of the sessions
  that want it will still put it right (`WillRaise`, `WillSwitchOff`); this is why old copies do no harm. `ReadOK`: a session that has
  read a level that is high enough may skip raising it, as nobody has lowered it since. `OnOK`, `MidOK`, `OffOK`: what
  has been written so far is in the copy, and in the card, that the next channel is written with.
  The proof of `OnOK` fails for controls with several channels unless `Fragile` says that two sessions that switch one on
  disturb each other; TLC confirms that they do.

Assumptions used: the `ASSUME`s of the modules only, which TLC evaluates in the runs.

**Only model-checked:** liveness (`NoticedWhenCalm`, `Answered`). Liveness under fairness and ENABLED are out of the prover's reach. The induction theorems of the
library that take an operator cannot be used either; where an induction is needed, a set takes the place of the operator.

## 7. What is not modelled, and why

* *RTP:* the modules of PulseAudio, unloaded by numbers that PulseAudio gives and does not reuse.
* *Events before the log:* the label cache of cdrom-mount and the filters of tcos-udevd.sh; `DeviceLog` takes
  any sequence of events.
* *Power:* two sleeping power-downs end the machine whatever the order.
* *tnc:* the routing table, which nothing else here reads, and a flush of more than
  255 rules (`split` keeps MAXTOKENS - 1 tokens), or one whose line numbers do not fit fgets' 1024 bytes.
* *A full stick:* fwrite of a pad is all or nothing; a write that is cut short is not modelled.
* *Boot scripts, autologin, images, X configuration, packaging:* sequential scripts that
  run before or without the server.
* *Pure functions* of common.c (split, addresses, base64): sequential, and within the reach of unit tests.
