------------------------------ MODULE RpcCalls ------------------------------
(***************************************************************************)
(* The calls tcosxmlrpc serves (xmlrpc/tcosxmlrpc.c): the Abyss server     *)
(* runs each connection in a thread of the one server process, and the     *)
(* methods share what a process has one of: the environment variable       *)
(* XAUTHORITY (xauth.c), the buffers of crypt() and getspnam()             *)
(* (validate*.c), and static variables.  A method is a sequence of steps:  *)
(* it checks a password or an X cookie and runs commands.                  *)
(***************************************************************************)
EXTENDS Integers, Sequences

CONSTANTS
    Slots,      \* threads that may serve calls at the same time
    Methods,    \* the methods consoles call, by name
    Users,      \* the users of the terminal
    Owner,      \* the user named in /etc/tcospasswd
    Names,      \* the user names requests present
    Passwords,  \* the passwords there are
    Logins,     \* the pairs of a name and a password requests present
    Cookies,    \* the pairs of a cookie and the name of a terminal requests present
    Password,   \* the password of each user
    Expired     \* the users whose account has expired

ASSUME MethodAssumption == Methods \subseteq
           {"version", "echo", "logout", "status", "info", "standalone", "pci", "login", "xauth",
            "exe", "kill", "lockscreen", "unlockscreen", "lockcontroller", "unlockcontroller",
            "vnc", "vlc", "rtp", "dpms", "dbus", "xorg", "tnc", "getscreenshot", "devices",
            "pamusb", "sound", "config", "rebootpoweroff"}
ASSUME UserAssumption == /\ Owner \in Users /\ Users \subseteq Names /\ Expired \subseteq Users
                         /\ Password \in [Users -> Passwords]
ASSUME LoginAssumption == Logins \subseteq [kind : {"login"}, user : Names, pass : Passwords]
\* A cookie, in the place of the user, is the key of the display or not; the place of the
\* password names the terminal or its address, or something else.
ASSUME CookieAssumption ==
           Cookies \subseteq [kind : {"cookie"}, user : {"right", "wrong"}, pass : {"name", "address", "elsewhere"}]
ASSUME NameAssumption == /\ "unset" \notin Slots /\ "nobody" \notin Slots
                         /\ Names \intersect {"torn", "fixed", "none"} = {}

Databases == {"tcospasswd", "shadow", "passwd", "none"}
NoRequest == [kind |-> "none", user |-> "none", pass |-> "none"]
Statics   == {"screenshot", "pamusb"}
Torn      == [pass |-> "none", salt |-> "torn"]  \* what is in the buffer is no hash at all

VARIABLES
    up,        \* the server process runs
    database,  \* the first file there is of those validate_login looks for
    at,        \* where the thread of each slot is
    todo,      \* the steps of the method that are left
    request,   \* the credentials of the call
    verdict,   \* what the last check or command of the call gave
    env,       \* the slot whose file XAUTHORITY names, or "unset"
    file,      \* the entry in the cookie file of each slot
    hash,      \* the result buffer of crypt()
    entry,     \* the result buffer of getspnam() and getpwnam()
    result,    \* the static variables: the slot whose answer is in each
    mixed,     \* history: another call wrote what this one's check or answer rests on
    near       \* history: a password of some user was hashed since this call's check began

sharedVars == <<env, file, hash, entry, result>>
callVars   == <<at, todo, request, verdict>>
history    == <<mixed, near>>
vars       == <<up, database, callVars, sharedVars, history>>

Commands == {"checked", "unchecked", "carry on"}  \* what is done when popen fails
Steps    == Commands \union {"login", "cookie"} \union Statics
------------------------------------------------------------------------------
(* The steps of each method, one sequence for each way through it.  "login" *)
(* is validate_login(), "cookie" is handle_xauth(), a command is a popen(). *)

\* version, echo and logout answer at once, status runs pidof.
EchoScripts       == {<< >>}
StatusScripts     == {<<"unchecked">>}
\* What is asked for may be unknown.
InfoScripts       == {<<"checked">>, << >>}
StandaloneScripts == {<<"checked">>, << >>}
\* The list of devices, or one device of the list.
PciScripts        == {<< >>, <<"checked">>, <<"unchecked">>, <<"unchecked", "unchecked">>}
LoginScripts      == {<<"login">>}
XauthScripts      == {<<"cookie">>}
\* job_exe() and kill_exe() do not look at what popen() returns.
ExeScripts        == {<<"login", "unchecked">>}
LockScripts       == {<<"login", "unchecked">>}
LockerScripts     == {<<"login", "unchecked">>}
\* The script first; then a locker is started or killed in some cases.
VncScripts        == {<<"login", "unchecked">>, <<"login", "unchecked", "unchecked">>}
VlcScripts        == {<<"login", "unchecked">>, <<"login", "unchecked", "unchecked">>}
RtpScripts        == {<<"login", "unchecked">>}
DpmsScripts       == {<<"login", "unchecked">>}
DbusScripts       == {<<"login", "checked">>}
XorgScripts       == {<<"login", "checked">>, <<"login">>}
\* Before Internet is disabled the name of the interface is asked for.
TncScripts        == {<<"login", "unchecked">>, <<"login", "carry on", "unchecked">>}
\* The picture is in the answer when the file can be read.
ScreenshotScripts == {<<"login", "unchecked">>, <<"login", "unchecked", "screenshot">>}
\* The list of X drivers needs no cookie.
DevicesScripts    == {<<"checked">>, <<"cookie", "checked">>}
\* initusb needs no cookie, getpad answers with what a file holds, savepad and newpad write.
PamUsbScripts     == {<<"checked">>, <<"cookie", "checked">>, <<"cookie">>, <<"cookie", "pamusb">>}
\* The address of the terminal is asked for: a caller whose password is the name or the
\* address of the terminal shows a cookie, another one logs in.
SoundScripts      == {<<"unchecked", "login", "checked">>, <<"unchecked", "cookie", "checked">>}
ConfigScripts     == {<<"unchecked", "login", "checked">>, <<"unchecked", "cookie", "checked">>}
RebootScripts     == {<<"unchecked", "login">>, <<"unchecked", "login", "unchecked">>,
                      <<"unchecked", "cookie">>, <<"unchecked", "cookie", "unchecked">>}

ScriptsOf(m) ==
    CASE m \in {"version", "echo", "logout"}          -> EchoScripts
      [] m = "status"                                 -> StatusScripts
      [] m = "info"                                   -> InfoScripts
      [] m = "standalone"                             -> StandaloneScripts
      [] m = "pci"                                    -> PciScripts
      [] m = "login"                                  -> LoginScripts
      [] m = "xauth"                                  -> XauthScripts
      [] m \in {"exe", "kill"}                        -> ExeScripts
      [] m \in {"lockscreen", "unlockscreen"}         -> LockScripts
      [] m \in {"lockcontroller", "unlockcontroller"} -> LockerScripts
      [] m = "vnc"                                    -> VncScripts
      [] m = "vlc"                                    -> VlcScripts
      [] m = "rtp"                                    -> RtpScripts
      [] m = "dpms"                                   -> DpmsScripts
      [] m = "dbus"                                   -> DbusScripts
      [] m = "xorg"                                   -> XorgScripts
      [] m = "tnc"                                    -> TncScripts
      [] m = "getscreenshot"                          -> ScreenshotScripts
      [] m = "devices"                                -> DevicesScripts
      [] m = "pamusb"                                 -> PamUsbScripts
      [] m = "sound"                                  -> SoundScripts
      [] m = "config"                                 -> ConfigScripts
      [] m = "rebootpoweroff"                         -> RebootScripts

Has(s, step) == \E n \in DOMAIN s : s[n] = step
RequestsFor(m, s) ==
    IF Has(s, "login") THEN Logins
    ELSE IF ~Has(s, "cookie") THEN {NoRequest}
    ELSE IF m \in {"sound", "config", "rebootpoweroff"} THEN {r \in Cookies : r.pass # "elsewhere"}
    ELSE Cookies
------------------------------------------------------------------------------
\* validate_login looks for the files in this order.
FirstFound(files) == IF "tcospasswd" \in files THEN "tcospasswd"
                     ELSE IF "shadow" \in files THEN "shadow"
                     ELSE IF "passwd" \in files THEN "passwd" ELSE "none"

Everywhere(v) == [p \in Slots |-> v]

Init == /\ up       = TRUE
        /\ database \in {FirstFound(files) : files \in SUBSET Databases}
        /\ at       = Everywhere("free")
        /\ todo     = Everywhere(<< >>)
        /\ request  = Everywhere(NoRequest)
        /\ verdict  = Everywhere("none")
        /\ env      = "unset"
        /\ file     = Everywhere("none")
        /\ hash     = Torn
        /\ entry    \in Users
        /\ result   = [s \in Statics |-> "nobody"]
        /\ mixed    = Everywhere(FALSE)
        /\ near     = Everywhere(FALSE)

Call(p, m) ==
    /\ up
    /\ at[p] = "free"
    /\ \E s \in ScriptsOf(m) : \E r \in RequestsFor(m, s) :
           /\ todo'    = [todo EXCEPT ![p] = s]
           /\ request' = [request EXCEPT ![p] = r]
    /\ at'      = [at EXCEPT ![p] = "step"]
    /\ UNCHANGED <<up, database, verdict, sharedVars, history>>

Goto(p, from, to) == at[p] = from /\ at' = [at EXCEPT ![p] = to]
Begins(p, steps)  == at[p] = "step" /\ todo[p] # << >> /\ Head(todo[p]) \in steps
StepDone(p) == at' = [at EXCEPT ![p] = "step"] /\ todo' = [todo EXCEPT ![p] = Tail(@)]
Refuse(p)   == at' = [at EXCEPT ![p] = "step"] /\ todo' = [todo EXCEPT ![p] = << >>]
Says(p, v)  == verdict' = [verdict EXCEPT ![p] = v]
\* The check of the method ends with verdict v: only "OK" lets it go on.
Checked(p, v) == /\ Says(p, v)
                 /\ IF v = "OK" THEN StepDone(p) ELSE Refuse(p)
                 /\ request' = [request EXCEPT ![p] = NoRequest]

\* The server ends, and every call with it, when it reads or closes a pipe that it did
\* not get.  (A cookie file stays behind; nobody looks at it again.)
Crash == /\ up'      = FALSE
         /\ at'      = Everywhere("free")
         /\ todo'    = Everywhere(<< >>)
         /\ request' = Everywhere(NoRequest)
         /\ verdict' = Everywhere("none")
         /\ env'     = "unset"
         /\ file'    = Everywhere("none")
         /\ hash'    = Torn
         /\ result'  = [s \in Statics |-> "nobody"]
         /\ mixed'   = Everywhere(FALSE)
         /\ near'    = Everywhere(FALSE)
         /\ UNCHANGED <<database, entry>>

\* popen() fails when the terminal is out of processes or memory.  tcos.tnc goes on then,
\* with a command line it has not written; the others report it, or end the server.
Command(p) == /\ Begins(p, Commands)
              /\ \/ StepDone(p) /\ UNCHANGED <<up, database, request, verdict, sharedVars, history>>
                 \/ /\ Head(todo[p]) = "checked"
                    /\ Refuse(p)
                    /\ UNCHANGED <<up, database, request, verdict, sharedVars, history>>
                 \/ Head(todo[p]) = "unchecked" /\ Crash

Answer(p) == /\ at[p] = "step" /\ todo[p] = << >>
             /\ at'      = [at EXCEPT ![p] = "free"]
             /\ verdict' = [verdict EXCEPT ![p] = "none"]
             /\ UNCHANGED <<up, database, todo, request, sharedVars, history>>
------------------------------------------------------------------------------
(* validate_login(). *)

Stored(u) == [pass |-> Password[u], salt |-> IF database = "shadow" THEN u ELSE "fixed"]

\* Variant with a bug: the salts are compared, not the hashes.
HeldSalt(p) == [pass |-> hash.pass, salt |-> Stored(entry).salt]

\* The password the hash is compared with: /etc/tcospasswd is read into a variable of
\* the call, an account into the buffer of the C library.
Held(p) == IF database = "tcospasswd" THEN Stored(Owner)
           ELSE IF database = "passwd" /\ request[p].user \notin Users
                THEN [pass |-> "none", salt |-> "none"]
                ELSE Stored(entry)

\* Calls whose check is between its first and its last look at a buffer.
InLogin(q) == at[q] \in {"hash", "compare", "expiry"}
Disturbs(p) == [q \in Slots |-> mixed[q] \/ (q # p /\ InLogin(q))]
IsSomebodys(w) == \E u \in Users : Password[u] = w

Judge(p, v) == /\ Checked(p, v)
               /\ mixed' = [mixed EXCEPT ![p] = FALSE]
               /\ near'  = [near EXCEPT ![p] = FALSE]

\* /etc/tcospasswd names one user; an account is looked up with getspnam() or getpwnam(),
\* and what is in the buffer after a name that is not found is the last account read.
LookUp(p) ==
    /\ Begins(p, {"login"})
    /\ LET user == request[p].user
       IN  IF database = "none" THEN Checked(p, "ERROR")
           ELSE IF user # Owner /\ database = "tcospasswd" THEN Checked(p, "NOUSER")
           ELSE IF user \notin Users /\ database = "shadow" THEN Checked(p, "NOUSER")
           ELSE Goto(p, "step", "hash") /\ UNCHANGED <<todo, request, verdict>>
    /\ IF database \in {"shadow", "passwd"}
       THEN /\ IF request[p].user \in Users THEN entry' = request[p].user ELSE entry' \in Users
            /\ mixed' = Disturbs(p)
       ELSE UNCHANGED <<entry, mixed>>
    /\ UNCHANGED <<up, database, env, file, hash, result, near>>

\* crypt() works in buffers of its own: two that run at the same time may both fail.
Hash(p) ==
    /\ Goto(p, "hash", "compare")
    /\ LET right == [pass |-> request[p].pass,
                     salt |-> IF database = "shadow" THEN entry ELSE "fixed"]
           clash == \E q \in Slots \ {p} : at[q] = "hash"
       IN  hash' \in {right} \union (IF clash THEN {Torn} ELSE {})
    /\ mixed' = [Disturbs(p) EXCEPT ![p] = mixed[p] \/ hash' = Torn]
    /\ near'  = [q \in Slots |-> near[q] \/ ((q = p \/ InLogin(q)) /\ IsSomebodys(request[p].pass))]
    /\ UNCHANGED <<up, database, todo, request, verdict, env, file, entry, result>>

\* A buffer that will be written before it is read again is forgotten.
Compare(p) ==
    /\ at[p] = "compare"
    /\ IF hash = Held(p) /\ database = "shadow"
       THEN Goto(p, "compare", "expiry") /\ UNCHANGED <<todo, request, verdict, history>>
       ELSE Judge(p, IF hash = Held(p) THEN "OK" ELSE "NOPASS")
    /\ hash' = IF \E q \in Slots \ {p} : at[q] = "compare" THEN hash ELSE Torn
    /\ UNCHANGED <<up, database, env, file, entry, result>>

\* Variant with a bug: an account that has expired is let in.
ExpiryOff(p) ==
    /\ at[p] = "expiry"
    /\ Judge(p, "OK")
    /\ UNCHANGED <<up, database, sharedVars>>

Expiry(p) ==
    /\ at[p] = "expiry"
    /\ Judge(p, IF entry \in Expired THEN "EXPIRED" ELSE "OK")
    /\ UNCHANGED <<up, database, sharedVars>>
------------------------------------------------------------------------------
(* handle_xauth(). *)

Window == {"open", "unlink", "unset"}  \* XAUTHORITY has been set by the call

IsAddress(w) == w = "address"

\* The display must be named by its address or by the name of the terminal.
MakeFile(p) == /\ Begins(p, {"cookie"})
               /\ IF ~IsAddress(request[p].pass) /\ request[p].pass # "name" THEN Checked(p, "BAD_HOSTNAME") /\ UNCHANGED file
                  ELSE \/ /\ Goto(p, "step", "fill")
                          /\ file' = [file EXCEPT ![p] = "empty"]
                          /\ UNCHANGED <<todo, request, verdict>>
                       \/ Checked(p, "BAD_FDTEMP") /\ UNCHANGED file
               /\ UNCHANGED <<up, database, env, hash, entry, result, history>>

\* The xauth command writes the entry; its popen() is not looked at either.
FillFile(p) == /\ at[p] = "fill"
               /\ \/ /\ Goto(p, "fill", "setenv")
                     /\ file' = [file EXCEPT ![p] = request[p].user]
                     /\ UNCHANGED <<up, database, todo, request, verdict, env, hash, entry, result, history>>
                  \/ Crash

\* Variant with a bug: the entry is put in the variable, not the name of the file.
SetEnvEntry(p) == /\ Goto(p, "setenv", "open")
                  /\ env' = file[p]
                  /\ UNCHANGED <<up, database, todo, request, verdict, file, hash, entry, result, history>>

\* Another call is between its setenv() and its XOpenDisplay().
Redirects(p) == [q \in Slots |-> mixed[q] \/ (q # p /\ at[q] = "open")]

SetEnv(p) == /\ Goto(p, "setenv", "open")
             /\ env' = p
             /\ mixed' = Redirects(p)
             /\ UNCHANGED <<up, database, todo, request, verdict, file, hash, entry, result, near>>

\* XOpenDisplay() reads XAUTHORITY.  Without it X uses the file of the user the server
\* runs as, which may hold the key or not.
OpenDisplay(p) == /\ Goto(p, "open", "unlink")
                  /\ IF env = "unset" THEN \E v \in {"OK", "XAUTH_ERROR"} : Says(p, v)
                     ELSE Says(p, IF file[env] = "right" THEN "OK" ELSE "XAUTH_ERROR")
                  /\ UNCHANGED <<up, database, todo, request, sharedVars, history>>

RemoveFile(p) == /\ Goto(p, "unlink", "unset")
                 /\ file' = [file EXCEPT ![p] = "none"]
                 /\ UNCHANGED <<up, database, todo, request, verdict, env, hash, entry, result, history>>

\* Variant with a bug: a check that fails returns before it unsets the variable.
UnsetEnvIfOK(p) == /\ at[p] = "unset"
                   /\ env' = IF verdict[p] = "OK" THEN "unset" ELSE env
                   /\ Checked(p, verdict[p])
                   /\ mixed' = [Redirects(p) EXCEPT ![p] = FALSE]
                   /\ UNCHANGED <<up, database, file, hash, entry, result, near>>

UnsetEnv(p) == /\ at[p] = "unset"
               /\ env' = "unset"
               /\ Checked(p, verdict[p])
               /\ mixed' = [Redirects(p) EXCEPT ![p] = FALSE]
               /\ UNCHANGED <<up, database, file, hash, entry, result, near>>
------------------------------------------------------------------------------
\* tcos.getscreenshot and getpad of tcos.pamusb put the answer in a static variable and
\* return what is in it.
GivesToo(p) == {q \in Slots \ {p} : at[q] = "give" /\ Head(todo[q]) = Head(todo[p])}

Put(p) == /\ Begins(p, Statics)
          /\ Goto(p, "step", "give")
          /\ result' = [result EXCEPT ![Head(todo[p])] = p]
          /\ mixed'  = [q \in Slots |-> mixed[q] \/ q \in GivesToo(p)]
          /\ UNCHANGED <<up, database, todo, request, verdict, env, file, hash, entry, near>>

\* Variant with a bug: the answer is waited for, which another call may have replaced.
GiveWaits(p) == /\ at[p] = "give" /\ result[Head(todo[p])] = p
                /\ Says(p, "OK")
                /\ result' = [result EXCEPT ![Head(todo[p])] = "nobody"]
                /\ mixed'  = [mixed EXCEPT ![p] = FALSE]
                /\ StepDone(p)
                /\ UNCHANGED <<up, database, request, env, file, hash, entry, near>>

Give(p) == /\ at[p] = "give"
           /\ Says(p, IF result[Head(todo[p])] = p THEN "OK" ELSE "another's answer")
           /\ result' = IF GivesToo(p) = {} THEN [result EXCEPT ![Head(todo[p])] = "nobody"]
                                           ELSE result
           /\ mixed'  = [mixed EXCEPT ![p] = FALSE]
           /\ StepDone(p)
           /\ UNCHANGED <<up, database, request, env, file, hash, entry, near>>

\* The init script starts the server again when the administrator asks for it.
Restart == ~up /\ up' = TRUE /\ UNCHANGED <<database, callVars, sharedVars, history>>

Step(p) == \/ Command(p) \/ Answer(p)
           \/ LookUp(p) \/ Hash(p) \/ Compare(p) \/ Expiry(p)
           \/ MakeFile(p) \/ FillFile(p) \/ SetEnv(p) \/ OpenDisplay(p) \/ RemoveFile(p) \/ UnsetEnv(p)
           \/ Put(p) \/ Give(p)

Next == \/ \E p \in Slots : Step(p) \/ \E m \in Methods : Call(p, m)
        \/ Restart

\* Every thread gets to run, and every command the server starts ends.
Spec == Init /\ [][Next]_vars /\ \A p \in Slots : WF_vars(Step(p))
------------------------------------------------------------------------------
Verdicts == {"none", "OK", "NOUSER", "NOPASS", "EXPIRED", "ERROR", "BAD_HOSTNAME", "BAD_FDTEMP",
             "XAUTH_ERROR", "another's answer"}
Places   == {"free", "step", "hash", "compare", "expiry", "fill", "setenv", "give"} \union Window

\* Types of the shared state and of the calls: what is in a static variable or in
\* XAUTHORITY was put there by a call.
TypeOK == /\ up \in BOOLEAN /\ database \in Databases
          /\ at \in [Slots -> Places] /\ todo \in [Slots -> Seq(Steps)]
          /\ request \in [Slots -> Logins \union Cookies \union {NoRequest}]
          /\ verdict \in [Slots -> Verdicts]
          /\ env \in Slots \union {"unset"}
          /\ file \in [Slots -> {"none", "empty", "right", "wrong"}]
          /\ hash \in [pass : Passwords \union {"none"}, salt : Users \union {"fixed", "torn"}]
          /\ entry \in Users
          /\ result \in [Statics -> Slots \union {"nobody"}]
          /\ mixed \in [Slots -> BOOLEAN] /\ near \in [Slots -> BOOLEAN]

\* What validate_login is to say of a request, from the files alone.
LoginVerdict(r) ==
    CASE database = "none"       -> "ERROR"
      [] database = "tcospasswd" -> IF r.user # Owner THEN "NOUSER"
                                    ELSE IF r.pass # Password[Owner] THEN "NOPASS" ELSE "OK"
      [] database = "shadow"     -> IF r.user \notin Users THEN "NOUSER"
                                    ELSE IF r.pass # Password[r.user] THEN "NOPASS"
                                    ELSE IF r.user \in Expired THEN "EXPIRED" ELSE "OK"
      [] database = "passwd"     -> IF r.user \notin Users \/ r.pass # Password[r.user]
                                    THEN "NOPASS" ELSE "OK"

\* What handle_xauth is to say of a request, when a file can be made.
CookieVerdict(r) == IF r.pass = "elsewhere" THEN "BAD_HOSTNAME"
                    ELSE IF r.user = "wrong" THEN "XAUTH_ERROR" ELSE "OK"

Verdict(r) == IF r.kind = "cookie" THEN CookieVerdict(r) ELSE LoginVerdict(r)

\* The check of a call has ended, and the server goes on.
Judged(p) == request[p] # NoRequest /\ request'[p] = NoRequest /\ up'

\* A call gets the verdict its own credentials deserve, and its own answer, unless another
\* call's check, or answer, came between (validate-shadow.c:68, xauth.c:87,
\* get_screenshot.c:45): the buffers and variables of the process are shared.
OwnVerdict == [][\A p \in Slots :
    /\ Judged(p) => mixed[p] \/ verdict'[p] \in {"BAD_FDTEMP", Verdict(request[p])}
    /\ verdict'[p] = "another's answer" /\ verdict[p] # verdict'[p] => mixed[p]]_vars

\* Whatever overlaps, nobody is logged in when no call has presented a password of some
\* user since the check began: a comparison of mixed buffers needs a right password.
LoginsAreSomebodys == [][\A p \in Slots :
    Judged(p) /\ request[p].kind = "login" /\ verdict'[p] = "OK" => near[p]]_vars

\* XAUTHORITY and the cookie file do not outlive the check (xauth.c:100-102): when no call
\* is in it, commands and displays are not opened with another call's cookie.
EnvClean == /\ env # "unset" => at[env] \in Window
            /\ \A p \in Slots : file[p] # "none" => at[p] \in {"fill", "setenv", "open", "unlink"}

\* Every call is answered, or ends with the server: no thread waits for another.
Answered == \A p \in Slots : at[p] # "free" ~> at[p] = "free"
==============================================================================
