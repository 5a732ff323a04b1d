---------------------------- MODULE RpcCallsProofs ----------------------------
(***************************************************************************)
(* Proofs about RpcCalls, for any number of threads, methods, users,       *)
(* passwords and requests.                                                 *)
(***************************************************************************)
EXTENDS RpcCalls, TLAPS

\* A check comes before everything a method does but commands that always go on.
WellFormed(s) == \A k \in DOMAIN s : s[k] \in {"login", "cookie"} => \A n \in 1..(k - 1) : s[n] = "unchecked"

LEMMA OneStep == ASSUME NEW a \in Steps
                 PROVE  <<a>> \in Seq(Steps) /\ WellFormed(<<a>>)
BY DEF WellFormed

LEMMA TwoSteps == ASSUME NEW a \in Steps, NEW b \in Steps, b \in {"login", "cookie"} => a = "unchecked"
                  PROVE  <<a, b>> \in Seq(Steps) /\ WellFormed(<<a, b>>)
BY DEF WellFormed

LEMMA ThreeSteps == ASSUME NEW a \in Steps, NEW b \in Steps, NEW c \in Steps \ {"login", "cookie"},
                           b \in {"login", "cookie"} => a = "unchecked"
                    PROVE  <<a, b, c>> \in Seq(Steps) /\ WellFormed(<<a, b, c>>)
BY DEF WellFormed

\* The methods, one by one.
LEMMA ScriptShape == ASSUME NEW m \in Methods, NEW s \in ScriptsOf(m)
                     PROVE  s \in Seq(Steps) /\ WellFormed(s)
<1> DEFINE Good(S) == \A t \in S : t \in Seq(Steps) /\ WellFormed(t)
<1>1. {"unchecked", "checked", "carry on", "login", "cookie", "screenshot", "pamusb"} = Steps
  BY DEF Steps, Commands, Statics
<1>2. Good({<< >>})
  BY DEF WellFormed
<1>3. Good(StatusScripts) /\ Good(LoginScripts) /\ Good(XauthScripts)
  BY <1>1, OneStep DEF StatusScripts, LoginScripts, XauthScripts
<1>4. Good(InfoScripts) /\ Good(StandaloneScripts)
  BY <1>1, <1>2, OneStep DEF InfoScripts, StandaloneScripts
<1>5. Good(PciScripts)
  BY <1>1, <1>2, OneStep, TwoSteps DEF PciScripts
<1>6. Good(ExeScripts) /\ Good(LockScripts) /\ Good(LockerScripts) /\ Good(RtpScripts)
      /\ Good(DpmsScripts) /\ Good(DbusScripts)
  BY <1>1, TwoSteps DEF ExeScripts, LockScripts, LockerScripts, RtpScripts, DpmsScripts, DbusScripts
<1>7. Good(VncScripts) /\ Good(VlcScripts) /\ Good(TncScripts) /\ Good(ScreenshotScripts)
  BY <1>1, TwoSteps, ThreeSteps DEF VncScripts, VlcScripts, TncScripts, ScreenshotScripts
<1>8. Good(XorgScripts) /\ Good(DevicesScripts) /\ Good(PamUsbScripts)
  BY <1>1, OneStep, TwoSteps DEF XorgScripts, DevicesScripts, PamUsbScripts
<1>9. Good(SoundScripts) /\ Good(ConfigScripts) /\ Good(RebootScripts)
  BY <1>1, TwoSteps, ThreeSteps DEF SoundScripts, ConfigScripts, RebootScripts
<1>10. Good(EchoScripts)
  BY <1>2 DEF EchoScripts
<1> QED BY <1>3, <1>4, <1>5, <1>6, <1>7, <1>8, <1>9, <1>10, MethodAssumption DEF ScriptsOf

\* What is left of a method after its first step.
LEMMA RestShape ==
    ASSUME NEW s \in Seq(Steps), s # << >>, WellFormed(s)
    PROVE  /\ Head(s) \in Steps /\ Has(s, Head(s)) /\ Tail(s) \in Seq(Steps) /\ WellFormed(Tail(s))
           /\ \A step : Has(Tail(s), step) => Has(s, step)
           /\ \A step : Has(s, step) /\ step # Head(s) => Has(Tail(s), step)
           /\ Head(s) # "unchecked" => ~Has(Tail(s), "login") /\ ~Has(Tail(s), "cookie")
<1>1. /\ Head(s) = s[1] /\ s[1] \in Steps /\ Tail(s) \in Seq(Steps) /\ 1 \in DOMAIN s
      /\ Len(Tail(s)) = Len(s) - 1 /\ Len(s) \in Nat \ {0}
      /\ DOMAIN Tail(s) = 1..Len(Tail(s)) /\ DOMAIN s = 1..Len(s)
  OBVIOUS
<1>2. \A n \in DOMAIN Tail(s) : n \in Nat \ {0} /\ n + 1 \in DOMAIN s /\ Tail(s)[n] = s[n + 1]
  BY <1>1
<1>3. \A n \in DOMAIN Tail(s) : Tail(s)[n] \in {"login", "cookie"} => s[1] = "unchecked"
  BY <1>1, <1>2 DEF WellFormed
<1>4. WellFormed(Tail(s))
  <2> SUFFICES ASSUME NEW k \in DOMAIN Tail(s), Tail(s)[k] \in {"login", "cookie"}, NEW n \in 1..(k - 1)
               PROVE  Tail(s)[n] = "unchecked"
    BY DEF WellFormed
  <2>1. n \in DOMAIN Tail(s) /\ n + 1 \in 1..((k + 1) - 1)
    BY <1>1, <1>2
  <2> QED BY <1>2, <2>1 DEF WellFormed
<1>5. ASSUME NEW step, Has(s, step), step # Head(s) PROVE Has(Tail(s), step)
  <2>1. PICK k \in DOMAIN s : s[k] = step
    BY <1>5 DEF Has
  <2>2. k - 1 \in DOMAIN Tail(s) /\ (k - 1) + 1 = k
    BY <1>1, <1>5, <2>1
  <2> QED BY <1>2, <2>1, <2>2 DEF Has
<1> QED BY <1>1, <1>2, <1>3, <1>4, <1>5 DEF Has

LEMMA EmptyShape == WellFormed(<< >>) /\ << >> \in Seq(Steps) /\ \A step : ~Has(<< >>, step)
BY DEF WellFormed, Has

\* A call has the credentials its check is for.
Shape == \A p \in Slots : /\ WellFormed(todo[p])
                          /\ Has(todo[p], "login")  => request[p] \in Logins
                          /\ Has(todo[p], "cookie") => request[p] \in Cookies

InCookie(p) == at[p] \in {"fill", "setenv"} \union Window

\* A thread that is inside a step is inside the first one left.
Phase == \A p \in Slots :
    /\ InLogin(p) => /\ todo[p] # << >> /\ Head(todo[p]) = "login"
                     /\ database # "none"
                     /\ database = "tcospasswd" => request[p].user = Owner
                     /\ database = "shadow" => request[p].user \in Users
    /\ InCookie(p) => todo[p] # << >> /\ Head(todo[p]) = "cookie" /\ request[p].pass # "elsewhere"
    /\ at[p] = "give" => todo[p] # << >> /\ Head(todo[p]) \in Statics

Inv == TypeOK /\ Shape /\ Phase

\* The credentials of a call are kept until its check has ended.
Pending == \A p \in Slots : /\ at[p] = "free" => todo[p] = << >>
                            /\ request[p] # NoRequest => Has(todo[p], "login") \/ Has(todo[p], "cookie")

\* The history of a call is only kept where something shared is in use.
Told == \A p \in Slots : /\ ~InLogin(p) => ~near[p]
                         /\ mixed[p] => InLogin(p) \/ at[p] \in Window \/ at[p] = "give"

\* What an undisturbed check finds in the buffers of the C library.
BuffersOwn == \A p \in Slots : ~mixed[p] =>
    /\ InLogin(p) /\ database \in {"shadow", "passwd"} /\ request[p].user \in Users => entry = request[p].user
    /\ at[p] = "compare" => hash = [pass |-> request[p].pass,
                                    salt |-> IF database = "shadow" THEN request[p].user ELSE "fixed"]
    /\ at[p] = "expiry" => Password[request[p].user] = request[p].pass

\* A hash of a user's password is only there when somebody presented it meanwhile.
HashNear == \A p \in Slots : /\ at[p] = "compare" /\ hash # Torn /\ IsSomebodys(hash.pass) => near[p]
                             /\ at[p] = "expiry" => database = "shadow" /\ near[p]

\* What an undisturbed check of a cookie finds in the environment.
CookieOwn == \A p \in Slots :
    /\ at[p] \in {"setenv", "open"} => file[p] = request[p].user
    /\ ~mixed[p] /\ at[p] = "open" => env = p
    /\ ~mixed[p] /\ at[p] \in {"unlink", "unset"} => verdict[p] = CookieVerdict(request[p])

\* An answer that is alone in its static variable is still there.
ResultOwn == \A p \in Slots : at[p] = "give" /\ ~mixed[p] => result[Head(todo[p])] = p

Shared == Told /\ BuffersOwn /\ HashNear /\ CookieOwn /\ ResultOwn

IInv == Inv /\ Pending /\ Shared
------------------------------------------------------------------------------
LEMMA NotBoth == ASSUME NEW s \in Seq(Steps), WellFormed(s) PROVE ~(Has(s, "login") /\ Has(s, "cookie"))
<1> SUFFICES ASSUME NEW i \in DOMAIN s, NEW k \in DOMAIN s, s[i] = "login", s[k] = "cookie" PROVE FALSE
  BY DEF Has
<1>1. DOMAIN s = 1..Len(s) /\ Len(s) \in Nat
  OBVIOUS
<1>2. i < k \/ k < i
  BY <1>1
<1>3. CASE i < k
  BY <1>1, <1>3 DEF WellFormed
<1>4. CASE k < i
  BY <1>1, <1>4 DEF WellFormed
<1> QED BY <1>2, <1>3, <1>4

LEMMA RequestTypes == /\ \A r \in Logins  : r.kind = "login" /\ r.user \in Names /\ r.pass \in Passwords
                      /\ \A r \in Cookies : /\ r.kind = "cookie" /\ r.user \in {"right", "wrong"}
                                           /\ r.pass \in {"name", "address", "elsewhere"}
BY LoginAssumption, CookieAssumption

\* The end of a check.
LEMMA CheckedInv ==
    ASSUME Inv, NEW p \in Slots, NEW v \in Verdicts, Checked(p, v),
           todo[p] # << >>, Head(todo[p]) \in {"login", "cookie"}, database' = database
    PROVE  /\ at' = [at EXCEPT ![p] = "step"] /\ verdict' = [verdict EXCEPT ![p] = v]
           /\ todo' \in [Slots -> Seq(Steps)] /\ verdict' \in [Slots -> Verdicts]
           /\ request' \in [Slots -> Logins \union Cookies \union {NoRequest}]
           /\ \A q \in Slots \ {p} : todo'[q] = todo[q] /\ request'[q] = request[q]
           /\ Shape' /\ Phase'
<1>1. /\ at' = [at EXCEPT ![p] = "step"] /\ verdict' = [verdict EXCEPT ![p] = v]
      /\ request' = [request EXCEPT ![p] = NoRequest]
      /\ todo' = [todo EXCEPT ![p] = Tail(@)] \/ todo' = [todo EXCEPT ![p] = << >>]
  BY DEF Checked, Says, StepDone, Refuse
<1>2. /\ todo \in [Slots -> Seq(Steps)] /\ WellFormed(todo[p])
      /\ request \in [Slots -> Logins \union Cookies \union {NoRequest}] /\ verdict \in [Slots -> Verdicts]
  BY DEF Inv, TypeOK, Shape
<1>3. /\ Tail(todo[p]) \in Seq(Steps) /\ WellFormed(Tail(todo[p]))
      /\ ~Has(Tail(todo[p]), "login") /\ ~Has(Tail(todo[p]), "cookie")
  BY <1>2, RestShape
<1>4. /\ todo'[p] \in Seq(Steps) /\ WellFormed(todo'[p])
      /\ ~Has(todo'[p], "login") /\ ~Has(todo'[p], "cookie")
      /\ \A q \in Slots \ {p} : todo'[q] = todo[q] /\ request'[q] = request[q]
  BY <1>1, <1>2, <1>3, EmptyShape
<1>5. todo' \in [Slots -> Seq(Steps)]
  BY <1>1, <1>2, <1>3, EmptyShape
<1>6. Shape'
  BY <1>4 DEF Inv, Shape
<1>7. at'[p] = "step" /\ \A q \in Slots \ {p} : at'[q] = at[q]
  BY <1>1 DEF Inv, TypeOK
<1>8. Phase'
  BY <1>4, <1>7 DEF Inv, Phase, InLogin, InCookie, Window
<1> QED BY <1>1, <1>2, <1>4, <1>5, <1>6, <1>8

\* Inside a check are the credentials it is for.
LEMMA InCheck ==
    ASSUME Inv, NEW p \in Slots, todo[p] # << >>
    PROVE  /\ Head(todo[p]) = "login" => /\ request[p] \in Logins /\ request[p].kind = "login"
                                         /\ request[p].user \in Names /\ request[p].pass \in Passwords
           /\ Head(todo[p]) = "cookie" => /\ request[p] \in Cookies /\ request[p].kind = "cookie"
                                          /\ request[p].user \in {"right", "wrong"}
                                          /\ request[p].pass \in {"name", "address", "elsewhere"}
<1>1. todo[p] \in Seq(Steps) /\ WellFormed(todo[p])
  BY DEF Inv, TypeOK, Shape
<1>2. Has(todo[p], Head(todo[p]))
  BY <1>1, RestShape
<1>3. /\ Head(todo[p]) = "login"  => request[p] \in Logins
      /\ Head(todo[p]) = "cookie" => request[p] \in Cookies
  BY <1>2 DEF Inv, Shape
<1> QED BY <1>3, RequestTypes

LEMMA InitInv == Init => Inv
<1> SUFFICES ASSUME Init PROVE Inv
  OBVIOUS
<1>1. database \in Databases
  BY DEF Init, FirstFound, Databases
<1>2. TypeOK
  BY <1>1, EmptyShape DEF Init, Everywhere, TypeOK, Places, Verdicts, Torn, Statics
<1>3. Shape /\ Phase
  BY EmptyShape DEF Init, Everywhere, Shape, Phase, InLogin, InCookie, Window
<1> QED BY <1>2, <1>3 DEF Inv

\* The end of another step.
LEMMA StepDoneInv ==
    ASSUME Inv, NEW p \in Slots, todo[p] # << >>, request' = request,
           StepDone(p) \/ (Refuse(p) /\ Head(todo[p]) # "unchecked")
    PROVE  /\ at' = [at EXCEPT ![p] = "step"] /\ todo' \in [Slots -> Seq(Steps)]
           /\ \A q \in Slots \ {p} : todo'[q] = todo[q]
           /\ Shape'
<1>1. /\ at' = [at EXCEPT ![p] = "step"]
      /\ todo' = [todo EXCEPT ![p] = Tail(@)] \/ todo' = [todo EXCEPT ![p] = << >>]
  BY DEF StepDone, Refuse
<1>2. todo \in [Slots -> Seq(Steps)] /\ WellFormed(todo[p])
  BY DEF Inv, TypeOK, Shape
<1>3. /\ Tail(todo[p]) \in Seq(Steps) /\ WellFormed(Tail(todo[p]))
      /\ \A step : Has(Tail(todo[p]), step) => Has(todo[p], step)
  BY <1>2, RestShape
<1>4. /\ todo'[p] \in Seq(Steps) /\ WellFormed(todo'[p]) /\ todo' \in [Slots -> Seq(Steps)]
      /\ \A step : Has(todo'[p], step) => Has(todo[p], step)
      /\ \A q \in Slots \ {p} : todo'[q] = todo[q]
  BY <1>1, <1>2, <1>3, EmptyShape
<1>5. Shape'
  BY <1>4 DEF Inv, Shape
<1> QED BY <1>1, <1>4, <1>5

LEMMA CrashInv == ASSUME Inv, Crash PROVE Inv'
<1>1. TypeOK'
  BY EmptyShape DEF Inv, TypeOK, Crash, Everywhere, Places, Verdicts, Torn, Statics
<1>2. Shape' /\ Phase'
  BY EmptyShape DEF Crash, Everywhere, Shape, Phase, InLogin, InCookie, Window
<1> QED BY <1>1, <1>2 DEF Inv

LEMMA StepInv == Inv /\ [Next]_vars => Inv'
<1> SUFFICES ASSUME Inv, [Next]_vars PROVE Inv'
  OBVIOUS
<1> USE DEF Inv
<1>1. ASSUME NEW p \in Slots, NEW m \in Methods, Call(p, m) PROVE Inv'
  <2>1. PICK s \in ScriptsOf(m) : \E r \in RequestsFor(m, s) : /\ todo' = [todo EXCEPT ![p] = s]
                                                              /\ request' = [request EXCEPT ![p] = r]
    BY <1>1 DEF Call
  <2>2. PICK r \in RequestsFor(m, s) : todo' = [todo EXCEPT ![p] = s] /\ request' = [request EXCEPT ![p] = r]
    BY <2>1
  <2>3. s \in Seq(Steps) /\ WellFormed(s)
    BY ScriptShape
  <2>4. /\ r \in Logins \union Cookies \union {NoRequest}
        /\ Has(s, "login") => r \in Logins
        /\ Has(s, "cookie") => r \in Cookies
    BY <2>3, NotBoth DEF RequestsFor
  <2>5. at' = [at EXCEPT ![p] = "step"] /\ UNCHANGED <<up, database, verdict, sharedVars, history>>
    BY <1>1 DEF Call
  <2>6. TypeOK'
    BY <2>2, <2>3, <2>4, <2>5 DEF TypeOK, Places, sharedVars, history
  <2>7. Shape'
    BY <2>2, <2>3, <2>4 DEF TypeOK, Shape
  <2>8. Phase'
    BY <2>2, <2>5 DEF TypeOK, Phase, InLogin, InCookie, Window
  <2> QED BY <2>6, <2>7, <2>8
<1>2. ASSUME NEW p \in Slots, Command(p) PROVE Inv'
  <2>1. todo[p] # << >> /\ at[p] = "step"
    BY <1>2 DEF Command, Begins
  <2>2. CASE Crash
    BY <2>2, CrashInv
  <2>3. CASE ~Crash
    <3>1. /\ UNCHANGED <<up, database, request, verdict, sharedVars, history>>
          /\ StepDone(p) \/ (Refuse(p) /\ Head(todo[p]) # "unchecked")
      BY <1>2, <2>3 DEF Command
    <3>2. /\ at' = [at EXCEPT ![p] = "step"] /\ todo' \in [Slots -> Seq(Steps)] /\ Shape'
          /\ \A q \in Slots \ {p} : todo'[q] = todo[q]
      BY <2>1, <3>1, StepDoneInv
    <3>3. TypeOK'
      BY <3>1, <3>2 DEF TypeOK, Places, sharedVars, history
    <3>4. Phase'
      BY <3>1, <3>2 DEF TypeOK, Phase, InLogin, InCookie, Window
    <3> QED BY <3>2, <3>3, <3>4
  <2> QED BY <2>2, <2>3
<1>3. ASSUME NEW p \in Slots, Answer(p) PROVE Inv'
  <2>1. TypeOK'
    BY <1>3 DEF Answer, TypeOK, Places, Verdicts, sharedVars, history
  <2>2. Shape' /\ Phase'
    BY <1>3 DEF Answer, TypeOK, Shape, Phase, InLogin, InCookie, Window
  <2> QED BY <2>1, <2>2
<1>4. ASSUME NEW p \in Slots, LookUp(p) PROVE Inv'
  <2>1. todo[p] # << >> /\ Head(todo[p]) = "login" /\ UNCHANGED <<up, database, env, file, hash, result, near>>
    BY <1>4 DEF LookUp, Begins
  <2>2. request[p] \in Logins /\ request[p].user \in Names
    BY <2>1, InCheck
  <2>3. entry' \in Users /\ mixed' \in [Slots -> BOOLEAN]
    BY <1>4 DEF LookUp, Disturbs, InLogin, TypeOK
  <2>4. CASE \E v \in {"ERROR", "NOUSER"} : Checked(p, v)
    <3>1. PICK v \in {"ERROR", "NOUSER"} : Checked(p, v)
      BY <2>4
    <3>2. v \in Verdicts
      BY DEF Verdicts
    <3>3. TypeOK'
      BY <2>1, <2>3, <3>1, <3>2, CheckedInv DEF TypeOK, Places
    <3> QED BY <2>1, <3>1, <3>2, <3>3, CheckedInv
  <2>5. CASE /\ database # "none"
             /\ database = "tcospasswd" => request[p].user = Owner
             /\ database = "shadow" => request[p].user \in Users
             /\ Goto(p, "step", "hash") /\ UNCHANGED <<todo, request, verdict>>
    <3>1. TypeOK'
      BY <2>1, <2>3, <2>5 DEF TypeOK, Places, Goto
    <3>2. Shape'
      BY <2>5 DEF Shape
    <3>3. Phase'
      BY <2>1, <2>5 DEF TypeOK, Phase, InLogin, InCookie, Window, Goto
    <3> QED BY <3>1, <3>2, <3>3
  <2> QED BY <1>4, <2>4, <2>5 DEF LookUp
<1>5. ASSUME NEW p \in Slots, Hash(p) PROVE Inv'
  <2>1. at[p] = "hash" /\ at' = [at EXCEPT ![p] = "compare"]
        /\ UNCHANGED <<up, database, todo, request, verdict, env, file, entry, result>>
    BY <1>5 DEF Hash, Goto
  <2>2. request[p] \in Logins /\ request[p].pass \in Passwords
    BY <2>1, InCheck DEF Phase, InLogin
  <2>3. hash' \in [pass : Passwords \union {"none"}, salt : Users \union {"fixed", "torn"}]
    BY <1>5, <2>1, <2>2 DEF Hash, Torn, TypeOK
  <2>4. mixed' \in [Slots -> BOOLEAN] /\ near' \in [Slots -> BOOLEAN]
    BY <1>5 DEF Hash, Disturbs, InLogin, TypeOK, IsSomebodys
  <2>5. TypeOK'
    BY <2>1, <2>3, <2>4 DEF TypeOK, Places
  <2>6. Shape' /\ Phase'
    BY <2>1 DEF TypeOK, Shape, Phase, InLogin, InCookie, Window
  <2> QED BY <2>5, <2>6
<1>6. ASSUME NEW p \in Slots, Compare(p) PROVE Inv'
  <2>1. /\ at[p] = "compare" /\ UNCHANGED <<up, database, env, file, entry, result>>
        /\ todo[p] # << >> /\ Head(todo[p]) = "login"
    BY <1>6 DEF Compare, Phase, InLogin
  <2>2. hash' \in [pass : Passwords \union {"none"}, salt : Users \union {"fixed", "torn"}]
    BY <1>6 DEF Compare, Torn, TypeOK
  <2>3. CASE Goto(p, "compare", "expiry") /\ UNCHANGED <<todo, request, verdict, history>>
    <3>1. TypeOK'
      BY <2>1, <2>2, <2>3 DEF TypeOK, Places, Goto, history
    <3>2. Shape' /\ Phase'
      BY <2>1, <2>3 DEF TypeOK, Shape, Phase, InLogin, InCookie, Window, Goto
    <3> QED BY <3>1, <3>2
  <2>4. CASE \E v \in {"OK", "NOPASS"} : Judge(p, v)
    <3>1. PICK v \in {"OK", "NOPASS"} : Judge(p, v)
      BY <2>4
    <3>2. v \in Verdicts /\ Checked(p, v)
      BY <3>1 DEF Verdicts, Judge
    <3>3. mixed' \in [Slots -> BOOLEAN] /\ near' \in [Slots -> BOOLEAN]
      BY <3>1 DEF Judge, TypeOK
    <3>4. TypeOK'
      BY <2>1, <2>2, <3>2, <3>3, CheckedInv DEF TypeOK, Places
    <3> QED BY <2>1, <3>2, <3>4, CheckedInv
  <2> QED BY <1>6, <2>3, <2>4 DEF Compare
<1>7. ASSUME NEW p \in Slots, Expiry(p) PROVE Inv'
  <2>1. /\ UNCHANGED <<up, database, sharedVars>>
        /\ todo[p] # << >> /\ Head(todo[p]) = "login"
    BY <1>7 DEF Expiry, Phase, InLogin
  <2>2. PICK v \in {"EXPIRED", "OK"} : Judge(p, v)
    BY <1>7 DEF Expiry
  <2>3. v \in Verdicts /\ Checked(p, v) /\ mixed' \in [Slots -> BOOLEAN] /\ near' \in [Slots -> BOOLEAN]
    BY <2>2 DEF Verdicts, Judge, TypeOK
  <2>4. TypeOK'
    BY <2>1, <2>3, CheckedInv DEF TypeOK, Places, sharedVars
  <2> QED BY <2>1, <2>3, <2>4, CheckedInv
<1>8. ASSUME NEW p \in Slots, MakeFile(p) PROVE Inv'
  <2>1. /\ todo[p] # << >> /\ Head(todo[p]) = "cookie"
        /\ UNCHANGED <<up, database, env, hash, entry, result, history>>
    BY <1>8 DEF MakeFile, Begins
  <2>2. CASE \E v \in {"BAD_HOSTNAME", "BAD_FDTEMP"} : Checked(p, v) /\ UNCHANGED file
    <3>1. PICK v \in {"BAD_HOSTNAME", "BAD_FDTEMP"} : Checked(p, v) /\ UNCHANGED file
      BY <2>2
    <3>2. v \in Verdicts
      BY DEF Verdicts
    <3>3. TypeOK'
      BY <2>1, <3>1, <3>2, CheckedInv DEF TypeOK, Places, history
    <3> QED BY <2>1, <3>1, <3>2, <3>3, CheckedInv
  <2>3. CASE /\ request[p].pass # "elsewhere" /\ Goto(p, "step", "fill")
             /\ file' = [file EXCEPT ![p] = "empty"]
             /\ UNCHANGED <<todo, request, verdict>>
    <3>1. TypeOK'
      BY <2>1, <2>3 DEF TypeOK, Places, Goto, history
    <3>2. Shape' /\ Phase'
      BY <2>1, <2>3 DEF TypeOK, Shape, Phase, InLogin, InCookie, Window, Goto
    <3> QED BY <3>1, <3>2
  <2>4. request[p].pass \in {"name", "address", "elsewhere"}
    BY <2>1, InCheck
  <2> QED BY <1>8, <2>2, <2>3, <2>4 DEF MakeFile, IsAddress
<1>9. ASSUME NEW p \in Slots, FillFile(p) PROVE Inv'
  <2>1. CASE Crash
    BY <2>1, CrashInv
  <2>2. CASE ~Crash
    <3>1. /\ Goto(p, "fill", "setenv") /\ file' = [file EXCEPT ![p] = request[p].user]
          /\ UNCHANGED <<up, database, todo, request, verdict, env, hash, entry, result, history>>
      BY <1>9, <2>2 DEF FillFile
    <3>2. request[p].user \in {"right", "wrong"}
      BY <3>1, InCheck DEF Phase, InCookie, Goto
    <3>3. TypeOK'
      BY <3>1, <3>2 DEF TypeOK, Places, Goto, history
    <3>4. Shape' /\ Phase'
      BY <3>1 DEF TypeOK, Shape, Phase, InLogin, InCookie, Window, Goto
    <3> QED BY <3>3, <3>4
  <2> QED BY <2>1, <2>2
<1>10. ASSUME NEW p \in Slots, SetEnv(p) PROVE Inv'
  <2>1. TypeOK'
    BY <1>10 DEF SetEnv, Redirects, TypeOK, Places, Window, Goto
  <2>2. Shape' /\ Phase'
    BY <1>10 DEF SetEnv, TypeOK, Shape, Phase, InLogin, InCookie, Window, Goto
  <2> QED BY <2>1, <2>2
<1>11. ASSUME NEW p \in Slots, OpenDisplay(p) PROVE Inv'
  <2>1. PICK v \in {"OK", "XAUTH_ERROR"} : Says(p, v)
    BY <1>11 DEF OpenDisplay
  <2>2. Goto(p, "open", "unlink") /\ UNCHANGED <<up, database, todo, request, sharedVars, history>>
    BY <1>11 DEF OpenDisplay
  <2>3. TypeOK'
    BY <2>1, <2>2 DEF Says, Verdicts, TypeOK, Places, Window, Goto, sharedVars, history
  <2>4. Shape' /\ Phase'
    BY <2>2 DEF TypeOK, Shape, Phase, InLogin, InCookie, Window, Goto
  <2> QED BY <2>3, <2>4
<1>12. ASSUME NEW p \in Slots, RemoveFile(p) PROVE Inv'
  <2>1. TypeOK'
    BY <1>12 DEF RemoveFile, TypeOK, Places, Window, Goto, history
  <2>2. Shape' /\ Phase'
    BY <1>12 DEF RemoveFile, TypeOK, Shape, Phase, InLogin, InCookie, Window, Goto
  <2> QED BY <2>1, <2>2
<1>13. ASSUME NEW p \in Slots, UnsetEnv(p) PROVE Inv'
  <2>1. /\ todo[p] # << >> /\ Head(todo[p]) = "cookie" /\ verdict[p] \in Verdicts
        /\ Checked(p, verdict[p]) /\ env' = "unset"
        /\ UNCHANGED <<up, database, file, hash, entry, result, near>>
    BY <1>13 DEF UnsetEnv, Phase, InCookie, Window, TypeOK
  <2>2. mixed' \in [Slots -> BOOLEAN]
    BY <1>13 DEF UnsetEnv, Redirects, TypeOK
  <2>3. TypeOK'
    BY <2>1, <2>2, CheckedInv DEF TypeOK, Places
  <2> QED BY <2>1, <2>3, CheckedInv
<1>14. ASSUME NEW p \in Slots, Put(p) PROVE Inv'
  <2>1. /\ todo[p] # << >> /\ Head(todo[p]) \in Statics /\ Goto(p, "step", "give")
        /\ result' = [result EXCEPT ![Head(todo[p])] = p]
        /\ UNCHANGED <<up, database, todo, request, verdict, env, file, hash, entry, near>>
    BY <1>14 DEF Put, Begins
  <2>2. mixed' \in [Slots -> BOOLEAN]
    BY <1>14 DEF Put, GivesToo, TypeOK
  <2>3. TypeOK'
    BY <2>1, <2>2 DEF TypeOK, Places, Goto
  <2>4. Shape' /\ Phase'
    BY <2>1 DEF TypeOK, Shape, Phase, InLogin, InCookie, Window, Goto
  <2> QED BY <2>3, <2>4
<1>15. ASSUME NEW p \in Slots, Give(p) PROVE Inv'
  <2>1. /\ todo[p] # << >> /\ Head(todo[p]) \in Statics /\ StepDone(p)
        /\ UNCHANGED <<up, database, request, env, file, hash, entry, near>>
    BY <1>15 DEF Give, Phase
  <2>2. verdict' \in [Slots -> Verdicts] /\ mixed' \in [Slots -> BOOLEAN]
        /\ result' \in [Statics -> Slots \union {"nobody"}]
    BY <1>15 DEF Give, Says, Verdicts, TypeOK
  <2>3. TypeOK'
    BY <2>1, <2>2, StepDoneInv DEF TypeOK, Places
  <2>4. Phase'
    BY <2>1, StepDoneInv DEF TypeOK, Phase, InLogin, InCookie, Window
  <2> QED BY <2>1, <2>3, <2>4, StepDoneInv
<1>16. ASSUME Restart PROVE Inv'
  <2>1. TypeOK'
    BY <1>16 DEF Restart, TypeOK, callVars, sharedVars, history
  <2>2. Shape' /\ Phase'
    BY <1>16 DEF Restart, Shape, Phase, InLogin, InCookie, Window, callVars
  <2> QED BY <2>1, <2>2
<1>17. CASE UNCHANGED vars
  <2>1. TypeOK'
    BY <1>17 DEF vars, TypeOK, callVars, sharedVars, history
  <2>2. Shape' /\ Phase'
    BY <1>17 DEF vars, Shape, Phase, InLogin, InCookie, Window, callVars
  <2> QED BY <2>1, <2>2
<1> QED BY <1>1, <1>2, <1>3, <1>4, <1>5, <1>6, <1>7, <1>8, <1>9, <1>10, <1>11, <1>12, <1>13,
           <1>14, <1>15, <1>16, <1>17 DEF Next, Step

\* Types of the shared state and of the calls of xmlrpc/tcosxmlrpc.c, whatever the threads
\* do in whatever order: what XAUTHORITY or a static variable holds was put there by a call.
THEOREM TypeCorrect == Spec => []TypeOK
<1>1. Inv => TypeOK
  BY DEF Inv
<1> QED BY InitInv, StepInv, <1>1, PTL DEF Spec
------------------------------------------------------------------------------
\* A step of one thread leaves the calls of the others alone.
LEMMA Others ==
    ASSUME Inv, NEW p \in Slots, Step(p), ~Crash
    PROVE  /\ up' = up /\ database' = database
           /\ \A q \in Slots \ {p} : /\ at'[q] = at[q] /\ todo'[q] = todo[q] /\ request'[q] = request[q]
                                    /\ verdict'[q] = verdict[q] /\ file'[q] = file[q]
<1> USE DEF Inv, TypeOK
<1>1. CASE Command(p) \/ Answer(p) \/ Put(p) \/ Give(p)
  BY <1>1 DEF Command, Answer, Put, Give, StepDone, Refuse, Goto, Says, sharedVars, history
<1>2. CASE LookUp(p)
  BY <1>2 DEF LookUp, Checked, StepDone, Refuse, Goto, Says
<1>3. CASE Hash(p) \/ Compare(p) \/ Expiry(p)
  BY <1>3 DEF Hash, Compare, Expiry, Judge, Checked, StepDone, Refuse, Goto, Says, sharedVars
<1>4. CASE MakeFile(p) \/ FillFile(p)
  BY <1>4 DEF MakeFile, FillFile, Checked, StepDone, Refuse, Goto, Says
<1>5. CASE SetEnv(p) \/ OpenDisplay(p) \/ RemoveFile(p) \/ UnsetEnv(p)
  BY <1>5 DEF SetEnv, OpenDisplay, RemoveFile, UnsetEnv, Checked, StepDone, Refuse, Goto, Says, sharedVars
<1> QED BY <1>1, <1>2, <1>3, <1>4, <1>5 DEF Step

\* Where a check takes its thread.
LEMMA CheckMoves ==
    ASSUME Inv, NEW p \in Slots, NEW v, Checked(p, v)
    PROVE  at'[p] = "step" /\ request'[p] = NoRequest /\ verdict'[p] = v
BY DEF Inv, TypeOK, Checked, StepDone, Refuse, Says

LEMMA StepPending == Inv /\ Pending /\ [Next]_vars => Pending'
<1> SUFFICES ASSUME Inv, Pending, [Next]_vars PROVE Pending'
  OBVIOUS
<1>1. CASE Crash
  BY <1>1 DEF Crash, Everywhere, Pending
<1>2. ASSUME NEW p \in Slots, NEW m \in Methods, Call(p, m) PROVE Pending'
  <2>1. PICK s \in ScriptsOf(m) : \E r \in RequestsFor(m, s) : /\ todo' = [todo EXCEPT ![p] = s]
                                                              /\ request' = [request EXCEPT ![p] = r]
    BY <1>2 DEF Call
  <2>2. PICK r \in RequestsFor(m, s) : todo' = [todo EXCEPT ![p] = s] /\ request' = [request EXCEPT ![p] = r]
    BY <2>1
  <2>3. r # NoRequest => Has(s, "login") \/ Has(s, "cookie")
    BY DEF RequestsFor
  <2>4. at' = [at EXCEPT ![p] = "step"]
    BY <1>2 DEF Call
  <2> QED BY <2>2, <2>3, <2>4 DEF Inv, TypeOK, Pending
<1>3. ASSUME NEW p \in Slots, Step(p), ~Crash PROVE Pending'
  <2> SUFFICES /\ at'[p] = "free" => todo'[p] = << >>
               /\ request'[p] # NoRequest => Has(todo'[p], "login") \/ Has(todo'[p], "cookie")
    BY <1>3, Others DEF Pending
  <2> USE DEF Inv, TypeOK
  <2>1. CASE \E v : Checked(p, v)
    BY <2>1, CheckMoves
  <2>2. CASE /\ request' = request /\ todo' = todo
             /\ at'[p] # "free" \/ todo[p] = << >>
    BY <2>2 DEF Pending
  <2>3. CASE Command(p)
    <3>1. /\ at[p] = "step" /\ todo[p] # << >> /\ Head(todo[p]) \in Commands /\ request' = request
          /\ at'[p] = "step"
          /\ todo'[p] = Tail(todo[p]) \/ (Head(todo[p]) = "checked" /\ todo'[p] = << >>)
      BY <1>3, <2>3 DEF Command, Begins, StepDone, Refuse
    <3>2. "login" \notin Commands /\ "cookie" \notin Commands
      BY DEF Commands
    <3>3. /\ Has(todo[p], "login") => Has(Tail(todo[p]), "login")
          /\ Has(todo[p], "cookie") => Has(Tail(todo[p]), "cookie")
          /\ Head(todo[p]) = "checked" => ~Has(Tail(todo[p]), "login") /\ ~Has(Tail(todo[p]), "cookie")
      BY <3>1, <3>2, RestShape DEF Shape
    <3> QED BY <3>1, <3>3 DEF Pending
  <2>4. CASE Give(p)
    <3>1. /\ todo[p] # << >> /\ Head(todo[p]) \in Statics /\ request' = request
          /\ at'[p] = "step" /\ todo'[p] = Tail(todo[p])
      BY <2>4 DEF Give, Phase, StepDone
    <3>2. "login" \notin Statics /\ "cookie" \notin Statics
      BY DEF Statics
    <3>3. /\ Has(todo[p], "login") => Has(Tail(todo[p]), "login")
          /\ Has(todo[p], "cookie") => Has(Tail(todo[p]), "cookie")
      BY <3>1, <3>2, RestShape DEF Shape
    <3> QED BY <3>1, <3>3 DEF Pending
  <2>5. CASE Answer(p) \/ Put(p) \/ SetEnv(p) \/ OpenDisplay(p) \/ RemoveFile(p)
    <3>1. request' = request /\ todo' = todo /\ (at'[p] # "free" \/ todo[p] = << >>)
      BY <2>5 DEF Answer, Put, SetEnv, OpenDisplay, RemoveFile, Goto
    <3> QED BY <3>1, <2>2
  <2>6. CASE Hash(p) \/ Compare(p) \/ Expiry(p)
    BY <2>1, <2>2, <2>6 DEF Hash, Compare, Expiry, Goto, Judge
  <2>7. CASE LookUp(p)
    BY <2>1, <2>2, <2>7 DEF LookUp, Goto
  <2>8. CASE MakeFile(p) \/ FillFile(p) \/ UnsetEnv(p)
    BY <1>3, <2>1, <2>2, <2>8 DEF MakeFile, FillFile, UnsetEnv, Goto
  <2> QED BY <1>3, <2>3, <2>4, <2>5, <2>6, <2>7, <2>8 DEF Step
<1>4. CASE Restart \/ UNCHANGED vars
  BY <1>4 DEF Restart, vars, callVars, Pending
<1> QED BY <1>1, <1>2, <1>3, <1>4 DEF Next

LEMMA StepEnvClean == Inv /\ EnvClean /\ [Next]_vars => EnvClean'
<1> SUFFICES ASSUME Inv, EnvClean, [Next]_vars PROVE EnvClean'
  OBVIOUS
<1> USE DEF Inv, TypeOK
<1>1. CASE Crash
  BY <1>1 DEF Crash, Everywhere, EnvClean
<1>2. CASE \E p \in Slots, m \in Methods : Call(p, m)
  BY <1>2 DEF Call, sharedVars, EnvClean, Window
<1>3. ASSUME NEW p \in Slots, Step(p), ~Crash PROVE EnvClean'
  <2>1. \A q \in Slots \ {p} : at'[q] = at[q] /\ file'[q] = file[q]
    BY <1>3, Others
  <2>2. CASE at[p] \notin {"fill", "setenv"} \union Window /\ env' = env /\ file' = file
    <3>1. env' # "unset" => env \in Slots \ {p} /\ at[env] \in Window
      BY <2>2 DEF EnvClean
    <3>2. \A q \in Slots : file'[q] # "none" => q # p /\ at[q] \in {"fill", "setenv", "open", "unlink"}
      BY <2>2 DEF EnvClean, Window
    <3> QED BY <2>1, <2>2, <3>1, <3>2 DEF EnvClean
  <2>3. CASE Command(p) \/ Answer(p) \/ Put(p) \/ Give(p)
    BY <1>3, <2>2, <2>3 DEF Command, Begins, Answer, Put, Give, Window, sharedVars, Goto
  <2>4. CASE LookUp(p) \/ Hash(p) \/ Compare(p) \/ Expiry(p)
    BY <2>2, <2>4 DEF LookUp, Begins, Hash, Compare, Expiry, Window, sharedVars, Goto
  <2>5. CASE MakeFile(p)
    <3>1. CASE Goto(p, "step", "fill")
      BY <2>1, <2>5, <3>1 DEF MakeFile, Goto, EnvClean, Window
    <3> QED BY <2>2, <2>5, <3>1 DEF MakeFile, Begins, Window
  <2>6. CASE FillFile(p) \/ SetEnv(p) \/ OpenDisplay(p) \/ RemoveFile(p)
    <3>1. /\ env' = env \/ env' = p
          /\ at[p] # "fill" => at'[p] \in Window
          /\ file'[p] # "none" => at'[p] \in {"setenv", "open", "unlink"}
          /\ at[p] = "fill" => env' = env
      BY <1>3, <2>6 DEF FillFile, SetEnv, OpenDisplay, RemoveFile, Goto, Window, sharedVars
    <3>2. env' # "unset" => at'[env'] \in Window
      BY <2>1, <3>1 DEF EnvClean, Window
    <3> QED BY <2>1, <3>1, <3>2 DEF EnvClean
  <2>7. CASE UnsetEnv(p)
    BY <2>1, <2>7 DEF UnsetEnv, EnvClean, Window
  <2> QED BY <1>3, <2>3, <2>4, <2>5, <2>6, <2>7 DEF Step
<1>4. CASE Restart \/ UNCHANGED vars
  BY <1>4 DEF Restart, vars, callVars, sharedVars, EnvClean
<1> QED BY <1>1, <1>2, <1>3, <1>4 DEF Next

\* XAUTHORITY and the cookie file do not outlive the check that made them (xauth.c:100-102),
\* whatever checks overlap and however each of them ends.
THEOREM EnvCleanAlways == Spec => []EnvClean
<1>1. Init => EnvClean
  BY DEF Init, Everywhere, EnvClean
<1> QED BY InitInv, StepInv, StepEnvClean, <1>1, PTL DEF Spec
------------------------------------------------------------------------------
\* A step that touches nothing shared, of a thread that is in no check before or after it.
LEMMA QuietShared ==
    ASSUME Inv, Shared, NEW p \in Slots, database' = database,
           \A q \in Slots \ {p} : /\ at'[q] = at[q] /\ todo'[q] = todo[q] /\ request'[q] = request[q]
                                /\ verdict'[q] = verdict[q] /\ file'[q] = file[q],
           UNCHANGED <<env, hash, entry, result, mixed, near>>,
           at[p] \in {"free", "step", "fill"}, at'[p] \in {"free", "step", "fill"}
    PROVE  Shared'
<1> USE DEF Shared, InLogin, Window
<1>1. ~mixed[p] /\ ~near[p]
  BY DEF Told
<1>2. Told'
  BY <1>1 DEF Told
<1>3. BuffersOwn' /\ HashNear'
  BY DEF BuffersOwn, HashNear
<1>4. CookieOwn' /\ ResultOwn'
  BY DEF CookieOwn, ResultOwn, CookieVerdict
<1> QED BY <1>2, <1>3, <1>4

LEMMA LookUpShared == ASSUME Inv, Shared, NEW p \in Slots, LookUp(p), Step(p), ~Crash PROVE Shared'
<1> USE DEF Shared, InLogin, Window
<1>1. /\ at[p] = "step" /\ at'[p] \in {"step", "hash"} /\ database' = database
      /\ UNCHANGED <<env, file, hash, result, near>>
  BY DEF LookUp, Begins, Goto, Checked, StepDone, Refuse, Inv, TypeOK
<1>2. \A q \in Slots \ {p} : /\ at'[q] = at[q] /\ todo'[q] = todo[q] /\ request'[q] = request[q]
                            /\ verdict'[q] = verdict[q]
  BY Others
<1>3. /\ \A q \in Slots : ~mixed'[q] => ~mixed[q]
      /\ \A q \in Slots : mixed'[q] => mixed[q] \/ (q # p /\ InLogin(q))
  BY DEF LookUp, Disturbs
<1>4. Told'
  BY <1>1, <1>2, <1>3 DEF Told
<1>5. at'[p] = "hash" => request'[p] = request[p]
  BY <1>1, CheckMoves DEF LookUp
<1>6. BuffersOwn'
  <2>1. CASE database \in {"shadow", "passwd"}
    <3>1. mixed' = Disturbs(p) /\ (request[p].user \in Users => entry' = request[p].user)
      BY <2>1 DEF LookUp
    <3>2. \A q \in Slots \ {p} : ~mixed'[q] => ~InLogin(q)
      BY <3>1 DEF Disturbs
    <3> QED BY <1>1, <1>2, <1>3, <1>5, <3>1, <3>2 DEF BuffersOwn
  <2>2. CASE database \notin {"shadow", "passwd"}
    <3> SUFFICES ASSUME NEW q \in Slots \ {p}, ~mixed'[q], at'[q] \in {"compare", "expiry"}
                 PROVE  /\ at'[q] = "compare" => hash' = [pass |-> request'[q].pass,
                                                          salt |-> IF database' = "shadow" THEN request'[q].user ELSE "fixed"]
                        /\ at'[q] = "expiry" => Password[request'[q].user] = request'[q].pass
      BY <1>1, <2>2 DEF BuffersOwn
    <3>1. at'[q] = at[q] /\ request'[q] = request[q] /\ ~mixed[q]
      BY <1>2, <1>3
    <3> QED BY <1>1, <3>1 DEF BuffersOwn
  <2> QED BY <2>1, <2>2
<1>7. HashNear'
  BY <1>1, <1>2 DEF HashNear
<1>8. CookieOwn'
  <2> SUFFICES ASSUME NEW q \in Slots \ {p}, at'[q] \in {"setenv", "open", "unlink", "unset"}
               PROVE  /\ at'[q] \in {"setenv", "open"} => file'[q] = request'[q].user
                      /\ ~mixed'[q] /\ at'[q] = "open" => env' = q
                      /\ ~mixed'[q] /\ at'[q] \in {"unlink", "unset"} => verdict'[q] = CookieVerdict(request'[q])
    BY <1>1 DEF CookieOwn, CookieVerdict
  <2>1. /\ at'[q] = at[q] /\ request'[q] = request[q] /\ verdict'[q] = verdict[q]
        /\ ~mixed'[q] => ~mixed[q]
    BY <1>2, <1>3
  <2> QED BY <1>1, <2>1 DEF CookieOwn
<1>9. ResultOwn'
  <2> SUFFICES ASSUME NEW q \in Slots \ {p}, at'[q] = "give", ~mixed'[q]
               PROVE  result'[Head(todo'[q])] = q
    BY <1>1 DEF ResultOwn
  <2>1. at'[q] = at[q] /\ todo'[q] = todo[q] /\ ~mixed[q]
    BY <1>2, <1>3
  <2> QED BY <1>1, <2>1 DEF ResultOwn
<1> QED BY <1>4, <1>6, <1>7, <1>8, <1>9

LEMMA HashShared == ASSUME Inv, Shared, NEW p \in Slots, Hash(p), Step(p), ~Crash PROVE Shared'
<1> USE DEF Shared, InLogin, Window
<1>1. /\ at[p] = "hash" /\ at'[p] = "compare"
      /\ UNCHANGED <<database, todo, request, verdict, env, file, entry, result>>
  BY DEF Hash, Goto, Inv, TypeOK
<1>2. \A q \in Slots \ {p} : at'[q] = at[q]
  BY Others
<1>3. /\ \A q \in Slots : mixed[q] => mixed'[q]
      /\ \A q \in Slots \ {p} : mixed'[q] = (mixed[q] \/ InLogin(q))
      /\ hash' = Torn => mixed'[p]
  BY DEF Hash, Disturbs, Inv, TypeOK
<1>4. \A q \in Slots : near'[q] = (near[q] \/ ((q = p \/ InLogin(q)) /\ IsSomebodys(request[p].pass)))
  BY DEF Hash
<1>5. hash' = [pass |-> request[p].pass, salt |-> IF database = "shadow" THEN entry ELSE "fixed"]
      \/ hash' = Torn
  BY DEF Hash
<1>6. Told'
  BY <1>1, <1>2, <1>3, <1>4 DEF Told
<1>7. BuffersOwn'
  <2>1. ~mixed[p] /\ database = "shadow" => entry = request[p].user
    BY <1>1 DEF BuffersOwn, Inv, Phase
  <2>2. ~mixed'[p] => hash' = [pass |-> request[p].pass,
                               salt |-> IF database = "shadow" THEN request[p].user ELSE "fixed"]
    BY <1>3, <1>5, <2>1
  <2> QED BY <1>1, <1>2, <1>3, <2>2 DEF BuffersOwn
<1>8. HashNear'
  <2>1. hash' # Torn => hash'.pass = request[p].pass
    BY <1>5
  <2>2. \A q \in Slots : at'[q] = "compare" => q = p \/ InLogin(q)
    BY <1>2
  <2>3. \A q \in Slots : at'[q] = "expiry" => at[q] = "expiry"
    BY <1>1, <1>2
  <2> QED BY <1>1, <1>4, <2>1, <2>2, <2>3 DEF HashNear, IsSomebodys
<1>9. CookieOwn' /\ ResultOwn'
  BY <1>1, <1>2, <1>3 DEF CookieOwn, ResultOwn, CookieVerdict
<1> QED BY <1>6, <1>7, <1>8, <1>9

LEMMA CompareShared == ASSUME Inv, Shared, NEW p \in Slots, Compare(p), Step(p), ~Crash PROVE Shared'
<1> USE DEF Shared, InLogin, Window
<1>1. /\ at[p] = "compare" /\ at'[p] \in {"step", "expiry"}
      /\ UNCHANGED <<database, env, file, entry, result>>
  BY CheckMoves DEF Compare, Goto, Judge, Inv, TypeOK
<1>2. \A q \in Slots \ {p} : /\ at'[q] = at[q] /\ todo'[q] = todo[q] /\ request'[q] = request[q]
                            /\ verdict'[q] = verdict[q]
  BY Others
<1>3. \A q \in Slots \ {p} : (mixed'[q] = mixed[q]) /\ (near'[q] = near[q])
  BY DEF Compare, Judge, history, Inv, TypeOK
<1>4. at'[p] = "step" => ~mixed'[p] /\ ~near'[p]
  BY <1>1 DEF Compare, Judge, Goto, Inv, TypeOK
<1>5. at'[p] = "expiry" => /\ database = "shadow" /\ hash = Held(p)
                           /\ UNCHANGED <<request, mixed, near>>
  BY <1>1, CheckMoves DEF Compare, Judge, history
<1>6. /\ \A q \in Slots \ {p} : at[q] = "compare" => hash' = hash
      /\ hash' = hash \/ hash' = Torn
  BY DEF Compare
<1>7. Told'
  BY <1>1, <1>2, <1>3, <1>4, <1>5 DEF Told
<1>8. BuffersOwn'
  <2>1. ASSUME at'[p] = "expiry", ~mixed'[p] PROVE /\ request'[p].user \in Users => entry = request'[p].user
                                                   /\ Password[request'[p].user] = request'[p].pass
    <3>1. ~mixed[p] /\ request[p].user \in Users /\ hash = Stored(entry) /\ database = "shadow"
      BY <1>1, <1>5, <2>1 DEF Held, Inv, Phase
    <3>2. entry = request[p].user /\ hash.pass = request[p].pass
      BY <1>1, <3>1 DEF BuffersOwn
    <3> QED BY <1>5, <2>1, <3>1, <3>2 DEF Stored
  <2> SUFFICES ASSUME NEW q \in Slots \ {p}, ~mixed'[q], InLogin(q)'
               PROVE  /\ database' \in {"shadow", "passwd"} /\ request'[q].user \in Users => entry' = request'[q].user
                      /\ at'[q] = "compare" => hash' = [pass |-> request'[q].pass,
                                                       salt |-> IF database' = "shadow" THEN request'[q].user ELSE "fixed"]
                      /\ at'[q] = "expiry" => Password[request'[q].user] = request'[q].pass
    BY <1>1, <2>1 DEF BuffersOwn
  <2>2. at'[q] = at[q] /\ request'[q] = request[q] /\ ~mixed[q] /\ (at[q] = "compare" => hash' = hash)
    BY <1>2, <1>3, <1>6
  <2> QED BY <1>1, <2>2 DEF BuffersOwn
<1>9. HashNear'
  <2>1. at'[p] = "expiry" => database = "shadow" /\ near'[p]
    <3> SUFFICES ASSUME at'[p] = "expiry" PROVE database = "shadow" /\ near'[p]
      OBVIOUS
    <3>1. hash = Stored(entry) /\ database = "shadow" /\ entry \in Users /\ near' = near
      BY <1>5 DEF Held, Inv, TypeOK
    <3>2. hash # Torn /\ IsSomebodys(hash.pass)
      BY <3>1, NameAssumption, UserAssumption DEF Stored, Torn, IsSomebodys
    <3> QED BY <1>1, <3>1, <3>2 DEF HashNear
  <2>2. ASSUME NEW q \in Slots \ {p}
        PROVE  /\ at'[q] = "compare" /\ hash' # Torn /\ IsSomebodys(hash'.pass) => near'[q]
               /\ at'[q] = "expiry" => database' = "shadow" /\ near'[q]
    <3>1. at'[q] = at[q] /\ (near'[q] = near[q]) /\ (hash' = hash \/ hash' = Torn)
      BY <1>2, <1>3, <1>6
    <3> QED BY <1>1, <3>1 DEF HashNear
  <2> QED BY <1>1, <2>1, <2>2 DEF HashNear, IsSomebodys
<1>10. CookieOwn'
  BY <1>1, <1>2, <1>3 DEF CookieOwn, CookieVerdict
<1>11. ResultOwn'
  BY <1>1, <1>2, <1>3 DEF ResultOwn
<1> QED BY <1>7, <1>8, <1>9, <1>10, <1>11

LEMMA ExpiryShared == ASSUME Inv, Shared, NEW p \in Slots, Expiry(p), Step(p), ~Crash PROVE Shared'
<1> USE DEF Shared, InLogin, Window
<1>1. /\ at[p] = "expiry" /\ at'[p] = "step" /\ database' = database
      /\ UNCHANGED <<env, file, hash, entry, result>>
  BY CheckMoves DEF Expiry, Judge, sharedVars
<1>2. \A q \in Slots \ {p} : /\ at'[q] = at[q] /\ todo'[q] = todo[q] /\ request'[q] = request[q]
                            /\ verdict'[q] = verdict[q]
  BY Others
<1>3. /\ \A q \in Slots \ {p} : (mixed'[q] = mixed[q]) /\ (near'[q] = near[q])
      /\ ~mixed'[p] /\ ~near'[p]
  BY DEF Expiry, Judge, Inv, TypeOK
<1>4. Told'
  BY <1>1, <1>2, <1>3 DEF Told
<1>5. BuffersOwn' /\ HashNear'
  BY <1>1, <1>2, <1>3 DEF BuffersOwn, HashNear
<1>6. CookieOwn' /\ ResultOwn'
  BY <1>1, <1>2, <1>3 DEF CookieOwn, CookieVerdict, ResultOwn
<1> QED BY <1>4, <1>5, <1>6

\* The steps of the other check, and of the static variables, leave the buffers alone.
LEMMA BuffersShared ==
    ASSUME Inv, Shared, NEW p \in Slots, UNCHANGED <<database, hash, entry, near>>,
           \A q \in Slots \ {p} : at'[q] = at[q] /\ request'[q] = request[q],
           \A q \in Slots : ~mixed'[q] => ~mixed[q] \/ q = p,
           ~InLogin(p), ~InLogin(p)'
    PROVE  BuffersOwn' /\ HashNear'
<1> USE DEF Shared, InLogin
<1>1. ASSUME NEW q \in Slots \ {p}, ~mixed'[q]
      PROVE  at'[q] = at[q] /\ request'[q] = request[q] /\ ~mixed[q]
  BY <1>1
<1>2. BuffersOwn'
  BY <1>1 DEF BuffersOwn
<1>3. HashNear'
  BY DEF HashNear
<1> QED BY <1>2, <1>3

LEMMA CookieShared ==
    ASSUME Inv, Shared, NEW p \in Slots, Step(p), ~Crash,
           FillFile(p) \/ SetEnv(p) \/ OpenDisplay(p) \/ RemoveFile(p) \/ UnsetEnv(p)
    PROVE  Shared'
<1> USE DEF Shared, InLogin, Window
<1>1. /\ at[p] \in {"fill", "setenv", "open", "unlink", "unset"}
      /\ at'[p] \in {"setenv", "open", "unlink", "unset", "step"}
      /\ UNCHANGED <<database, hash, entry, near, result>>
  BY CheckMoves DEF FillFile, SetEnv, OpenDisplay, RemoveFile, UnsetEnv, Goto, sharedVars, history, Inv, TypeOK
<1>2. \A q \in Slots \ {p} : /\ at'[q] = at[q] /\ todo'[q] = todo[q] /\ request'[q] = request[q]
                            /\ verdict'[q] = verdict[q] /\ file'[q] = file[q]
  BY Others
<1>3. \A q \in Slots : ~mixed'[q] => ~mixed[q] \/ q = p
  BY DEF FillFile, SetEnv, OpenDisplay, RemoveFile, UnsetEnv, Redirects, history, Inv, TypeOK
<1>4. /\ \A q \in Slots \ {p} : mixed'[q] => mixed[q] \/ at[q] = "open"
      /\ mixed'[p] => mixed[p] /\ at'[p] # "step" /\ (at'[p] = "setenv" => at[p] = "fill")
  BY <1>1 DEF FillFile, SetEnv, OpenDisplay, RemoveFile, UnsetEnv, Redirects, Goto, history, Inv, TypeOK
<1>5. Told'
  BY <1>1, <1>2, <1>4 DEF Told
<1>6. BuffersOwn' /\ HashNear'
  BY <1>1, <1>2, <1>3, BuffersShared
<1>7. ASSUME NEW q \in Slots \ {p}
      PROVE  /\ at'[q] \in {"setenv", "open"} => file'[q] = request'[q].user
             /\ ~mixed'[q] /\ at'[q] = "open" => env' = q
             /\ ~mixed'[q] /\ at'[q] \in {"unlink", "unset"} => verdict'[q] = CookieVerdict(request'[q])
  <2>1. /\ at'[q] = at[q] /\ request'[q] = request[q] /\ verdict'[q] = verdict[q] /\ file'[q] = file[q]
        /\ ~mixed'[q] => ~mixed[q]
    BY <1>2, <1>3
  <2>2. ~mixed'[q] /\ at[q] = "open" => env' = env
    BY DEF FillFile, SetEnv, OpenDisplay, RemoveFile, UnsetEnv, Redirects, sharedVars
  <2> QED BY <2>1, <2>2 DEF CookieOwn
<1>8. /\ at'[p] \in {"setenv", "open"} => file'[p] = request'[p].user
      /\ ~mixed'[p] /\ at'[p] = "open" => env' = p
      /\ ~mixed'[p] /\ at'[p] \in {"unlink", "unset"} => verdict'[p] = CookieVerdict(request'[p])
  <2> USE DEF Inv, TypeOK, Goto
  <2>1. CASE FillFile(p) \/ SetEnv(p)
    BY <2>1 DEF FillFile, SetEnv, CookieOwn
  <2>2. CASE OpenDisplay(p)
    <3>1. at[p] = "open" /\ at'[p] = "unlink" /\ mixed' = mixed /\ request' = request
      BY <2>2 DEF OpenDisplay, history
    <3>2. request[p].user \in {"right", "wrong"} /\ request[p].pass # "elsewhere"
      BY <3>1, InCheck DEF Phase, InCookie
    <3>3. ~mixed[p] => env = p /\ file[p] = request[p].user /\ p # "unset"
      BY <3>1, NameAssumption DEF CookieOwn
    <3>4. ~mixed[p] => verdict'[p] = IF file[p] = "right" THEN "OK" ELSE "XAUTH_ERROR"
      BY <2>2, <3>3 DEF OpenDisplay, Says
    <3> QED BY <3>1, <3>2, <3>3, <3>4 DEF CookieVerdict
  <2>3. CASE RemoveFile(p)
    <3>1. at[p] = "unlink" /\ at'[p] = "unset" /\ UNCHANGED <<mixed, verdict, request>>
      BY <2>3 DEF RemoveFile, history
    <3> QED BY <3>1 DEF CookieOwn, CookieVerdict
  <2>4. CASE UnsetEnv(p)
    BY <2>4, CheckMoves DEF UnsetEnv
  <2> QED BY <1>1, <2>1, <2>2, <2>3, <2>4
<1>9. CookieOwn'
  BY <1>7, <1>8 DEF CookieOwn, CookieVerdict
<1>10. ResultOwn'
  <2>1. ASSUME NEW q \in Slots \ {p}, ~mixed'[q]
        PROVE  at'[q] = at[q] /\ todo'[q] = todo[q] /\ ~mixed[q]
    BY <1>2, <1>3, <2>1
  <2> QED BY <1>1, <2>1 DEF ResultOwn
<1> QED BY <1>5, <1>6, <1>9, <1>10

LEMMA StaticShared == ASSUME Inv, Shared, NEW p \in Slots, Put(p) \/ Give(p), Step(p), ~Crash PROVE Shared'
<1> USE DEF Shared, InLogin, Window
<1>1. /\ at[p] \in {"step", "give"} /\ at'[p] \in {"step", "give"}
      /\ UNCHANGED <<database, hash, entry, near, env, file>>
  BY DEF Put, Give, Begins, StepDone, Goto, Inv, TypeOK
<1>2. \A q \in Slots \ {p} : /\ at'[q] = at[q] /\ todo'[q] = todo[q] /\ request'[q] = request[q]
                            /\ verdict'[q] = verdict[q]
  BY Others
<1>3. \A q \in Slots : ~mixed'[q] => ~mixed[q] \/ q = p
  BY DEF Put, Give, Inv, TypeOK
<1>4. /\ \A q \in Slots \ {p} : mixed'[q] => mixed[q] \/ at[q] = "give"
      /\ mixed'[p] => mixed[p] /\ at[p] = "step"
  BY <1>1 DEF Put, Give, GivesToo, Begins, Inv, TypeOK
<1>5. Told'
  BY <1>1, <1>2, <1>4 DEF Told
<1>6. BuffersOwn' /\ HashNear'
  BY <1>1, <1>2, <1>3, BuffersShared
<1>7. ASSUME NEW q \in Slots \ {p}
      PROVE  /\ at'[q] = at[q] /\ todo'[q] = todo[q] /\ request'[q] = request[q] /\ verdict'[q] = verdict[q]
             /\ ~mixed'[q] => ~mixed[q]
  BY <1>2, <1>3
<1>8. CookieOwn'
  BY <1>1, <1>7 DEF CookieOwn, CookieVerdict
<1>9. ResultOwn'
  <2> USE DEF Inv, TypeOK
  <2>1. ASSUME NEW q \in Slots \ {p}, at[q] = "give", ~mixed'[q]
        PROVE  result'[Head(todo[q])] = result[Head(todo[q])]
    <3>1. CASE Put(p)
      <4>1. q \notin GivesToo(p)
        BY <2>1, <3>1 DEF Put
      <4>2. Head(todo[p]) # Head(todo[q]) /\ Head(todo[q]) \in Statics
        BY <2>1, <4>1 DEF GivesToo, Phase
      <4> QED BY <3>1, <4>2 DEF Put
    <3>2. CASE Give(p)
      <4>1. q \notin GivesToo(p) => Head(todo[p]) # Head(todo[q]) /\ Head(todo[q]) \in Statics
        BY <2>1 DEF GivesToo, Phase
      <4> QED BY <3>2, <4>1 DEF Give
    <3> QED BY <3>1, <3>2
  <2>2. at'[p] = "give" => result'[Head(todo'[p])] = p
    <3>1. CASE Put(p)
      BY <3>1 DEF Put, Begins
    <3>2. CASE Give(p)
      BY <3>2 DEF Give, StepDone
    <3> QED BY <3>1, <3>2
  <2> QED BY <1>7, <2>1, <2>2 DEF ResultOwn
<1> QED BY <1>5, <1>6, <1>8, <1>9

LEMMA StepShared == Inv /\ Shared /\ [Next]_vars => Shared'
<1> SUFFICES ASSUME Inv, Shared, [Next]_vars PROVE Shared'
  OBVIOUS
<1> USE DEF Inv, TypeOK
<1>1. CASE Crash
  BY <1>1 DEF Crash, Everywhere, Shared, Told, BuffersOwn, HashNear, CookieOwn, ResultOwn, InLogin, Window
<1>2. ASSUME NEW p \in Slots, NEW m \in Methods, Call(p, m) PROVE Shared'
  <2>1. /\ database' = database /\ UNCHANGED <<env, hash, entry, result, mixed, near>>
        /\ at[p] = "free" /\ at'[p] = "step"
        /\ \A q \in Slots \ {p} : /\ at'[q] = at[q] /\ todo'[q] = todo[q] /\ request'[q] = request[q]
                                /\ verdict'[q] = verdict[q] /\ file'[q] = file[q]
    BY <1>2 DEF Call, sharedVars, history
  <2> QED BY <2>1, QuietShared
<1>3. ASSUME NEW p \in Slots, Step(p), ~Crash PROVE Shared'
  <2>1. CASE Command(p) \/ Answer(p) \/ MakeFile(p)
    <3>1. /\ UNCHANGED <<env, hash, entry, result, mixed, near>>
          /\ at[p] = "step" /\ at'[p] \in {"free", "step", "fill"}
      BY <1>3, <2>1, CheckMoves
         DEF Command, Answer, MakeFile, Begins, StepDone, Refuse, Goto, sharedVars, history
    <3> QED BY <1>3, <3>1, Others, QuietShared
  <2>2. CASE LookUp(p) \/ Hash(p) \/ Compare(p) \/ Expiry(p)
    BY <1>3, <2>2, LookUpShared, HashShared, CompareShared, ExpiryShared
  <2>3. CASE FillFile(p) \/ SetEnv(p) \/ OpenDisplay(p) \/ RemoveFile(p) \/ UnsetEnv(p)
    BY <1>3, <2>3, CookieShared
  <2>4. CASE Put(p) \/ Give(p)
    BY <1>3, <2>4, StaticShared
  <2> QED BY <1>3, <2>1, <2>2, <2>3, <2>4 DEF Step
<1>4. CASE Restart \/ UNCHANGED vars
  BY <1>4 DEF Restart, vars, callVars, sharedVars, history, Shared, Told, BuffersOwn, HashNear, CookieOwn,
              ResultOwn, InLogin, Window, CookieVerdict, IsSomebodys
<1> QED BY <1>1, <1>2, <1>3, <1>4 DEF Next

LEMMA IInvAlways == Spec => []IInv
<1>1. Init => Pending /\ Shared
  BY EmptyShape DEF Init, Everywhere, NoRequest, Pending, Shared, Told, BuffersOwn, HashNear, CookieOwn, ResultOwn, InLogin, Window
<1>2. IInv /\ [Next]_vars => IInv'
  BY StepInv, StepPending, StepShared DEF IInv
<1>3. Init => IInv
  BY InitInv, <1>1 DEF IInv
<1> QED BY <1>2, <1>3, PTL DEF Spec
------------------------------------------------------------------------------
\* The verdict with which a step ends the check of its call.
LEMMA JudgedVerdict ==
    ASSUME Inv, Pending, Shared, NEW p \in Slots, Step(p), ~Crash, Judged(p)
    PROVE  /\ mixed[p] \/ verdict'[p] \in {"BAD_FDTEMP", Verdict(request[p])}
           /\ request[p].kind = "login" /\ verdict'[p] = "OK" => near[p]
<1> USE DEF Shared, InLogin, Window
<1>1. CASE LookUp(p)
  <2>1. at[p] = "step" /\ request[p] \in Logins /\ request[p].kind = "login"
    BY <1>1, InCheck DEF LookUp, Begins
  <2>2. \/ database = "none" /\ Checked(p, "ERROR")
        \/ request[p].user # Owner /\ database = "tcospasswd" /\ Checked(p, "NOUSER")
        \/ request[p].user \notin Users /\ database = "shadow" /\ Checked(p, "NOUSER")
        \/ request' = request
    BY <1>1 DEF LookUp
  <2> QED BY <2>1, <2>2, CheckMoves DEF Judged, Verdict, LoginVerdict
<1>2. CASE Compare(p)
  <2>1. /\ at[p] = "compare" /\ request[p] \in Logins /\ request[p].kind = "login" /\ database # "none"
        /\ database = "tcospasswd" => request[p].user = Owner
        /\ database = "shadow" => request[p].user \in Users
    BY <1>2, InCheck DEF Compare, Inv, Phase
  <2>2. /\ verdict'[p] = IF hash = Held(p) THEN "OK" ELSE "NOPASS"
        /\ ~(hash = Held(p) /\ database = "shadow")
    BY <1>2, CheckMoves DEF Compare, Judge, Judged
  <2>3. database \in {"tcospasswd", "shadow", "passwd"}
    BY <2>1 DEF Inv, TypeOK, Databases
  <2>4. ASSUME ~mixed[p] PROVE verdict'[p] = Verdict(request[p])
    <3>1. /\ hash = [pass |-> request[p].pass, salt |-> IF database = "shadow" THEN request[p].user ELSE "fixed"]
          /\ database \in {"shadow", "passwd"} /\ request[p].user \in Users => entry = request[p].user
      BY <2>1, <2>4 DEF BuffersOwn
    <3>2. CASE database = "tcospasswd"
      BY <2>1, <2>2, <3>1, <3>2 DEF Held, Stored, Verdict, LoginVerdict
    <3>3. CASE database = "shadow"
      BY <2>1, <2>2, <3>1, <3>3 DEF Held, Stored, Verdict, LoginVerdict
    <3>4. CASE database = "passwd"
      BY <2>1, <2>2, <3>1, <3>4 DEF Held, Stored, Verdict, LoginVerdict
    <3> QED BY <2>3, <3>2, <3>3, <3>4
  <2>5. ASSUME verdict'[p] = "OK" PROVE near[p]
    <3>1. hash = Held(p) /\ database \in {"tcospasswd", "passwd"}
      BY <2>2, <2>3, <2>5
    <3>2. hash.salt \in Users \union {"fixed", "torn"} /\ Owner \in Users /\ entry \in Users
      BY UserAssumption DEF Inv, TypeOK
    <3>3. hash.salt # "none"
      BY <3>2, UserAssumption, NameAssumption
    <3>4. \E u \in Users : hash = [pass |-> Password[u], salt |-> "fixed"]
      BY <3>1, <3>2, <3>3 DEF Held, Stored
    <3>5. hash # Torn /\ IsSomebodys(hash.pass)
      BY <3>4 DEF Torn, IsSomebodys
    <3> QED BY <2>1, <3>5 DEF HashNear
  <2> QED BY <2>4, <2>5
<1>3. CASE Expiry(p)
  <2>1. /\ at[p] = "expiry" /\ request[p] \in Logins /\ request[p].kind = "login"
        /\ database = "shadow" /\ request[p].user \in Users /\ near[p]
    BY <1>3, InCheck DEF Expiry, Inv, Phase, HashNear
  <2>2. verdict'[p] = IF entry \in Expired THEN "EXPIRED" ELSE "OK"
    BY <1>3, CheckMoves DEF Expiry, Judge
  <2>3. ~mixed[p] => entry = request[p].user /\ Password[request[p].user] = request[p].pass
    BY <2>1 DEF BuffersOwn
  <2> QED BY <2>1, <2>2, <2>3 DEF Verdict, LoginVerdict
<1>4. CASE MakeFile(p)
  <2>1. /\ request[p] \in Cookies /\ request[p].kind = "cookie"
        /\ request[p].pass \in {"name", "address", "elsewhere"}
    BY <1>4, InCheck DEF MakeFile, Begins
  <2>2. \/ request[p].pass = "elsewhere" /\ Checked(p, "BAD_HOSTNAME")
        \/ Checked(p, "BAD_FDTEMP")
    BY <1>4, <2>1 DEF MakeFile, IsAddress, Judged
  <2> QED BY <2>1, <2>2, CheckMoves DEF Verdict, CookieVerdict
<1>5. CASE UnsetEnv(p)
  <2>1. at[p] = "unset" /\ request[p].kind = "cookie" /\ verdict'[p] = verdict[p]
    BY <1>5, InCheck, CheckMoves DEF UnsetEnv, Inv, Phase, InCookie
  <2> QED BY <2>1 DEF CookieOwn, Verdict
<1>6. CASE Command(p) \/ Answer(p) \/ Hash(p) \/ FillFile(p) \/ SetEnv(p) \/ OpenDisplay(p)
           \/ RemoveFile(p) \/ Put(p) \/ Give(p)
  BY <1>6 DEF Judged, Command, Answer, Hash, FillFile, SetEnv, OpenDisplay, RemoveFile, Put, Give
<1> QED BY <1>1, <1>2, <1>3, <1>4, <1>5, <1>6 DEF Step

\* No other step ends a check.
LEMMA OnlyStepsJudge ==
    ASSUME Inv, Pending, [Next]_vars, NEW p \in Slots, Judged(p)
    PROVE  Step(p) /\ ~Crash
<1>1. ~Crash
  BY DEF Crash, Judged
<1>2. ASSUME NEW q \in Slots, NEW m \in Methods, Call(q, m) PROVE FALSE
  <2>1. todo[q] = << >>
    BY <1>2 DEF Call, Pending
  <2>2. ~Has(todo[q], "login") /\ ~Has(todo[q], "cookie")
    BY <2>1, EmptyShape
  <2>3. request[q] = NoRequest
    BY <2>2 DEF Pending
  <2>4. p # q => request'[p] = request[p]
    BY <1>2 DEF Call, Inv, TypeOK
  <2> QED BY <2>3, <2>4 DEF Judged
<1>3. ASSUME NEW q \in Slots \ {p}, Step(q) PROVE FALSE
  <2>1. p \in Slots \ {q}
    OBVIOUS
  <2>2. request'[p] = request[p]
    BY <1>1, <1>3, <2>1, Others
  <2> QED BY <2>2 DEF Judged
<1>4. ~(Restart \/ UNCHANGED vars)
  BY DEF Restart, vars, callVars, Judged
<1> QED BY <1>1, <1>2, <1>3, <1>4 DEF Next

\* An answer of another call is only given where two calls have answers in one variable.
LEMMA OthersAnswer ==
    ASSUME Inv, Shared, [Next]_vars, NEW p \in Slots, verdict'[p] = "another's answer", verdict[p] # verdict'[p]
    PROVE  mixed[p]
<1>1. ~Crash
  BY DEF Crash, Everywhere
<1>2. Step(p)
  <2>1. ~(Restart \/ UNCHANGED vars)
    BY DEF Restart, vars, callVars
  <2>2. ~\E q \in Slots, m \in Methods : Call(q, m)
    BY DEF Call
  <2>3. ASSUME NEW q \in Slots \ {p}, Step(q) PROVE FALSE
    <3>1. p \in Slots \ {q}
      OBVIOUS
    <3> QED BY <1>1, <2>3, <3>1, Others
  <2> QED BY <2>1, <2>2, <2>3 DEF Next
<1>3. ~(Command(p) \/ Answer(p) \/ Hash(p) \/ FillFile(p) \/ SetEnv(p) \/ OpenDisplay(p) \/ RemoveFile(p) \/ Put(p))
  BY <1>1 DEF Inv, TypeOK, Command, Answer, Hash, FillFile, SetEnv, OpenDisplay, RemoveFile, Put, Says
<1>4. ~(LookUp(p) \/ Compare(p) \/ Expiry(p) \/ MakeFile(p) \/ UnsetEnv(p))
  <2>1. \A v : Checked(p, v) => verdict'[p] = v
    BY CheckMoves
  <2>2. ~LookUp(p)
    BY <2>1 DEF LookUp
  <2>3. ~(Compare(p) \/ Expiry(p))
    BY <2>1 DEF Compare, Expiry, Judge
  <2>4. ~(MakeFile(p) \/ UnsetEnv(p))
    BY <2>1 DEF MakeFile, UnsetEnv
  <2> QED BY <2>2, <2>3, <2>4
<1>5. Give(p)
  BY <1>2, <1>3, <1>4 DEF Step
<1>6. at[p] = "give" /\ result[Head(todo[p])] # p
  BY <1>5 DEF Give, Says, Inv, TypeOK
<1> QED BY <1>6 DEF Shared, ResultOwn

\* A call gets the verdict its own credentials deserve, and its own answer, unless another
\* call's check or answer came between (validate-shadow.c:68, xauth.c:87,
\* get_screenshot.c:45): for any number of threads, users and passwords.
THEOREM OwnVerdictAlways == Spec => OwnVerdict
<1>1. IInv /\ [Next]_vars
      => [\A p \in Slots : /\ Judged(p) => mixed[p] \/ verdict'[p] \in {"BAD_FDTEMP", Verdict(request[p])}
                           /\ verdict'[p] = "another's answer" /\ verdict[p] # verdict'[p] => mixed[p]]_vars
  <2> SUFFICES ASSUME Inv, Pending, Shared, [Next]_vars, NEW p \in Slots
               PROVE  /\ Judged(p) => mixed[p] \/ verdict'[p] \in {"BAD_FDTEMP", Verdict(request[p])}
                      /\ verdict'[p] = "another's answer" /\ verdict[p] # verdict'[p] => mixed[p]
    BY DEF IInv
  <2> QED BY OnlyStepsJudge, JudgedVerdict, OthersAnswer
<1> QED BY IInvAlways, <1>1, PTL DEF Spec, OwnVerdict

\* Whatever checks overlap in the buffers of crypt() and getspnam(), nobody is logged in
\* when no call has presented a password of some user since the check began.
THEOREM LoginsAreSomebodysAlways == Spec => LoginsAreSomebodys
<1>1. IInv /\ [Next]_vars
      => [\A p \in Slots : Judged(p) /\ request[p].kind = "login" /\ verdict'[p] = "OK" => near[p]]_vars
  <2> SUFFICES ASSUME Inv, Pending, Shared, [Next]_vars, NEW p \in Slots,
                      Judged(p), request[p].kind = "login", verdict'[p] = "OK"
               PROVE  near[p]
    BY DEF IInv
  <2> QED BY OnlyStepsJudge, JudgedVerdict
<1> QED BY IInvAlways, <1>1, PTL DEF Spec, LoginsAreSomebodys
===============================================================================
