----------------------------- MODULE MC_RpcCalls -----------------------------
(* Two threads, methods with all the scripts there are, two users of whom   *)
(* one has expired, one name nobody has.                                    *)
EXTENDS RpcCalls

MCMethods  == {"version", "status", "info", "standalone", "pci", "login", "xauth", "exe",
               "lockscreen", "lockcontroller", "vnc", "vlc", "rtp", "dpms", "dbus", "xorg", "tnc",
               "getscreenshot", "devices", "pamusb", "sound", "config", "rebootpoweroff"}
MCLogin(u, w) == [kind |-> "login", user |-> u, pass |-> w]
MCLogins   == {MCLogin("ann", "a"), MCLogin("ann", "c"), MCLogin("bob", "b"), MCLogin("eve", "c")}
MCCookie(k, h) == [kind |-> "cookie", user |-> k, pass |-> h]
MCCookies  == {MCCookie("right", "name"), MCCookie("wrong", "address"), MCCookie("right", "elsewhere")}
MCPassword == [u \in {"ann", "bob"} |-> IF u = "ann" THEN "a" ELSE "b"]
==============================================================================
