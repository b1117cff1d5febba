--------------------------- MODULE MCClientLogin ----------------------------
(* Small instances of ClientLogin for TLC. *)
EXTENDS ClientLogin, TLC

CONSTANTS p1, p2, s1, s2

Console(url, psk, setup) == [kind |-> "console", url |-> url, psk |-> psk, setup |-> setup]

\* A first login, a mistyped key at another service, a login on the web, a
\* mistyped URL and the settings form.
MCCommands ==
    {Console(s1, NoKey, "oneoff"), Console(s2, "psk", "malformed"),
     Console(NoURL, NoKey, "none"), Console(BadURL, NoKey, "unknown"),
     [kind |-> "daemon", url |-> s2, psk |-> Stars, setup |-> "none"]}
=============================================================================
