---------------------------- MODULE MCPollLoop -----------------------------
EXTENDS PollLoop, TLC

CONSTANTS pat, t1, t2, t3, h1, h2

MCSegments ==
  {<<"cmd">>, <<"cmd", "big">>, <<"big", "cmd">>, <<"stls">>, <<"stls", "cmd">>, <<"work">>,
   <<"slow">>, <<"quit">>, <<"part">>, <<"part", "cmd">>}

Run(dd, C, t) == [d |-> dd, crowd |-> C, until |-> t, perip |-> 3]
Few(dd, C, t) == [Run(dd, C, t) EXCEPT !.perip = 1]

\* One elaborate client while time passes; two or three plain ones, so that
\* the limits are met and indices move; one connection to an address; the
\* admin's slots.
MCScenarios ==
  {Run(dd, {pat}, 1) : dd \in {"visage", "imapd", "jmapd", "outbox"}}
    \cup {Run(dd, {t1, t2}, 0) : dd \in {"visage", "imapd", "outbox"}}
    \cup {Few("visage", {t1, t2}, 0), Few("imapd", {t1, t2}, 0)}
    \cup {Run("jmapd", {t1, t2, t3}, 0), Run("visage", {h1, h2}, 1),
          Run("visage", {t1, h1, h2}, 0)}
=============================================================================
