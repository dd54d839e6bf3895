-------------------------- MODULE MCPythonBindings --------------------------
(* Texts, demands and candidates of the instances of PythonBindings.         *)
EXTENDS PythonBindings

MCPaths == <<NULL, "librobonix.so">>

\* A throttled demand (slice, budget) and a latency one (target, start, history,
\* used), at two levels.
MCDemands ==
  {[policy |-> 0, aux |-> <<5, 0, 0, 0>>, level |-> 1],
   [policy |-> 3, aux |-> <<6, 7, 8, 9>>, level |-> 2]}

\* As long as the daemon takes and longer, ASCII and not, with and without
\* something to format.
Plain(n) == [chars |-> n, wide |-> 0, directives |-> 0, doubled |-> 0, single |-> 0, braces |-> 0]
MCTexts ==
  {Plain(20), Plain(209), Plain(210), Plain(1100), [Plain(120) EXCEPT !.wide = 20],
   [Plain(20) EXCEPT !.directives = 1], [Plain(20) EXCEPT !.doubled = 1],
   [Plain(20) EXCEPT !.single = 1], [Plain(20) EXCEPT !.braces = 1],
   [Plain(20) EXCEPT !.directives = 1, !.doubled = 1],
   [Plain(20) EXCEPT !.doubled = 1, !.braces = 1]}
=============================================================================
