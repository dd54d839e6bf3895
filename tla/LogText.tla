------------------------------- MODULE LogText ------------------------------
(***************************************************************************)
(* What becomes of the text of a log message on its way from a Python      *)
(* program to the daemon, by either client: formatted, cut, encoded,       *)
(* received.                                                               *)
(*                                                                         *)
(* A text is what its handling depends on: how many characters it has, how *)
(* many of them are not ASCII (`wide`, three bytes each in UTF-8), and how *)
(* many directives (%d), doubled percent signs, single percent signs and   *)
(* {} it contains.                                                         *)
(***************************************************************************)
EXTENDS Integers

CONSTANTS
  Overhead, \* bytes of a log datagram around its text
  NULL      \* no text

ASSUME LogAssumption == Overhead \in Nat

\* A text nobody can foretell.
Unforeseen == [chars |-> -1]

\* An exception, instead of a text.
Raised == [chars |-> -2]

\* text % args, of so many arguments: a TypeError unless the directives are as
\* many, a ValueError at a single sign.  A doubled sign becomes a single one.
Percented(text, args) ==
  IF text.single > 0 \/ args # text.directives THEN Raised
  ELSE [text EXCEPT !.chars = @ - text.doubled, !.directives = 0, !.doubled = 0, !.single = text.doubled]

\* text.format(*args), tried after a TypeError: an IndexError if there are too
\* few.
Braced(text, args) ==
  IF text.single > 0 \/ args < text.braces THEN Raised ELSE [text EXCEPT !.braces = 0]

\* robflex_log_message of robflex_api.py, and of pmu_tick_api.py: no arguments,
\* no formatting.
FormattedByApi(text, args) ==
  IF args = 0 THEN text
  ELSE IF Percented(text, args) # Raised THEN Percented(text, args) ELSE Braced(text, args)
FormattedByTick(text, args) == IF args = 0 THEN text ELSE Percented(text, args)

Formatted(lib, text, args) ==
  IF lib = "py" THEN FormattedByApi(text, args) ELSE FormattedByTick(text, args)

\* vsnprintf, that gets the text as its format and no arguments: what follows
\* a single sign or a directive is undefined.
Printed(text) ==
  IF text.directives + text.single > 0 THEN Unforeseen
  ELSE [text EXCEPT !.chars = @ - text.doubled, !.doubled = 0, !.single = text.doubled]

\* Mutant: MAX_LOG_SIZE is too small.
CutShort(text) == IF text.chars > 128 THEN [text EXCEPT !.chars = 128] ELSE text

\* Python cuts at MAX_LOG_SIZE characters, C at one byte less than its own.
CutByPython(text) == IF text.chars > 1024 THEN [text EXCEPT !.chars = 1024] ELSE text
CutByC(bytes) == IF bytes > 511 THEN 511 ELSE bytes

\* The bytes of the datagram: json.dumps writes \uXXXX for what is not ASCII.
\* Quotes and control characters, which both encoders escape, are left out.
Bytes(lib, text) ==
  Overhead + (IF lib = "py" THEN text.chars + 5 * text.wide ELSE CutByC(text.chars + 2 * text.wide))

\* handle_client_request has room for 255 bytes, and a datagram cut short does
\* not parse.
Received(lib, text) == IF Bytes(lib, text) <= 255 THEN text ELSE NULL

\* The whole way, for a command whose datagram is accepted: the text the daemon
\* logs.
Sent(lib, text) ==
  CASE text = Raised -> Raised
    [] text # Raised /\ lib = "py" -> Received("py", CutByPython(text))
    [] text # Raised /\ lib = "c"  ->
         IF Printed(text) = Unforeseen THEN Unforeseen ELSE Received("c", Printed(text))
Logged(lib, text, args) == Sent(lib, Formatted(lib, text, args))
=============================================================================
