----------------------------- MODULE ProbeModes -----------------------------
(***************************************************************************)
(* The probe modes of networker-tester and everything the engine decides   *)
(* from the mode alone: which tasks a mode expands to, which prober runs   *)
(* it, whether it may be abandoned, gated on HTTP/3 or repeated per HTTP   *)
(* stack.                                                                  *)
(*                                                                         *)
(* A mode is its command-line name, the string Protocol's Display prints.  *)
(***************************************************************************)
EXTENDS Integers, Sequences, FiniteSets, SequencesExt

NoSize == 0              \* Option<usize>::None for a task's payload size

(***************************************************************************)
(* The Protocol enum.                                                      *)
(***************************************************************************)
Protocol ==
  {"tcp", "http1", "http2", "http3", "udp",
   "download", "download1", "download2", "download3",
   "upload", "upload1", "upload2", "upload3", "webdownload", "webupload",
   "udpdownload", "udpupload", "mthroughput", "rpm", "responsiveness", "stamp",
   "ping", "path", "dualstack", "websocket", "pmtud", "dns", "tls", "tlsresume",
   "native", "curl", "pageload", "pageload2", "pageload3",
   "browser", "browser1", "browser2", "browser3", "sdkprobe"}

\* Protocol::from_str: every Display name parses to itself, one alias, the
\* rest is an error (here: the empty set).
from_str(name) ==
  IF name = "tls-resume" THEN {"tlsresume"} ELSE {name} \cap Protocol

\* The shorthand modes of ResolvedConfig::parsed_modes, as sequences.
expand(name) ==
  CASE name = "pageload"  -> <<"pageload", "pageload2", "pageload3">>
    [] name = "pageload1" -> <<"pageload">>
    [] name = "browser"   -> <<"browser1", "browser2", "browser3">>
    [] OTHER              -> SetToSeq(from_str(name))

\* Expanded in order, unknown names dropped, each mode kept once, where it
\* first appeared.
parsed_modes(names) ==
  LET flat == FlattenSeq([i \in DOMAIN names |-> expand(names[i])])
      first(i) == \A j \in 1..(i - 1) : flat[j] # flat[i]
      kept == SelectSeq([i \in DOMAIN flat |-> i], first)
  IN  [k \in DOMAIN kept |-> flat[kept[k]]]

(***************************************************************************)
(* Classes of modes.                                                       *)
(***************************************************************************)
\* The modes that run once per payload size.
SizedModes ==
  {"download", "download1", "download2", "download3",
   "upload", "upload1", "upload2", "upload3",
   "webdownload", "webupload", "udpdownload", "udpupload"}

\* The h3_modes of shared/http-stacks.json, as is_h3_mode reads them.
H3Modes == {"http3", "pageload3", "browser3", "download3", "upload3"}

\* The page modes repeated against every configured HTTP stack.
StackModes ==
  {"pageload", "pageload2", "pageload3",
   "browser", "browser1", "browser2", "browser3"}

\* Mutant: the native prober is left out of the cap.
CappedModesLate ==
  {"tcp", "dns", "tls", "tlsresume", "http1", "http2", "http3", "curl",
   "ping", "path", "pmtud", "dualstack", "udp", "stamp", "websocket", "sdkprobe"}

\* The short diagnostic modes attempt_cap bounds; the others carry budgets of
\* their own.
CappedModes ==
  {"tcp", "dns", "tls", "tlsresume", "http1", "http2", "http3", "curl",
   "native", "ping", "path", "pmtud", "dualstack", "udp", "stamp",
   "websocket", "sdkprobe"}

\* The prober dispatch_once_inner calls for a task; "unreachable" is its
\* panicking last arm.
prober(mode, size) ==
  CASE mode \in SizedModes /\ size # NoSize                      -> mode
    [] mode \in {"http1", "http2", "tcp", "sdkprobe"}            -> "http"
    [] mode \in {"browser", "browser1", "browser2", "browser3"}  -> "browser"
    [] mode \notin SizedModes                                    -> mode
    [] OTHER                                                     -> "unreachable"

\* mode_tasks: modes x payload sizes, in mode order.
mode_tasks(modes, sizes) ==
  FlattenSeq([i \in DOMAIN modes |->
    IF modes[i] \in SizedModes
    THEN [k \in DOMAIN sizes |-> [mode |-> modes[i], size |-> sizes[k]]]
    ELSE <<[mode |-> modes[i], size |-> NoSize]>>])

\* stack_modes: the page modes among them.
stack_modes(modes) == SelectSeq(modes, LAMBDA m : m \in StackModes)

=============================================================================
