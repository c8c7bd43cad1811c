---------------------------- MODULE BalloonConfig ----------------------------
(***************************************************************************)
(* parse_balloon and BalloonConfig::check (src/machine_manager/src/config *)
(* /balloon.rs) over one VmConfig: the one-balloon-per-VM test on         *)
(* dev_name, the command-line parse, the defaults, the range checks gated *)
(* by auto-balloon, and the registration in dev_name.                     *)
(*                                                                         *)
(* A command line is abstracted to the options that matter: whether it   *)
(* parses at all (unknown key, bad bus/addr, a value of the wrong type),  *)
(* whether the id is too long, and the auto-balloon, membuf-percent and   *)
(* monitor-interval values, each possibly absent.                         *)
(***************************************************************************)
EXTENDS Integers, Sequences

CONSTANTS
  Absent,     \* an option not given on the command line
  Lines,      \* the command lines tried
  MaxParses   \* bound on parse_balloon calls

MEM_BUFFER_PERCENT_MIN == 20
MEM_BUFFER_PERCENT_MAX == 80
MEM_BUFFER_PERCENT_DEFAULT == 50
MONITOR_INTERVAL_SECOND_MIN == 5
MONITOR_INTERVAL_SECOND_MAX == 300
MONITOR_INTERVAL_SECOND_DEFAULT == 10

VARIABLES
  devName,   \* vm_config.dev_name holds "balloon"
  balloons,  \* the BalloonConfigs parse_balloon returned Ok, in order
  parsed,    \* the parse_balloon calls so far: [line, ok, registered]
  parses     \* number of calls

vars == <<devName, balloons, parsed, parses>>

\* The value of an optional setting: the given one, or the default.
Given(v, default) == IF v = Absent THEN default ELSE v

\* The BalloonConfig the parser builds from a well-formed line.
BuildConfig(l) ==
  [idTooLong        |-> l.idTooLong,
   auto_balloon     |-> Given(l.auto, FALSE),
   membuf_percent   |-> Given(l.membuf, MEM_BUFFER_PERCENT_DEFAULT),
   monitor_interval |-> Given(l.interval, MONITOR_INTERVAL_SECOND_DEFAULT)]

\* BalloonConfig::check: the id length, then, only with auto-balloon, the
\* two ranges.
Check(b) ==
  /\ ~b.idTooLong
  /\ b.auto_balloon =>
       /\ ~(b.membuf_percent > MEM_BUFFER_PERCENT_MAX \/ b.membuf_percent < MEM_BUFFER_PERCENT_MIN)
       /\ ~(b.monitor_interval > MONITOR_INTERVAL_SECOND_MAX \/ b.monitor_interval < MONITOR_INTERVAL_SECOND_MIN)

Init ==
  /\ devName = FALSE
  /\ balloons = << >>
  /\ parsed = << >>
  /\ parses = 0

\* Mutant of ParseBalloon: "balloon" is inserted into dev_name before
\* check() runs, so a line that fails the check still registers.
ParseBalloonEarlyInsert(l) ==
  /\ parses < MaxParses
  /\ LET b  == BuildConfig(l)
         ok == ~devName /\ l.wellFormed /\ Check(b)
     IN /\ devName' = (devName \/ l.wellFormed)
        /\ balloons' = IF ok THEN Append(balloons, b) ELSE balloons
        /\ parsed' = Append(parsed, [line |-> l, ok |-> ok, registered |-> devName])
  /\ parses' = parses + 1

\* parse_balloon: bail if a balloon is registered; parse the line, take
\* the options over the defaults, check, and only then insert "balloon"
\* into dev_name and return the config.
ParseBalloon(l) ==
  /\ parses < MaxParses
  /\ LET b  == BuildConfig(l)
         ok == ~devName /\ l.wellFormed /\ Check(b)
     IN /\ devName' = (devName \/ ok)
        /\ balloons' = IF ok THEN Append(balloons, b) ELSE balloons
        /\ parsed' = Append(parsed, [line |-> l, ok |-> ok, registered |-> devName])
  /\ parses' = parses + 1

Next == \E l \in Lines : ParseBalloon(l)

Spec == Init /\ [][Next]_vars

-----------------------------------------------------------------------------
TypeOK ==
  /\ devName \in BOOLEAN
  /\ parses \in 0 .. MaxParses
  /\ Len(balloons) <= parses /\ Len(parsed) = parses

\* What spec.md 4.5 and the option list say a line is: membuf-percent in
\* 20..=80 (default 50) and monitor-interval in 5..=300 (default 10),
\* checked only with auto-balloon on.
SpecValid(l) ==
  /\ l.wellFormed /\ ~l.idTooLong
  /\ Given(l.auto, FALSE) =>
       /\ Given(l.membuf, 50) \in 20 .. 80
       /\ Given(l.interval, 10) \in 5 .. 300

\* Each parse_balloon call succeeds exactly when no balloon was registered
\* before it and its line is valid by spec.md 4.5; the VM then has
\* "balloon" in dev_name exactly when one call succeeded, so a rejected
\* line never blocks a corrected one and a second balloon never gets in.
ParseAsSpecified ==
  /\ \A i \in 1 .. Len(parsed) :
       parsed[i].ok = (~parsed[i].registered /\ SpecValid(parsed[i].line))
  /\ devName = (Len(balloons) = 1)
  /\ Len(balloons) <= 1

====
