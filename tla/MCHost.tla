------------------------------- MODULE MCHost -------------------------------
(***************************************************************************)
(* Two host-side parts of a VM that do not share state, checked in one    *)
(* run: the raw AIO helpers a block backend calls (RawAio) and the        *)
(* balloon option parser run at VM configuration (BalloonConfig).  A step *)
(* is a step of one of them, the other unchanged.                         *)
(***************************************************************************)
EXTENDS Integers, Sequences, TLC

CONSTANTS Absent

VARIABLES pc, call, tries, errno, last, ret, calls,
          devName, balloons, parsed, parses

rvars == <<pc, call, tries, errno, last, ret, calls>>
bvars == <<devName, balloons, parsed, parses>>
vars == <<rvars, bvars>>

\* A line with only the given options set, well formed and with a short id.
Opt(a, m, i) ==
  [wellFormed |-> TRUE, idTooLong |-> FALSE, auto |-> a, membuf |-> m, interval |-> i]

\* Balloon command lines: defaults, each range bound just inside and just
\* outside with auto-balloon on, out-of-range values with it off or
\* absent, an id over the length limit and a line the parser refuses.
MCLines ==
  { Opt(Absent, Absent, Absent), Opt(TRUE, 19, Absent), Opt(TRUE, 80, 300),
    Opt(TRUE, 81, Absent), Opt(TRUE, Absent, 4), Opt(TRUE, 20, 5),
    Opt(Absent, 19, Absent), Opt(FALSE, Absent, 301),
    [Opt(Absent, Absent, Absent) EXCEPT !.idTooLong = TRUE],
    [Opt(TRUE, 20, 5) EXCEPT !.wellFormed = FALSE] }

R == INSTANCE RawAio WITH Width <- 4, Offsets <- {0, 3, 12}, Sizes <- {0, 5, 9},
                          MaxRetries <- 1, MaxCalls <- 2
B == INSTANCE BalloonConfig WITH Lines <- MCLines, MaxParses <- 2

Init == R!Init /\ B!Init

Next == \/ R!Next /\ UNCHANGED bvars
        \/ B!Next /\ UNCHANGED rvars

\* The calling thread of the AIO helpers keeps running while inside one.
Spec == Init /\ [][Next]_vars /\ WF_vars(R!Syscall /\ UNCHANGED bvars)

\* raw.rs: a helper returns the meaning of the kernel's last answer and
\* never a transient EINTR/EAGAIN (the retry loops of raw_read..raw_writev
\* and do_fallocate, and do_fallocate's errno mapping).
ReturnsFinalAnswer == R!ReturnsFinalAnswer

\* raw.rs: every helper call returns under a kernel that gives finitely
\* many EINTR/EAGAIN answers in a row.
CallsReturn == R!CallsReturn

\* balloon.rs: parse_balloon accepts exactly the lines spec 4.5 allows
\* while no balloon is registered, and registers at most one balloon,
\* only on success.
ParseAsSpecified == B!ParseAsSpecified

====
