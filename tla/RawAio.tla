------------------------------- MODULE RawAio -------------------------------
(***************************************************************************)
(* The raw I/O helpers of util::aio (src/util/src/aio/raw.rs): pread,     *)
(* preadv, pwrite and pwritev retried on EINTR and EAGAIN, fdatasync, and *)
(* fallocate for discard and write-zeroes, retried on EINTR, with its     *)
(* errno mapped to -ENOTSUP or -errno.                                    *)
(*                                                                         *)
(* One calling thread makes a bounded number of calls.  Each syscall      *)
(* attempt is a step whose outcome the kernel chooses: success or an      *)
(* errno.  Offsets and sizes are usize/u64 values of Width bits (64 in    *)
(* the code), and `as i64` / `as off_t` is the two's complement cast at   *)
(* that width; the kernel rejects a negative offset or length (EINVAL)    *)
(* and a range past the largest offset (EFBIG).                           *)
(***************************************************************************)
EXTENDS Integers, Sequences

CONSTANTS
  Width,       \* bits of usize/u64 and i64 (64 in the code)
  Offsets,     \* offsets the caller passes (usize)
  Sizes,       \* sizes the caller passes (usize / u64)
  MaxRetries,  \* bound on transient answers (EINTR, EAGAIN) in one call
  MaxCalls     \* bound on the calls the thread makes

ASSUME Width \in Nat \ {0} /\ MaxRetries \in Nat /\ MaxCalls \in Nat
ASSUME Offsets \cup Sizes \subseteq 0 .. 2^Width - 1

\* errno values of Linux x86_64 (libc).
EINTR == 4
EIO == 5
EAGAIN == 11
ENODEV == 19
EINVAL == 22
ENOTTY == 25
EFBIG == 27
ENOSYS == 38
EOPNOTSUPP == 95
ENOTSUP == 95

PCalls == {"read", "readv", "write", "writev"}
FallocCalls == {"discard", "write_zeroes"}
Calls == PCalls \cup FallocCalls \cup {"datasync"}

\* The largest i64 at this width.
MaxSigned == 2^(Width - 1) - 1

VARIABLES
  pc,        \* "idle", "ploop", "sync", "falloc" or "done": where the thread is
  call,      \* the call in progress: [fn, off, size]
  tries,     \* transient answers received in this call
  errno,     \* the thread's errno
  last,      \* the kernel's answer to the last attempt (0: success)
  ret,       \* the value the last call returned
  calls      \* calls made so far

vars == <<pc, call, tries, errno, last, ret, calls>>

NoCall == [fn |-> "none", off |-> 0, size |-> 0]

\* `x as i64` (and `as off_t`) of a usize/u64 value.
AsI64(x) == IF x > MaxSigned THEN x - 2^Width ELSE x

Init ==
  /\ pc = "idle"
  /\ call = NoCall
  /\ tries = 0
  /\ errno = 0
  /\ last = 0
  /\ ret = 0
  /\ calls = 0

\* The caller invokes one of the helpers.  raw_discard and
\* raw_write_zeroes go straight to do_fallocate with their mode.
Begin(f, off, size) ==
  /\ pc \in {"idle", "done"}
  /\ calls < MaxCalls
  /\ call' = [fn |-> f, off |-> off, size |-> size]
  /\ pc' = CASE f \in FallocCalls -> "falloc" [] f = "datasync" -> "sync" [] OTHER -> "ploop"
  /\ calls' = calls + 1
  /\ tries' = 0
  /\ UNCHANGED <<errno, last, ret>>

\* raw_datasync: one fdatasync and no retry, so EINTR is returned as
\* the failure; -1 on any error.
RawDatasync ==
  /\ pc = "sync"
  /\ \E a \in {0, EIO, EINTR} :
       /\ last' = a
       /\ errno' = IF a = 0 THEN errno ELSE a
       /\ ret' = IF a = 0 THEN 0 ELSE -1
  /\ pc' = "done"
  /\ UNCHANGED <<call, tries, calls>>

\* The kernel's answers to one pread/preadv/pwrite/pwritev attempt.
PAnswers(off) ==
  IF AsI64(off) < 0 THEN {EINVAL}
  ELSE {0, EIO} \cup (IF tries < MaxRetries THEN {EINTR, EAGAIN} ELSE {})

\* Mutant of PLoop: the loop retries on every ret < 0, not just on
\* EINTR and EAGAIN.
PLoopRetryAll ==
  /\ pc = "ploop"
  /\ \E a \in PAnswers(call.off) :
       LET r == IF a = 0 THEN call.size ELSE -1 IN
       /\ last' = a
       /\ errno' = IF a = 0 THEN errno ELSE a
       /\ IF r < 0
          THEN /\ tries' = IF a \in {EINTR, EAGAIN} THEN tries + 1 ELSE tries
               /\ UNCHANGED <<pc, ret>>
          ELSE /\ pc' = "done" /\ ret' = r /\ UNCHANGED tries
  /\ UNCHANGED <<call, calls>>

\* One iteration of the loop of raw_read, raw_readv, raw_write and
\* raw_writev (identical but for the syscall): the call, then `break`
\* unless ret < 0 with errno EINTR or EAGAIN; error! on ret < 0.
PLoop ==
  /\ pc = "ploop"
  /\ \E a \in PAnswers(call.off) :
       LET r == IF a = 0 THEN call.size ELSE -1 IN
       /\ last' = a
       /\ errno' = IF a = 0 THEN errno ELSE a
       /\ IF r < 0 /\ a \in {EINTR, EAGAIN}
          THEN /\ tries' = tries + 1 /\ UNCHANGED <<pc, ret>>
          ELSE /\ pc' = "done" /\ ret' = r /\ UNCHANGED tries
  /\ UNCHANGED <<call, calls>>

\* The kernel's answers to one fallocate(fd, mode, offset as i64,
\* size as i64): EINVAL for a negative offset or a length <= 0, EFBIG past
\* the largest offset, otherwise success, an I/O error or one of the
\* errnos of a file system or device that lacks the mode.
FallocAnswers(off, len) ==
  CASE off < 0 \/ len <= 0   -> {EINVAL}
    [] off + len > MaxSigned -> {EFBIG}
    [] OTHER -> {0, EIO, ENODEV, ENOSYS, EOPNOTSUPP, ENOTTY}
                \cup (IF tries < MaxRetries THEN {EINTR} ELSE {})

\* do_fallocate's errno mapping once the loop has broken out.
ErrnoToRet(e) == IF e \in {ENODEV, ENOSYS, EOPNOTSUPP, ENOTTY} THEN -ENOTSUP ELSE -e

\* Mutant of DoFallocate: the loop breaks on EINTR as on any error.
DoFallocateNoRetry ==
  /\ pc = "falloc"
  /\ LET off == AsI64(call.off)
         len == AsI64(call.size)
     IN \E a \in FallocAnswers(off, len) :
          /\ last' = a
          /\ errno' = IF a = 0 THEN errno ELSE a
          /\ pc' = "done" /\ ret' = IF a = 0 THEN 0 ELSE ErrnoToRet(a)
          /\ UNCHANGED tries
  /\ UNCHANGED <<call, calls>>

\* One iteration of do_fallocate's loop: 0 returns 0, EINTR retries,
\* anything else breaks out to the errno mapping.  raw_discard and
\* raw_write_zeroes return its value (they only log).
DoFallocate ==
  /\ pc = "falloc"
  /\ LET off == AsI64(call.off)
         len == AsI64(call.size)
     IN \E a \in FallocAnswers(off, len) :
          /\ last' = a
          /\ errno' = IF a = 0 THEN errno ELSE a
          /\ CASE a = 0     -> pc' = "done" /\ ret' = 0 /\ UNCHANGED tries
                [] a = EINTR -> tries' = tries + 1 /\ UNCHANGED <<pc, ret>>
                [] OTHER     -> pc' = "done" /\ ret' = ErrnoToRet(a) /\ UNCHANGED tries
  /\ UNCHANGED <<call, calls>>

\* The thread's step inside a helper.
Syscall == PLoop \/ RawDatasync \/ DoFallocate

Next ==
  \/ \E f \in Calls, off \in Offsets, size \in Sizes : Begin(f, off, size)
  \/ Syscall

\* The calling thread keeps running while it is inside a helper.
Spec == Init /\ [][Next]_vars /\ WF_vars(Syscall)

-----------------------------------------------------------------------------
TypeOK ==
  /\ pc \in {"idle", "ploop", "sync", "falloc", "done"}
  /\ call \in [fn : Calls \cup {"none"}, off : Offsets \cup {0}, size : Sizes \cup {0}]
  /\ tries \in 0 .. MaxRetries
  /\ calls \in 0 .. MaxCalls
  /\ ret \in Int /\ errno \in Nat /\ last \in Nat

\* A helper returns what the kernel's last answer means, and never a
\* transient one: the pread/pwrite loops return the byte count or -1
\* with errno set, never after EINTR or EAGAIN; do_fallocate returns 0,
\* -ENOTSUP for a file system without the mode, or -errno, never -EINTR.
\* fdatasync is not retried, so only its -1 convention is stated.
ReturnsFinalAnswer ==
  pc = "done" =>
    CASE call.fn \in PCalls ->
           /\ last \notin {EINTR, EAGAIN}
           /\ IF last = 0 THEN ret = call.size ELSE ret = -1 /\ errno = last
      [] call.fn \in FallocCalls ->
           /\ last # EINTR
           /\ ret = CASE last = 0 -> 0
                       [] last \in {ENODEV, ENOSYS, EOPNOTSUPP, ENOTTY} -> -ENOTSUP
                       [] OTHER -> -last
      [] OTHER -> (ret = -1) = (last # 0)

\* Every helper returns: the loops end on every answer but EINTR and
\* EAGAIN, and the kernel gives only MaxRetries of those in a row.
CallsReturn == pc \in {"ploop", "sync", "falloc"} ~> pc = "done"

====
