---------------------------- MODULE NetRxAbstract ----------------------------
(***************************************************************************)
(* What the virtio-net receive path promises the guest, per queue pair:  *)
(* packets the host network sends to the pair wait until the guest has    *)
(* posted receive buffers, and while the pair is served they are          *)
(* delivered into those buffers, each buffer used once.  How the device    *)
(* gets there (taps, epoll, Park and Resume) is left out; NetIo is shown  *)
(* to implement this specification.                                       *)
(***************************************************************************)
EXTENDS Naturals

CONSTANT Pairs

VARIABLES
  serving,  \* the pair has a live handler serving it
  avail,    \* receive buffers posted by the guest and not yet used
  used,     \* receive buffers filled with a packet
  waiting   \* packets sent to the pair and not yet delivered

vars == <<serving, avail, used, waiting>>

Init ==
  /\ serving = [p \in Pairs |-> FALSE]
  /\ avail = [p \in Pairs |-> 0]
  /\ used = [p \in Pairs |-> 0]
  /\ waiting = [p \in Pairs |-> 0]

Start(p) ==
  /\ ~serving[p]
  /\ serving' = [serving EXCEPT ![p] = TRUE]
  /\ UNCHANGED <<avail, used, waiting>>

Stop(p) ==
  /\ serving[p]
  /\ serving' = [serving EXCEPT ![p] = FALSE]
  /\ UNCHANGED <<avail, used, waiting>>

Post(p) ==
  /\ avail' = [avail EXCEPT ![p] = @ + 1]
  /\ UNCHANGED <<serving, used, waiting>>

Arrive(p) ==
  /\ waiting' = [waiting EXCEPT ![p] = @ + 1]
  /\ UNCHANGED <<serving, avail, used>>

\* Some of the waiting packets go into as many posted buffers.
Deliver(p) ==
  /\ serving[p]
  /\ \E k \in 1 .. avail[p] :
       /\ k <= waiting[p]
       /\ avail' = [avail EXCEPT ![p] = @ - k]
       /\ used' = [used EXCEPT ![p] = @ + k]
       /\ waiting' = [waiting EXCEPT ![p] = @ - k]
  /\ UNCHANGED serving

Next == \E p \in Pairs : Start(p) \/ Stop(p) \/ Post(p) \/ Arrive(p) \/ Deliver(p)

\* A served pair with a posted buffer and a waiting packet delivers.
Spec == Init /\ [][Next]_vars /\ \A p \in Pairs : WF_vars(Deliver(p))

====
