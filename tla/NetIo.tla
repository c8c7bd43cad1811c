------------------------------- MODULE NetIo -------------------------------
(***************************************************************************)
(* The virtio-net I/O plane of src/virtio/src/net.rs.                      *)
(*                                                                         *)
(* One iothread runs an epoll event loop (util::loop_context, modelled     *)
(* from spec.md 4.1).  Net::activate registers, for every queue pair, a    *)
(* NetIoHandler whose callbacks are bound to five fds: update_evt,         *)
(* deactivate_evt, the rx and tx queue notify eventfds and the tap fd.     *)
(* The vCPU thread calls activate/deactivate, the control thread calls     *)
(* update_config, the guest driver posts buffers and kicks the queues and  *)
(* the host network puts packets into the taps, all concurrently with the  *)
(* iothread.  A callback runs atomically with respect to the other         *)
(* callbacks of the loop; the notifier operations it returns are applied   *)
(* before the next callback (update_events after each event).              *)
(***************************************************************************)
EXTENDS Integers, Sequences, FiniteSets, SequencesExt, Functions

CONSTANTS
  QueuePairs,  \* queue pairs of the device: net_cfg.queues / 2
  MaxGen,      \* bound on the number of activate calls
  MaxUpdates,  \* bound on the number of update_config calls
  MaxRxPost,   \* bound on the rx buffers the guest posts, per pair
  MaxTxPost,   \* bound on the tx buffers the guest posts, per pair
  MaxPkts,     \* bound on the packets the host network sends to the taps
  TxCanFail,   \* whether writev on a tap may fail (tap removed, EIO)
  CtrlVq,      \* VIRTIO_NET_F_CTRL_VQ negotiated and an odd queue count
  CtrlCmds,    \* control commands the driver may send: [class, cmd, pairs]
  MaxCtrl,     \* bound on the control commands the driver posts
  CtrlSync,    \* the driver waits for each command's answer before the next
  NoTap        \* model value: Option<Tap>::None, and tap_fd == -1

ASSUME QueuePairs \in Nat \ {0}
ASSUME MaxGen \in Nat \ {0}
ASSUME {MaxUpdates, MaxRxPost, MaxTxPost, MaxPkts} \subseteq Nat
ASSUME {TxCanFail, CtrlVq, CtrlSync} \subseteq BOOLEAN /\ MaxCtrl \in Nat

Pairs  == 0 .. QueuePairs - 1
Gens   == 1 .. MaxGen
Owners == Gens \X Pairs              \* the NetIoHandler of an activation and pair
CtrlIdx == QueuePairs               \* the ctrl queue follows the pairs' queues
CtrlOwners == Gens \X {CtrlIdx}      \* the NetCtrlHandler of an activation
TapIds == (0 .. MaxUpdates) \X Pairs \* tap opened for pair p by the u-th realize
TapOrNone == TapIds \cup {NoTap}
EvtKinds == {"upd", "deact", "rx", "tx"}
\* A notifier key is the fd it watches: a dup of an eventfd owned by one
\* handler, or a tap fd (shared by the handlers holding clones of the tap).
Keys == (EvtKinds \X Owners) \cup ({"tap"} \X TapIds) \cup ({"ctrlq", "deact"} \X CtrlOwners)
OpKinds == {"AddShared", "Delete", "Park", "Resume"}

VARIABLES
  active,    \* the transport activated the device and has not deactivated it
  gen,       \* number of activate calls so far
  netTaps,   \* Net.taps, per pair (NoTap: None)
  senders,   \* activation whose channel Senders Net.senders holds (0: None)
  updates,   \* number of update_config calls so far
  chan,      \* mpsc channel Net -> handler: queued Option<Tap> values
  lastSent,  \* the value update_config last sent to each pair
  h,         \* NetIoHandler fields tap, tap_fd and is_listening
  reg,       \* event loop: registered fd -> [owners: handler list, alive]
  ready,     \* fds returned by the last epoll_wait and not yet dispatched
  loopErr,   \* update_events returned an error: the iothread's loop stopped
  blocked,   \* a callback blocks for ever in receiver.recv()
  updEvt,    \* Net.update_evt readable (counter > 0)
  deactEvt,  \* Net.deactivate_evt readable
  rxKick,    \* rx queue notify eventfd readable, per pair
  txKick,    \* tx queue notify eventfd readable, per pair
  tapEdge,   \* an edge on the (edge-triggered) tap fd not yet reported
  tapPkts,   \* packets queued in each tap
  rxAvail,   \* rx buffers in the avail ring not yet popped, per pair
  rxUsed,    \* rx buffers returned in the used ring, per pair
  rxPosted,  \* rx buffers the guest has posted, per pair
  txAvail,   \* tx buffers in the avail ring not yet popped, per pair
  txUsed,    \* tx buffers returned in the used ring, per pair
  txPosted,  \* tx buffers the guest has posted, per pair
  arrived,   \* packets the host network has sent
  ctrlAvail, \* control commands in the ctrl queue's avail ring, in order
  ctrlUsed,  \* control commands answered in the used ring
  ctrlPosted,\* control commands the driver has posted
  ctrlKick,  \* ctrl queue notify eventfd readable
  needsReset \* report_virtio_error has set DEVICE_NEEDS_RESET

vars == <<active, gen, netTaps, senders, updates, chan, lastSent, h, reg,
          ready, loopErr, blocked, updEvt, deactEvt, rxKick, txKick, tapEdge,
          tapPkts, rxAvail, rxUsed, rxPosted, txAvail, txUsed, txPosted,
          arrived, ctrlAvail, ctrlUsed, ctrlPosted, ctrlKick, needsReset>>
ctrlVars == <<ctrlAvail, ctrlUsed, ctrlPosted, ctrlKick, needsReset>>

-----------------------------------------------------------------------------
(* Notifier operations returned by callbacks (NotifierOperation).         *)
Op(kind, key, owner) == [op |-> kind, key |-> key, owner |-> owner]
Evt(kind, o) == <<kind, o>>
TapKey(t) == <<"tap", t>>

\* EventNotifierHelper::internal_notifiers for NetIoHandler: AddShared of
\* update_evt, deactivate_evt, rx and tx queue events, and the tap if any.
InternalNotifiers(o, tap) ==
  << Op("AddShared", Evt("upd", o), o), Op("AddShared", Evt("deact", o), o),
     Op("AddShared", Evt("rx", o), o), Op("AddShared", Evt("tx", o), o) >>
  \o (IF tap # NoTap THEN << Op("AddShared", TapKey(tap), o) >> ELSE << >>)

(***************************************************************************)
(* Event loop (spec.md 4.1; util::loop_context is not part of src/).      *)
(* AddShared appends the handler to an fd already registered; Delete of  *)
(* an unknown fd, Park of an fd not alive and Resume of an fd already     *)
(* alive are errors, and update_events stops at the first error.  Adding *)
(* or resuming an edge-triggered tap that holds data reports an edge.     *)
(***************************************************************************)
ArmEdge(st, k) ==
  IF k[1] = "tap" /\ st.pkts[k[2]] > 0
  THEN [st EXCEPT !.edge[k[2]] = TRUE] ELSE st

ApplyOp(st, o) ==
  LET k == o.key IN
  IF st.err THEN st
  ELSE CASE o.op = "AddShared" ->
              IF k \in DOMAIN st.reg
              THEN [st EXCEPT !.reg[k].owners = Append(@, o.owner)]
              ELSE ArmEdge([st EXCEPT !.reg = (k :> [owners |-> <<o.owner>>, alive |-> TRUE]) @@ st.reg], k)
         [] o.op = "Delete" ->
              IF k \notin DOMAIN st.reg THEN [st EXCEPT !.err = TRUE]
              ELSE [st EXCEPT !.reg = Restrict(st.reg, DOMAIN st.reg \ {k}), !.ready = @ \ {k}]
         [] o.op = "Park" ->
              IF k \notin DOMAIN st.reg \/ ~st.reg[k].alive THEN [st EXCEPT !.err = TRUE]
              ELSE [st EXCEPT !.reg[k].alive = FALSE]
         [] o.op = "Resume" ->
              IF k \notin DOMAIN st.reg \/ st.reg[k].alive THEN [st EXCEPT !.err = TRUE]
              ELSE ArmEdge([st EXCEPT !.reg[k].alive = TRUE], k)

RECURSIVE ApplyOps(_, _)
ApplyOps(st, ops) ==
  IF ops = << >> THEN st ELSE ApplyOps(ApplyOp(st, Head(ops)), Tail(ops))

Readable(k) ==
  CASE k[1] = "upd"   -> updEvt
    [] k[1] = "deact" -> deactEvt
    [] k[1] = "rx"    -> rxKick[k[2][2]]
    [] k[1] = "tx"    -> txKick[k[2][2]]
    [] k[1] = "tap"   -> tapEdge[k[2]]
    [] k[1] = "ctrlq" -> ctrlKick

Halted == loopErr \/ blocked

\* A handler lives while one of its notifiers is registered (the loop
\* holds the only Arc of it); its taps and its channel Receiver live with it.
LiveOwners == { o \in Owners : \E k \in DOMAIN reg : o \in Range(reg[k].owners) }
OpenTaps == ({ netTaps[p] : p \in Pairs } \cup { h[o].tap : o \in LiveOwners }) \ {NoTap}

(***************************************************************************)
(* NetIoHandler callbacks.  A callback takes and returns the world record *)
(* w of what it may change; w.ops collects the notifiers it returns.      *)
(***************************************************************************)
World == [h |-> h, pkts |-> tapPkts, rxAvail |-> rxAvail, rxUsed |-> rxUsed,
          txAvail |-> txAvail, txUsed |-> txUsed, chan |-> chan,
          updEvt |-> updEvt, deactEvt |-> deactEvt, rxKick |-> rxKick,
          txKick |-> txKick, blocked |-> blocked, ctrlAvail |-> ctrlAvail,
          ctrlUsed |-> ctrlUsed, ctrlKick |-> ctrlKick, needsReset |-> needsReset,
          ops |-> << >>]

\* Mutant of PushBack: the popped element is not rewound.
PushBackLost(left) == left

\* vring.push_back(): rewind last_avail_idx over the element just popped.
PushBack(left) == left + 1

\* The loop of handle_rx over `avail` rx buffers and `pkts` tap packets:
\* avail_ring_len == 0 sets queue_full and breaks; otherwise pop_avail,
\* readv, and on EAGAIN push_back and break; else add_used.
RECURSIVE RxLoop(_, _, _)
RxLoop(avail, pkts, n) ==
  IF avail = 0 THEN [avail |-> avail, n |-> n, full |-> TRUE]
  ELSE LET left == avail - 1 IN
       IF pkts = 0 THEN [avail |-> PushBack(left), n |-> n, full |-> FALSE]
       ELSE RxLoop(left, pkts - 1, n + 1)

\* Mutant of TapCb: Park the tap without clearing is_listening.
TapCbKeepListening(w, o) ==
  LET p == o[2]
      t == w.h[o].tap
  IN IF t = NoTap THEN w
     ELSE LET r == RxLoop(w.rxAvail[p], w.pkts[t], 0) IN
          [w EXCEPT !.rxAvail[p] = r.avail, !.rxUsed[p] = @ + r.n, !.pkts[t] = @ - r.n,
                    !.ops = IF r.full THEN @ \o << Op("Park", TapKey(t), o) >> ELSE @]

\* Mutant of TapCb: add_used is issued twice for every received packet.
TapCbDoubleUsed(w, o) ==
  LET p == o[2]
      t == w.h[o].tap
  IN IF t = NoTap THEN w
     ELSE LET r == RxLoop(w.rxAvail[p], w.pkts[t], 0) IN
          [w EXCEPT !.rxAvail[p] = r.avail, !.rxUsed[p] = @ + 2 * r.n, !.pkts[t] = @ - r.n,
                    !.h[o].listening = IF r.full THEN FALSE ELSE @,
                    !.ops = IF r.full THEN @ \o << Op("Park", TapKey(t), o) >> ELSE @]

\* Mutant of TapCb: on a full ring a packet is read into no buffer and lost.
TapCbDrainOnFull(w, o) ==
  LET p == o[2]
      t == w.h[o].tap
  IN IF t = NoTap THEN w
     ELSE LET r    == RxLoop(w.rxAvail[p], w.pkts[t], 0)
              lost == IF r.full /\ w.pkts[t] > r.n THEN 1 ELSE 0
          IN [w EXCEPT !.rxAvail[p] = r.avail, !.rxUsed[p] = @ + r.n, !.pkts[t] = @ - r.n - lost,
                       !.h[o].listening = IF r.full THEN FALSE ELSE @,
                       !.ops = IF r.full THEN @ \o << Op("Park", TapKey(t), o) >> ELSE @]

\* The tap fd callback: handle_rx, then Park the tap when queue_full.
TapCb(w, o) ==
  LET p == o[2]
      t == w.h[o].tap
  IN IF t = NoTap THEN w
     ELSE LET r == RxLoop(w.rxAvail[p], w.pkts[t], 0) IN
          [w EXCEPT !.rxAvail[p] = r.avail,
                    !.rxUsed[p]  = @ + r.n,
                    !.pkts[t]    = @ - r.n,
                    !.h[o].listening = IF r.full THEN FALSE ELSE @,
                    !.ops = IF r.full THEN @ \o << Op("Park", TapKey(t), o) >> ELSE @]

\* Mutant of RxKickCb: the kick never resumes a parked tap.
RxKickCbNoResume(w, o) == [w EXCEPT !.rxKick[o[2]] = FALSE]

\* The rx queue event callback: Resume the tap when it is not listening.
RxKickCb(w, o) ==
  LET t == w.h[o].tap IN
  IF t # NoTap /\ ~w.h[o].listening
  THEN [w EXCEPT !.rxKick[o[2]] = FALSE, !.h[o].listening = TRUE,
                 !.ops = @ \o << Op("Resume", TapKey(t), o) >>]
  ELSE [w EXCEPT !.rxKick[o[2]] = FALSE]

\* The loop of handle_tx: pop every tx buffer, writev it to the tap when
\* there is one, add_used with length 0.  The element `fail` is the one
\* whose writev fails (0: none): bail! leaves it neither used nor pushed back.
RECURSIVE TxLoop(_, _, _, _)
TxLoop(avail, used, i, fail) ==
  IF avail = 0 THEN [avail |-> avail, used |-> used]
  ELSE LET left == avail - 1 IN
       IF i = fail THEN [avail |-> left, used |-> used]
       ELSE TxLoop(left, used + 1, i + 1, fail)

\* Mutant of TxCb: the popped buffers are never added to the used ring.
TxCbNoUsed(w, o, fail) ==
  LET p == o[2]
      r == TxLoop(w.txAvail[p], w.txUsed[p], 1, IF w.h[o].tap = NoTap THEN 0 ELSE fail)
  IN [w EXCEPT !.txKick[p] = FALSE, !.txAvail[p] = r.avail]

\* The tx queue event callback: read_fd, handle_tx (errors only logged).
TxCb(w, o, fail) ==
  LET p == o[2]
      r == TxLoop(w.txAvail[p], w.txUsed[p], 1, IF w.h[o].tap = NoTap THEN 0 ELSE fail)
  IN [w EXCEPT !.txKick[p] = FALSE, !.txAvail[p] = r.avail, !.txUsed[p] = r.used]

\* update_evt_handler: read_fd, take the next tap from the channel (None
\* when every Sender is gone; recv blocks while one lives), Delete the
\* update, rx, tx and old tap fds, then internal_notifiers again.
UpdCb(w, o) ==
  LET q    == w.chan[o]
      tap  == IF q # << >> THEN Head(q) ELSE NoTap
      old  == w.h[o].tapFd
      dels == << Op("Delete", Evt("upd", o), o), Op("Delete", Evt("rx", o), o),
                 Op("Delete", Evt("tx", o), o) >>
              \o (IF old # NoTap THEN << Op("Delete", TapKey(old), o) >> ELSE << >>)
  IN [w EXCEPT !.updEvt = FALSE,
               !.chan[o] = IF q # << >> THEN Tail(q) ELSE q,
               !.blocked = @ \/ (q = << >> /\ o[1] = senders),
               !.h[o].tap = tap,
               !.h[o].tapFd = tap,
               !.ops = @ \o dels \o InternalNotifiers(o, tap)]

\* deactivate_evt_handler: read_fd, Delete every fd of the handler.
DeactCb(w, o) ==
  LET fd == w.h[o].tapFd IN
  [w EXCEPT !.deactEvt = FALSE,
            !.h[o].tapFd = NoTap,
            !.ops = @ \o << Op("Delete", Evt("upd", o), o), Op("Delete", Evt("deact", o), o),
                            Op("Delete", Evt("rx", o), o), Op("Delete", Evt("tx", o), o) >>
                      \o (IF fd # NoTap THEN << Op("Delete", TapKey(fd), o) >> ELSE << >>)]

(***************************************************************************)
(* NetCtrlHandler: the control queue callback and its deactivate_evt      *)
(* callback.  Its deactivate_evt is a dup of Net.deactivate_evt, as the   *)
(* NetIoHandlers' are, so they share one counter.                         *)
(***************************************************************************)
VIRTIO_NET_CTRL_MQ == 4
VIRTIO_NET_CTRL_MQ_VQ_PAIRS_SET == 0
VIRTIO_NET_CTRL_MQ_VQ_PAIRS_MIN == 1
VIRTIO_NET_CTRL_MQ_VQ_PAIRS_MAX == 32768

\* Mutant of CtrlNotifiers: the ctrl queue event is never registered.
CtrlNotifiersNoQueue(o) == << Op("AddShared", <<"deact", o>>, o) >>

\* internal_notifiers for NetCtrlHandler: the ctrl queue event and
\* deactivate_evt, both AddShared.
CtrlNotifiers(o) == << Op("AddShared", <<"ctrlq", o>>, o), Op("AddShared", <<"deact", o>>, o) >>

\* handle_ctrl's checks of the MQ command: the class, the command and the
\* queue pair count in VIRTIO_NET_CTRL_MQ_VQ_PAIRS_MIN..MAX.
CtrlValid(c) ==
  /\ c.class = VIRTIO_NET_CTRL_MQ
  /\ c.cmd = VIRTIO_NET_CTRL_MQ_VQ_PAIRS_SET
  /\ c.pairs \in VIRTIO_NET_CTRL_MQ_VQ_PAIRS_MIN .. VIRTIO_NET_CTRL_MQ_VQ_PAIRS_MAX

\* report_virtio_error (spec.md 7): DEVICE_NEEDS_RESET and a write of the
\* device's deactivate_evt.
ReportVirtioError(w) == [w EXCEPT !.needsReset = TRUE, !.deactEvt = TRUE]

\* Mutant of CtrlCb: a rejected command is only logged.
CtrlCbNoReport(w, o) ==
  LET q == w.ctrlAvail IN
  IF q = << >> THEN [w EXCEPT !.ctrlKick = FALSE]
  ELSE IF CtrlValid(Head(q))
       THEN [w EXCEPT !.ctrlKick = FALSE, !.ctrlAvail = Tail(q), !.ctrlUsed = @ + 1]
       ELSE [w EXCEPT !.ctrlKick = FALSE, !.ctrlAvail = Tail(q)]

\* The ctrl queue callback: read_fd, then handle_ctrl pops ONE element
\* (none: desc_num == 0, return), checks it and answers VIRTIO_NET_OK in
\* the used ring; a rejected command bails after the pop, and the error
\* is turned into report_virtio_error.
CtrlCb(w, o) ==
  LET q == w.ctrlAvail IN
  IF q = << >> THEN [w EXCEPT !.ctrlKick = FALSE]
  ELSE IF CtrlValid(Head(q))
       THEN [w EXCEPT !.ctrlKick = FALSE, !.ctrlAvail = Tail(q), !.ctrlUsed = @ + 1]
       ELSE ReportVirtioError([w EXCEPT !.ctrlKick = FALSE, !.ctrlAvail = Tail(q)])

\* NetCtrlHandler's deactivate_evt_handler: read_fd, Delete both its fds.
CtrlDeactCb(w, o) ==
  [w EXCEPT !.deactEvt = FALSE,
            !.ops = @ \o << Op("Delete", <<"ctrlq", o>>, o), Op("Delete", <<"deact", o>>, o) >>]

Callback(w, k, o, fail) ==
  CASE k[1] = "upd"   -> UpdCb(w, o)
    [] k[1] = "deact" /\ o[2] = CtrlIdx -> CtrlDeactCb(w, o)
    [] k[1] = "deact" -> DeactCb(w, o)
    [] k[1] = "ctrlq" -> CtrlCb(w, o)
    [] k[1] = "rx"    -> RxKickCb(w, o)
    [] k[1] = "tx"    -> TxCb(w, o, fail)
    [] k[1] = "tap"   -> TapCb(w, o)

\* The loop calls every handler of the notifier in turn.
RECURSIVE CallEach(_, _, _, _)
CallEach(w, k, owners, fail) ==
  IF owners = << >> THEN w
  ELSE CallEach(Callback(w, k, Head(owners), fail), k, Tail(owners), fail)

RunHandlers(k, fail) == CallEach(World, k, reg[k].owners, fail)

LoopState == [reg |-> reg, ready |-> ready, edge |-> tapEdge, pkts |-> tapPkts, err |-> FALSE]

-----------------------------------------------------------------------------
(***************************************************************************)
(* Net: operations called by the transport and the control plane.         *)
(***************************************************************************)

\* The taps realize() opens: create_tap with host_dev_name for every pair,
\* or None when the configuration has no tap (update_config(None)).
RealizeTaps(u, withTap) == [p \in Pairs |-> IF withTap THEN <<u, p>> ELSE NoTap]

\* What update_config sends to pair p: `match self.taps.take()` inside the
\* loop over the senders leaves self.taps None after index 0.
SentTap(new, p) == IF p = 0 THEN new[0] ELSE NoTap

\* activate: one NetIoHandler per pair (tap, tap_fd, is_listening = true),
\* a fresh channel per pair, and its notifiers added to the iothread.
Activate ==
  /\ ~active
  /\ gen < MaxGen
  /\ LET g   == gen + 1
         ops == (IF CtrlVq THEN CtrlNotifiers(<<g, CtrlIdx>>) ELSE << >>)
                \o FlattenSeq([i \in 1 .. QueuePairs |-> InternalNotifiers(<<g, i - 1>>, netTaps[i - 1])])
         st  == ApplyOps(LoopState, ops)
     IN /\ active' = TRUE
        /\ gen' = g
        /\ senders' = g
        /\ h' = [o \in Owners |-> IF o[1] = g
                                  THEN [tap |-> netTaps[o[2]], tapFd |-> netTaps[o[2]], listening |-> TRUE]
                                  ELSE h[o]]
        /\ reg' = st.reg
        /\ tapEdge' = st.edge
  /\ UNCHANGED <<netTaps, updates, chan, lastSent, ready, loopErr, blocked, updEvt,
                 deactEvt, rxKick, txKick, tapPkts, rxAvail, rxUsed, rxPosted,
                 txAvail, txUsed, txPosted, arrived>>
  /\ UNCHANGED ctrlVars

\* deactivate: write deactivate_evt and return; the handlers go later.
Deactivate ==
  /\ active
  /\ active' = FALSE
  /\ deactEvt' = TRUE
  /\ UNCHANGED <<gen, netTaps, senders, updates, chan, lastSent, h, reg, ready,
                 loopErr, blocked, updEvt, rxKick, txKick, tapEdge, tapPkts,
                 rxAvail, rxUsed, rxPosted, txAvail, txUsed, txPosted, arrived>>
  /\ UNCHANGED ctrlVars

\* update_config: realize() with the new configuration, then, when the
\* device was activated, send each pair its tap (a send to a dropped
\* Receiver fails and returns early) and write update_evt.
UpdateConfig(withTap) ==
  /\ updates < MaxUpdates
  /\ LET new  == RealizeTaps(updates + 1, withTap)
         dead == { p \in Pairs : <<senders, p>> \notin LiveOwners }
         sent == { p \in Pairs : \A q \in dead : p < q }
     IN /\ updates' = updates + 1
        /\ IF senders = 0
           THEN /\ netTaps' = new
                /\ UNCHANGED <<chan, lastSent, updEvt>>
           ELSE /\ netTaps' = [p \in Pairs |-> NoTap]
                /\ chan' = [o \in Owners |-> IF o[1] = senders /\ o[2] \in sent
                                             THEN Append(chan[o], SentTap(new, o[2]))
                                             ELSE chan[o]]
                /\ lastSent' = [p \in Pairs |-> IF p \in sent THEN SentTap(new, p) ELSE lastSent[p]]
                /\ updEvt' = (updEvt \/ dead = {})
  /\ UNCHANGED <<active, gen, senders, h, reg, ready, loopErr, blocked, deactEvt,
                 rxKick, txKick, tapEdge, tapPkts, rxAvail, rxUsed, rxPosted,
                 txAvail, txUsed, txPosted, arrived>>
  /\ UNCHANGED ctrlVars

-----------------------------------------------------------------------------
(***************************************************************************)
(* The iothread: epoll_wait, then the callbacks of each fd it returned.   *)
(***************************************************************************)
Wait ==
  /\ ~Halted
  /\ ready = {}
  /\ LET r == { k \in DOMAIN reg : reg[k].alive /\ Readable(k) } IN
       /\ r # {}
       /\ ready' = r
       /\ tapEdge' = [t \in TapIds |-> tapEdge[t] /\ TapKey(t) \notin r]
  /\ UNCHANGED <<active, gen, netTaps, senders, updates, chan, lastSent, h, reg,
                 loopErr, blocked, updEvt, deactEvt, rxKick, txKick, tapPkts,
                 rxAvail, rxUsed, rxPosted, txAvail, txUsed, txPosted, arrived>>
  /\ UNCHANGED ctrlVars

FailChoices(k) == IF k[1] = "tx" /\ TxCanFail THEN 0 .. MaxTxPost ELSE {0}

\* The outcome of dispatching fd k: the handlers' world and the registry
\* after the notifiers they returned.
DispatchResult(k, fail) ==
  LET w  == RunHandlers(k, fail)
      st == ApplyOps([LoopState EXCEPT !.ready = ready \ {k}, !.pkts = w.pkts], w.ops)
  IN [w EXCEPT !.ops = st]

\* The callbacks of a pending fd run only while its notifier is alive.  A
\* Delete takes the fd out of the ready list (spec.md 4.1 (ii)), and only
\* the tap's own callback parks the tap, so no pending fd is ever parked.
Dispatch(k) ==
  /\ ~Halted
  /\ k \in ready
  /\ k \in DOMAIN reg
  /\ reg[k].alive
  /\ \E fail \in FailChoices(k) : \E r \in {DispatchResult(k, fail)} :
       /\ h' = r.h
       /\ tapPkts' = r.pkts
       /\ rxAvail' = r.rxAvail
       /\ rxUsed' = r.rxUsed
       /\ txAvail' = r.txAvail
       /\ txUsed' = r.txUsed
       /\ chan' = r.chan
       /\ updEvt' = r.updEvt
       /\ deactEvt' = r.deactEvt
       /\ rxKick' = r.rxKick
       /\ txKick' = r.txKick
       /\ blocked' = r.blocked
       /\ reg' = r.ops.reg
       /\ ready' = r.ops.ready
       /\ tapEdge' = r.ops.edge
       /\ loopErr' = r.ops.err
       /\ ctrlAvail' = r.ctrlAvail
       /\ ctrlUsed' = r.ctrlUsed
       /\ ctrlKick' = r.ctrlKick
       /\ needsReset' = r.needsReset
  /\ UNCHANGED <<active, gen, netTaps, senders, updates, lastSent, rxPosted,
                 txPosted, arrived, ctrlPosted>>

-----------------------------------------------------------------------------
(* Environment: the guest driver and the host network.                    *)

\* The driver adds an rx buffer to the avail ring and notifies the queue.
GuestPostRx(p) ==
  /\ active
  /\ rxPosted[p] < MaxRxPost
  /\ rxPosted' = [rxPosted EXCEPT ![p] = @ + 1]
  /\ rxAvail' = [rxAvail EXCEPT ![p] = @ + 1]
  /\ rxKick' = [rxKick EXCEPT ![p] = TRUE]
  /\ UNCHANGED <<active, gen, netTaps, senders, updates, chan, lastSent, h, reg,
                 ready, loopErr, blocked, updEvt, deactEvt, txKick, tapEdge,
                 tapPkts, rxUsed, txAvail, txUsed, txPosted, arrived>>
  /\ UNCHANGED ctrlVars

GuestPostTx(p) ==
  /\ active
  /\ txPosted[p] < MaxTxPost
  /\ txPosted' = [txPosted EXCEPT ![p] = @ + 1]
  /\ txAvail' = [txAvail EXCEPT ![p] = @ + 1]
  /\ txKick' = [txKick EXCEPT ![p] = TRUE]
  /\ UNCHANGED <<active, gen, netTaps, senders, updates, chan, lastSent, h, reg,
                 ready, loopErr, blocked, updEvt, deactEvt, rxKick, tapEdge,
                 tapPkts, rxAvail, rxUsed, rxPosted, txUsed, arrived>>
  /\ UNCHANGED ctrlVars

\* The driver adds a control command to the ctrl queue and notifies it; a
\* synchronous driver (Linux's virtnet_send_command) first waits until
\* every earlier command has been answered.
GuestPostCtrl(c) ==
  /\ active
  /\ CtrlVq
  /\ ctrlPosted < MaxCtrl
  /\ CtrlSync => ctrlUsed = ctrlPosted
  /\ ctrlPosted' = ctrlPosted + 1
  /\ ctrlAvail' = Append(ctrlAvail, c)
  /\ ctrlKick' = TRUE
  /\ UNCHANGED <<active, gen, netTaps, senders, updates, chan, lastSent, h, reg,
                 ready, loopErr, blocked, updEvt, deactEvt, rxKick, txKick, tapEdge,
                 tapPkts, rxAvail, rxUsed, rxPosted, txAvail, txUsed, txPosted,
                 arrived, ctrlUsed, needsReset>>

\* A packet for the guest arrives on an open tap; an alive edge-triggered
\* registration gets an edge.
TapReceive(t) ==
  /\ t \in OpenTaps
  /\ arrived < MaxPkts
  /\ arrived' = arrived + 1
  /\ tapPkts' = [tapPkts EXCEPT ![t] = @ + 1]
  /\ tapEdge' = IF TapKey(t) \in DOMAIN reg /\ reg[TapKey(t)].alive
                THEN [tapEdge EXCEPT ![t] = TRUE] ELSE tapEdge
  /\ UNCHANGED <<active, gen, netTaps, senders, updates, chan, lastSent, h, reg,
                 ready, loopErr, blocked, updEvt, deactEvt, rxKick, txKick,
                 rxAvail, rxUsed, rxPosted, txAvail, txUsed, txPosted>>
  /\ UNCHANGED ctrlVars

-----------------------------------------------------------------------------
\* Net::new and realize() with a tap per pair (host_dev_name configured).
Init ==
  /\ active = FALSE
  /\ gen = 0
  /\ netTaps = RealizeTaps(0, TRUE)
  /\ senders = 0
  /\ updates = 0
  /\ chan = [o \in Owners |-> << >>]
  /\ lastSent = [p \in Pairs |-> NoTap]
  /\ h = [o \in Owners |-> [tap |-> NoTap, tapFd |-> NoTap, listening |-> TRUE]]
  /\ reg = [k \in {} |-> [owners |-> << >>, alive |-> FALSE]]
  /\ ready = {}
  /\ loopErr = FALSE
  /\ blocked = FALSE
  /\ updEvt = FALSE
  /\ deactEvt = FALSE
  /\ rxKick = [p \in Pairs |-> FALSE]
  /\ txKick = [p \in Pairs |-> FALSE]
  /\ tapEdge = [t \in TapIds |-> FALSE]
  /\ tapPkts = [t \in TapIds |-> 0]
  /\ rxAvail = [p \in Pairs |-> 0]
  /\ rxUsed = [p \in Pairs |-> 0]
  /\ rxPosted = [p \in Pairs |-> 0]
  /\ txAvail = [p \in Pairs |-> 0]
  /\ txUsed = [p \in Pairs |-> 0]
  /\ txPosted = [p \in Pairs |-> 0]
  /\ arrived = 0
  /\ ctrlAvail = << >>
  /\ ctrlUsed = 0
  /\ ctrlPosted = 0
  /\ ctrlKick = FALSE
  /\ needsReset = FALSE

\* One step of the iothread's loop.
IoThread == Wait \/ \E k \in Keys : Dispatch(k)

Next ==
  \/ Activate
  \/ Deactivate
  \/ \E withTap \in BOOLEAN : UpdateConfig(withTap)
  \/ IoThread
  \/ \E p \in Pairs : GuestPostRx(p) \/ GuestPostTx(p)
  \/ \E t \in TapIds : TapReceive(t)
  \/ \E c \in CtrlCmds : GuestPostCtrl(c)

\* The iothread runs its loop for ever: epoll_wait returns whenever an fd
\* is ready, and the fds it returned are dispatched one after the other.
Fairness == WF_vars(IoThread)

Spec == Init /\ [][Next]_vars /\ Fairness

-----------------------------------------------------------------------------
(***************************************************************************)
(* Properties                                                              *)
(***************************************************************************)
Handler == [tap : TapOrNone, tapFd : TapOrNone, listening : BOOLEAN]

TypeOK ==
  /\ active \in BOOLEAN
  /\ gen \in 0 .. MaxGen
  /\ netTaps \in [Pairs -> TapOrNone]
  /\ senders \in 0 .. MaxGen
  /\ updates \in 0 .. MaxUpdates
  /\ chan \in [Owners -> Seq(TapOrNone)]
  /\ lastSent \in [Pairs -> TapOrNone]
  /\ h \in [Owners -> Handler]
  /\ DOMAIN reg \subseteq Keys
  /\ \A k \in DOMAIN reg : reg[k].alive \in BOOLEAN /\ reg[k].owners \in Seq(Owners \cup CtrlOwners)
  /\ ready \subseteq Keys
  /\ {loopErr, blocked, updEvt, deactEvt} \subseteq BOOLEAN
  /\ rxKick \in [Pairs -> BOOLEAN] /\ txKick \in [Pairs -> BOOLEAN]
  /\ tapEdge \in [TapIds -> BOOLEAN]
  /\ tapPkts \in [TapIds -> 0 .. MaxPkts]
  /\ \A f \in {rxAvail, rxUsed, rxPosted} : f \in [Pairs -> 0 .. MaxRxPost]
  /\ \A f \in {txAvail, txUsed, txPosted} : f \in [Pairs -> 0 .. MaxTxPost]
  /\ arrived \in 0 .. MaxPkts
  /\ ctrlAvail \in Seq(CtrlCmds) /\ Len(ctrlAvail) <= ctrlPosted
  /\ ctrlUsed \in 0 .. MaxCtrl /\ ctrlPosted \in 0 .. MaxCtrl
  /\ {ctrlKick, needsReset} \subseteq BOOLEAN

\* Every rx buffer the guest posted is either still in the avail ring or
\* was returned in the used ring: handle_rx never loses a popped buffer
\* (the EAGAIN path pushes it back).
RxBuffersConserved ==
  \A p \in Pairs : rxAvail[p] + rxUsed[p] = rxPosted[p]

\* Every tx buffer the guest posted is either still in the avail ring or
\* was returned in the used ring (spec.md 3: a popped descriptor is used
\* exactly once or pushed back).
TxBuffersConserved ==
  \A p \in Pairs : txAvail[p] + txUsed[p] = txPosted[p]

\* A handler's is_listening says whether its tap fd is armed in epoll: the
\* tap callback's Park and the rx queue callback's Resume are chosen from
\* it, so it must agree with the registry whenever the tap is registered.
ListeningMatchesRegistry ==
  \A o \in LiveOwners :
    LET t == h[o].tap IN
    (t # NoTap /\ TapKey(t) \in DOMAIN reg) => (h[o].listening <=> reg[TapKey(t)].alive)

\* Every notifier batch a net callback returns is valid for the registry
\* (no Park of a parked fd, Resume of an armed one, Delete of a removed
\* one), so update_events never fails and the iothread keeps running.
NoLoopError == ~loopErr

\* A callback never blocks the iothread in receiver.recv() on an empty
\* channel whose Sender is alive.
NoBlockingRecv == ~blocked

\* Each registered fd has exactly one callback.
SingleHandlerPerFd == \A k \in DOMAIN reg : Len(reg[k].owners) = 1

\* update_config of a tap-backed netdev gives every queue pair's handler a
\* tap (spec.md 4.4, hot reconfiguration).
UpdateSendsEveryPairATap ==
  [][ (updates' = updates + 1 /\ senders # 0 /\ netTaps # [p \in Pairs |-> NoTap]
       /\ \A p \in Pairs : <<senders, p>> \in LiveOwners)
      => \A p \in Pairs : lastSent'[p] # NoTap ]_vars

\* The iothread is idle: no fd pending dispatch and none ready.
Quiescent ==
  /\ ready = {}
  /\ ~\E k \in DOMAIN reg : reg[k].alive /\ Readable(k)

\* Once the update event has been handled, no tap handed over by
\* update_config is left behind in a live handler's channel.
ChannelDrained ==
  Quiescent => \A o \in LiveOwners : chan[o] = << >>

\* Packets waiting on a pair's tap are eventually received into the rx
\* buffers the guest posted: the Park on a full ring is always undone by
\* the Resume of a later rx queue kick (no lost wakeup).
RxWaiting(p) ==
  LET o == <<gen, p>> IN
  /\ active /\ gen > 0
  /\ h[o].tap # NoTap /\ tapPkts[h[o].tap] > 0
  /\ rxAvail[p] > 0

RxProgress ==
  \A p \in Pairs : \A n \in 0 .. MaxRxPost :
    (RxWaiting(p) /\ rxUsed[p] = n) ~> (rxUsed[p] > n \/ ~active)

\* Control commands popped from the avail ring and never answered.
CtrlDropped == ctrlPosted - Len(ctrlAvail) - ctrlUsed

\* handle_ctrl bails after pop_avail on a rejected command, so the command
\* is never answered; the callback must then report the device broken
\* (DEVICE_NEEDS_RESET), or the driver waits for the answer for ever.
NoSilentDrop == CtrlDropped > 0 => needsReset

\* Every control command the driver posts is eventually popped by the
\* ctrl queue callback, unless the device has been reported broken or
\* deactivated: one callback runs per read of the ctrl queue eventfd, and
\* handle_ctrl pops a single element each time.
CtrlProgress ==
  ctrlAvail # << >> ~> (ctrlAvail = << >> \/ needsReset \/ ~active)

-----------------------------------------------------------------------------
(***************************************************************************)
(* Refinement: NetIo implements the receive service of NetRxAbstract.    *)
(* A pair is served while the handler of the current activation is live  *)
(* (from activate until its deactivate_evt_handler's Delete batch); the   *)
(* packets waiting for a pair are those queued in its taps.               *)
(***************************************************************************)
PairPkts(p) == FoldFunctionOnSet(LAMBDA a, b : a + b, 0, tapPkts, {t \in TapIds : t[2] = p})

RxService == INSTANCE NetRxAbstract WITH
  serving <- [p \in Pairs |-> <<gen, p>> \in LiveOwners],
  avail   <- rxAvail,
  used    <- rxUsed,
  waiting <- [p \in Pairs |-> PairPkts(p)]

\* handle_rx, the tap callback's Park and the rx kick's Resume together
\* implement the receive service: packets leave a tap only into posted
\* buffers, one packet per buffer, and a served pair with a buffer and a
\* waiting packet eventually delivers.
RxServiceRefined == RxService!Spec

=============================================================================
