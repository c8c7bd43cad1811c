------------------------------ MODULE MCNetIo ------------------------------
(* Model-checking instances of NetIo.                                      *)
EXTENDS NetIo

\* Control commands: MQ VQ_PAIRS_SET with a valid and with a zero pair
\* count, and a command of the RX class, which handle_ctrl rejects.
MCCtrlCmds ==
  { [class |-> VIRTIO_NET_CTRL_MQ, cmd |-> VIRTIO_NET_CTRL_MQ_VQ_PAIRS_SET, pairs |-> 1],
    [class |-> VIRTIO_NET_CTRL_MQ, cmd |-> VIRTIO_NET_CTRL_MQ_VQ_PAIRS_SET, pairs |-> 0],
    [class |-> 0, cmd |-> 0, pairs |-> 1] }

\* Symmetry is not sound here: pair 0 is the only one update_config gives
\* a tap, and taps are ordered by the realize that opened them.
=============================================================================
