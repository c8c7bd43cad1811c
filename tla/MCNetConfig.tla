----------------------------- MODULE MCNetConfig -----------------------------
(***************************************************************************)
(* NetConfig for TLC: a VM created with a two-pair mq tap and a MAC, the  *)
(* configs a later netdev update may hand to update_config, and the       *)
(* feature and config writes a driver makes.                               *)
(***************************************************************************)
EXTENDS NetConfig

Mac1 == <<82, 84, 0, 18, 52, 86>>
Mac2 == <<82, 84, 0, 18, 52, 87>>

\* A config: mq flag, queue count, MAC tokens, backend, tun mq flag.
NetCfg(mq, queues, mac, backend, tunMq) ==
  [mq |-> mq, queues |-> queues, mac |-> mac, backend |-> backend,
   tunMq |-> tunMq, tapOpens |-> TRUE, iothreadMissing |-> FALSE]

MCInitCfg == NetCfg(TRUE, 4, Mac1, "name", TRUE)

\* The same device, a single-queue fd-backed one, and one whose MAC
\* has a token that does not parse.
MCCfgs ==
  {MCInitCfg,
   NetCfg(FALSE, 2, Mac1, "fdsA", FALSE),
   NetCfg(TRUE, 4, <<82, 84, -1>>, "name", TRUE)}

\* A driver's page 0 (MAC, MQ, CTRL_VQ and two offloads) and page 1
\* (VERSION_1).
MCDriverWrites ==
  {[page |-> 0, value |-> {VIRTIO_NET_F_MAC, VIRTIO_NET_F_MQ, VIRTIO_NET_F_CTRL_VQ,
                           VIRTIO_NET_F_GUEST_CSUM, VIRTIO_NET_F_GUEST_TSO4}],
   [page |-> 1, value |-> {VIRTIO_F_VERSION_1}]}

MCConfigWrites ==
  {[offset |-> 0, data |-> Mac2], [offset |-> 2, data |-> <<1, 2>>]}
====
