------------------------------ MODULE NetConfig ------------------------------
(***************************************************************************)
(* The configuration side of the virtio-net device (src/virtio/src        *)
(* /net.rs): realize, which recomputes the device features, the MQ pair   *)
(* count and the MAC in the config space and (re)opens the taps; the      *)
(* driver's feature writes; the legacy MAC write through write_config;    *)
(* and update_config, which swaps in a new NetworkInterfaceConfig, sets   *)
(* the tap offload from the driver features and realizes again.           *)
(*                                                                         *)
(* A feature bitmap is the set of its bit numbers. A NetworkInterfaceConfig*)
(* is abstracted to: mq, queues, the MAC string as its ':'-separated       *)
(* tokens (a byte, or -1 for a token u8::from_str_radix rejects), the tap *)
(* backend (a host device name, one of two fd sets, or none), whether the *)
(* named tap's tun_flags carry IFF_MULTI_QUEUE, whether opening the tap   *)
(* succeeds otherwise, and whether its iothread is missing. The sending  *)
(* of the new taps to the I/O handlers is modelled in NetIo.              *)
(***************************************************************************)
EXTENDS Integers, Sequences, FiniteSets

CONSTANTS
  NoMac,      \* net_cfg.mac is None
  NoTaps,     \* self.taps is None
  NoConf,     \* update_config(None)
  Cfgs,       \* the NetworkInterfaceConfigs realize and update_config see
  InitCfg,    \* the config the device is created with
  DriverWrites, \* the [page, value] pairs set_driver_features is called with
  ConfigWrites, \* the [offset, data] pairs write_config is called with
  MaxSteps    \* bound on driver and update_config calls

\* Feature bit numbers (virtio spec, as the crate's constants).
VIRTIO_NET_F_CSUM == 0
VIRTIO_NET_F_GUEST_CSUM == 1
VIRTIO_NET_F_MAC == 5
VIRTIO_NET_F_GUEST_TSO4 == 7
VIRTIO_NET_F_GUEST_TSO6 == 8
VIRTIO_NET_F_GUEST_ECN == 9
VIRTIO_NET_F_GUEST_UFO == 10
VIRTIO_NET_F_HOST_TSO4 == 11
VIRTIO_NET_F_HOST_TSO6 == 12
VIRTIO_NET_F_HOST_UFO == 14
VIRTIO_NET_F_CTRL_VQ == 17
VIRTIO_NET_F_MQ == 22
VIRTIO_NET_F_CTRL_MAC_ADDR == 23
VIRTIO_F_RING_EVENT_IDX == 29
VIRTIO_F_VERSION_1 == 32
VIRTIO_NET_CTRL_MQ_VQ_PAIRS_MIN == 1
VIRTIO_NET_CTRL_MQ_VQ_PAIRS_MAX == 32768
MAC_ADDR_LEN == 6

\* NetworkInterfaceConfig::default(): no mq, no queues, no MAC, no tap.
DefaultCfg ==
  [mq |-> FALSE, queues |-> 0, mac |-> NoMac, backend |-> "none",
   tunMq |-> FALSE, tapOpens |-> TRUE, iothreadMissing |-> FALSE]

VARIABLES
  netCfg,          \* self.net_cfg
  taps,            \* self.taps: NoTaps or [src, offload]
  deviceFeatures,  \* state.device_features
  driverFeatures,  \* state.driver_features
  configMac,       \* state.config_space.mac
  maxPairs,        \* state.config_space.max_virtqueue_pairs
  realized,        \* "new", then "ok" or "failed" for the first realize
  steps

vars == <<netCfg, taps, deviceFeatures, driverFeatures, configMac, maxPairs,
          realized, steps>>

\* The bits of one 32-bit feature page.
PageBits(page) == 32 * page .. 32 * page + 31

\* build_device_config_space: the MAC parsed token by token into a zeroed
\* six-byte array; a bad token returns 0 before the copy, otherwise the
\* array replaces the config MAC and the MAC bit is returned.
MacParses(mac) == \A i \in 1 .. Len(mac) : mac[i] # -1
MacBytes(mac) == [i \in 1 .. MAC_ADDR_LEN |-> IF i <= Len(mac) THEN mac[i] ELSE 0]
BuildDeviceConfigSpace(mac, cur) ==
  IF MacParses(mac) THEN [mac |-> MacBytes(mac), features |-> {VIRTIO_NET_F_MAC}]
                    ELSE [mac |-> cur, features |-> {}]

\* get_tap_offload_flags: each TUN offload is set when its guest feature
\* is among the driver's page-0 bits.
TunOffloadOf ==
  [CSUM |-> VIRTIO_NET_F_GUEST_CSUM, TSO4 |-> VIRTIO_NET_F_GUEST_TSO4,
   TSO6 |-> VIRTIO_NET_F_GUEST_TSO6, TSO_ECN |-> VIRTIO_NET_F_GUEST_ECN,
   UFO |-> VIRTIO_NET_F_GUEST_UFO]
GetTapOffloadFlags(features) ==
  {f \in DOMAIN TunOffloadOf : TunOffloadOf[f] \in features}

BaseFeatures ==
  {VIRTIO_F_VERSION_1, VIRTIO_NET_F_CSUM, VIRTIO_NET_F_GUEST_CSUM,
   VIRTIO_NET_F_GUEST_TSO4, VIRTIO_NET_F_GUEST_TSO6, VIRTIO_NET_F_GUEST_UFO,
   VIRTIO_NET_F_HOST_TSO4, VIRTIO_NET_F_HOST_TSO6, VIRTIO_NET_F_HOST_UFO,
   VIRTIO_F_RING_EVENT_IDX}

\* create_tap: a named tap passes check_mq only when IFF_MULTI_QUEUE
\* matches queue_pairs > 1; a fresh tap carries no offload.
TapOpens(cfg, pairs) == cfg.tapOpens /\ (cfg.backend = "name" => cfg.tunMq = (pairs > 1))
FreshTap(cfg) == [src |-> cfg.backend, offload |-> {}]

\* Net::realize on config cfg from features f, taps t, config MAC m and
\* pair count p: the new state and whether it returned Ok. The features
\* and pair count are written before the tap is opened, the MAC only
\* after; a named tap is dropped before the open, fd taps are kept on a
\* failed open and reused when they came from the same fds.
RealizeResult(cfg, f, t, m, p) ==
  LET pairs == cfg.queues \div 2
      mq    == cfg.mq /\ pairs \in VIRTIO_NET_CTRL_MQ_VQ_PAIRS_MIN .. VIRTIO_NET_CTRL_MQ_VQ_PAIRS_MAX
      feats == BaseFeatures \cup (IF mq THEN {VIRTIO_NET_F_MQ, VIRTIO_NET_F_CTRL_VQ} ELSE {})
      npair == IF mq THEN pairs ELSE p
      reuse == cfg.backend \notin {"none", "name"} /\ t # NoTaps /\ t.src = cfg.backend
      opens == cfg.backend # "none" /\ ~reuse
      built == IF cfg.mac = NoMac THEN [mac |-> m, features |-> {}]
                                   ELSE BuildDeviceConfigSpace(cfg.mac, m)
  IN CASE cfg.iothreadMissing ->
            [ok |-> FALSE, features |-> f, pairs |-> p, taps |-> t, mac |-> m]
       [] opens /\ ~TapOpens(cfg, pairs) ->
            [ok |-> FALSE, features |-> feats, pairs |-> npair,
             taps |-> IF cfg.backend = "name" THEN NoTaps ELSE t, mac |-> m]
       [] OTHER ->
            [ok |-> TRUE, features |-> feats \cup built.features, pairs |-> npair,
             taps |-> CASE cfg.backend = "none" -> NoTaps
                        [] reuse -> t
                        [] OTHER -> FreshTap(cfg),
             mac |-> built.mac]

\* Apply a realize result to the device state.
ApplyRealize(r) ==
  /\ deviceFeatures' = r.features
  /\ maxPairs' = r.pairs
  /\ taps' = r.taps
  /\ configMac' = r.mac

Init ==
  /\ netCfg = InitCfg
  /\ taps = NoTaps
  /\ deviceFeatures = {}
  /\ driverFeatures = {}
  /\ configMac = [i \in 1 .. MAC_ADDR_LEN |-> 0]
  /\ maxPairs = 0
  /\ realized = "new"
  /\ steps = 0

\* Net::realize when the VM builds the device; a failure aborts the VM.
Realize ==
  /\ realized = "new"
  /\ LET r == RealizeResult(netCfg, deviceFeatures, taps, configMac, maxPairs)
     IN /\ ApplyRealize(r)
        /\ realized' = IF r.ok THEN "ok" ELSE "failed"
  /\ UNCHANGED <<netCfg, driverFeatures, steps>>

\* checked_driver_features (virtio crate): value masked by the device
\* features replaces the page's driver bits; the other page is kept.
CheckedDriverFeatures(page, value) ==
  (driverFeatures \ PageBits(page)) \cup (value \cap PageBits(page) \cap deviceFeatures)

\* set_driver_features.
SetDriverFeatures(w) ==
  /\ realized = "ok" /\ steps < MaxSteps
  /\ driverFeatures' = CheckedDriverFeatures(w.page, w.value)
  /\ steps' = steps + 1
  /\ UNCHANGED <<netCfg, taps, deviceFeatures, configMac, maxPairs, realized>>

\* write_config: only a legacy driver (neither CTRL_MAC_ADDR nor VERSION_1)
\* may store a different six-byte MAC at offset 0; anything else is
\* ignored and Ok.
WriteConfig(w) ==
  /\ realized = "ok" /\ steps < MaxSteps
  /\ configMac' =
       IF /\ VIRTIO_NET_F_CTRL_MAC_ADDR \notin driverFeatures
          /\ VIRTIO_F_VERSION_1 \notin driverFeatures
          /\ w.offset = 0 /\ Len(w.data) = MAC_ADDR_LEN /\ w.data # configMac
       THEN w.data ELSE configMac
  /\ steps' = steps + 1
  /\ UNCHANGED <<netCfg, taps, deviceFeatures, driverFeatures, maxPairs, realized>>

\* update_config: take the new config (or the default for None); with a
\* config, set the offload of the current taps from the driver's page 0;
\* then realize. An error from realize leaves what it already wrote.
UpdateConfig(c) ==
  /\ realized = "ok" /\ steps < MaxSteps
  /\ LET cfg == IF c = NoConf THEN DefaultCfg ELSE c
         t   == IF c # NoConf /\ taps # NoTaps
                THEN [taps EXCEPT !.offload = GetTapOffloadFlags(driverFeatures \cap PageBits(0))]
                ELSE taps
     IN /\ netCfg' = cfg
        /\ ApplyRealize(RealizeResult(cfg, deviceFeatures, t, configMac, maxPairs))
  /\ steps' = steps + 1
  /\ UNCHANGED <<driverFeatures, realized>>

Next ==
  \/ Realize
  \/ \E w \in DriverWrites : SetDriverFeatures(w)
  \/ \E w \in ConfigWrites : WriteConfig(w)
  \/ \E c \in Cfgs \cup {NoConf} : UpdateConfig(c)

Spec == Init /\ [][Next]_vars

-----------------------------------------------------------------------------
TypeOK ==
  /\ netCfg \in Cfgs \cup {DefaultCfg}
  /\ deviceFeatures \subseteq 0 .. 63 /\ driverFeatures \subseteq 0 .. 63
  /\ realized \in {"new", "ok", "failed"}
  /\ steps \in 0 .. MaxSteps

\* spec.md 3 and 4.3: the driver features are a negotiated subset of the
\* device features. set_driver_features masks by the device features of
\* the moment, but update_config's realize recomputes device_features
\* (MQ, CTRL_VQ and MAC follow the new config) and leaves driver_features.
DriverSubsetOfDevice == driverFeatures \subseteq deviceFeatures

====
