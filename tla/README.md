# TLA+ models of the StratoVirt device plane

This directory holds TLA+ models of the parts of `src/` whose correctness
depends on interleavings, on the order of events, or on arithmetic at
boundaries. Each model is checked by TLC. `PROJECT.json` lists the
components, the runs, the mutants that show each property can fail, and the
map from every modelled definition to the source lines it translates.

## The system

| Part | Source | What it does |
|---|---|---|
| virtio-net I/O handlers | `src/virtio/src/net.rs` (`NetIoHandler`) | One handler per queue pair, run by an iothread's epoll loop. It moves packets between the tap and the rx/tx virtqueues, parks the tap when the rx ring is full, and resumes it on the next rx kick. |
| virtio-net device | `net.rs` (`Net`) | `activate` creates the handlers and registers their notifiers. `deactivate` writes `deactivate_evt`. `update_config` re-opens the taps and hands them to the handlers through per-pair mpsc channels plus a shared `update_evt`. |
| virtio-net control queue | `net.rs` (`NetCtrlHandler`) | Created by `activate` when CTRL_VQ is negotiated. Its callback pops one control command per queue notification and checks it (MQ class, VQ_PAIRS_SET, pair count 1..0x8000). A rejected command makes it call `report_virtio_error`. |
| event loop | `util::loop_context` (not in `src/`; spec.md 4.1) | AddShared / Delete / Park / Resume notifiers. Runs the callbacks of each ready fd and applies the notifier batch each callback returns. |
| VFIO PCI device | `src/vfio/src/vfio_pci.rs` | Emulated config space over a passthrough device: reset, MSI-X discovery, BAR region carving, and interception of config writes. |
| machine lifecycle | `src/machine_manager/src/machine.rs` | The `start` / `pause` / `resume` / `destroy` defaults over `notify_lifecycle`. |
| balloon config | `src/machine_manager/src/config/balloon.rs` | Parses `-device virtio-balloon` and checks it; at most one per VM. |
| raw AIO | `src/util/src/aio/raw.rs` | pread/pwrite/fallocate wrappers with EINTR/EAGAIN retry. |

How they interact:

- Three threads act on `Net` and its handlers, while the iothread runs the handlers.
  - The vCPU/transport thread calls `activate` and `deactivate`.
  - The control thread calls `update_config`.
  - The guest driver posts buffers and kicks queue eventfds.
  - The host network fills the taps.
- Net and the handlers share three things:
  - the eventfds `update_evt` and `deactivate_evt`: each handler holds a dup, and all dups share one counter;
  - the per-pair channels;
  - the tap fds: a tap clone lives in `Net.taps` and in the handler.
- The control handler holds a dup of the same `deactivate_evt`. `report_virtio_error` writes it, and that tears down every I/O handler too.
- The iothread holds each handler only through the callbacks it registered. A handler dies when its last notifier is deleted. Its channel Receiver dies with it.
- The balloon parser runs once per `-device` option at VM configuration, and the raw AIO helpers are called by a block backend's I/O thread. Neither shares state with the net or VFIO parts.

## Modules

### `NetIo` — the virtio-net I/O plane (`net.rs`)

| Code | Model |
|---|---|
| `Net.taps`, `Net.senders` | `netTaps`, `senders` (the activation whose Senders are held) |
| channel contents | `chan[<<gen, pair>>]` |
| `NetIoHandler.{tap, tap_fd, is_listening}` | `h[o]` for owner `o = <<gen, pair>>` |
| registry: fd → (handler list, alive/parked) | `reg` |
| epoll ready list | `ready` |
| eventfd counters (non-zero = readable) | `updEvt`, `deactEvt`, `rxKick`, `txKick` |
| pending edge of the edge-triggered tap registration | `tapEdge` |
| rings | counters: `rxAvail`/`rxUsed`/`rxPosted`, and the same for tx |

Actions:

- `Activate`, `Deactivate`, `UpdateConfig(withTap)` (one per `Net` method).
- The iothread:
  - `Wait` (epoll_wait).
  - `Dispatch(k)`: run every callback registered on fd `k`, then apply the batch they return.
- The environment: `GuestPostRx`, `GuestPostTx` and `TapReceive`.

The callbacks are operators on a record of the state they may change:

| Operator | Code |
|---|---|
| `TapCb` | handle_rx plus Park |
| `RxKickCb` | Resume when not listening |
| `TxCb` | handle_tx |
| `UpdCb` | `update_evt_handler` |
| `DeactCb` | `deactivate_evt_handler` |
| `CtrlCb` | the ctrl callback: `handle_ctrl` (one `pop_avail`, `CtrlValid`), and `ReportVirtioError` on a rejected command |
| `CtrlDeactCb` | `NetCtrlHandler::deactivate_evt_handler` |

The control queue is composed into the same module, because it shares the event loop and `deactivate_evt` with the I/O handlers:

- `CtrlVq` says whether the driver negotiated it. If so, `Activate` first registers `CtrlNotifiers` (the ctrl queue event and `deactivate_evt`).
- The ctrl ring is `ctrlAvail` (a sequence of commands), `ctrlUsed` and `ctrlPosted`. `ctrlKick` is its eventfd. `needsReset` is DEVICE_NEEDS_RESET.
- `GuestPostCtrl(c)` is the driver. With `CtrlSync` it waits for each answer, as Linux's `virtnet_send_command` does. Without it, it may post again at once.
- The commands (`MCCtrlCmds`) are a valid MQ command, a pair count of 0 and a non-MQ class.

The registry's semantics (`ApplyOp`) are taken from spec.md 4.1:

- Delete of an unknown fd, Park of an fd not alive, and Resume of an alive fd are errors.
- `update_events` stops at the first error, and the iothread's loop ends.

`MCNetIo` instantiates it. Symmetry is not used: pair 0 is special in `update_config`, and generations are ordered.

### `NetRxAbstract` — what the rx path promises, and its refinement

`NetRxAbstract` is the rx service seen from the guest, per pair:

- `serving`, `avail`, `used` and `waiting` packets.
- `Start` and `Stop` start and stop serving a pair. `Post` posts a buffer, and `Arrive` is a packet arriving.
- `Deliver` moves k waiting packets into k posted buffers, and only while the pair is served. It is weakly fair.

`NetIo` defines `RxService == INSTANCE NetRxAbstract WITH` this mapping:

- `serving` is "the pair's handler of the current activation is alive".
- `avail` and `used` are `rxAvail` and `rxUsed`.
- `waiting` is the sum of `tapPkts` over the pair's taps (`PairPkts`).

`RxServiceRefined == RxService!Spec` is checked as a PROPERTY in net_rx. It checks two things at once:

- Every NetIo step is an abstract step or a stutter. No packet is lost or duplicated, and no buffer is used without a packet.
- The iothread's fairness gives the abstract delivery fairness.

### `VfioMsix` — MSI-X discovery and BAR carving (`vfio_pci.rs` 157-277)

Sizes and offsets are in units of 8 bytes, the granularity of the MSI-X table offset. An entry is 2 units, and `PageSize` is the host page in units.

- `dev` is what the device reports: the BIR, the table offset and the Table Size field, the raw BAR dword, and the region info.
  - The region info (`RegionInfos`) is mmappable whole, not mmappable, or given with the kernel's sparse-mmap capability, which already leaves out the table pages.
- `MsixInfoStep` is `get_msix_info`. `BarRegionInfo` is `bar_region_info` followed by `fixup_msix_region` (the operator `FixupMsixRegion`, a translation of all four branches).
- `ReferenceCarve` is the reference definition: exactly the BAR units outside the page-aligned table span stay mmapped, in non-empty pieces.

### `VfioPci` — config space and `write_config` (`vfio_pci.rs` 91-154, 289-299, 376-459)

| Code | Model |
|---|---|
| `pci_config.config` | `cfg`: bytes of COMMAND/STATUS (4..11), BAR0 (0x10..0x13) and MSI-X Message Control (`CapOff`+2, +3) |
| the BAR0 mapping of `update_bar_mapping` | `mapped`: base bytes, or `Unmapped` |
| vectors routed by `vfio_enable_msix` | `hostMsix` |

- `pci::config` is not under `src/`. The write masks (`WriteMask`, `WriteClearMask`), `PciWrite` and `GetBarAddress` follow spec.md 4.6.
- BAR values stay little-endian byte tuples, because TLC's integers are 32-bit signed.
- `Realize` is `pci_config_reset`, and a failure of the host `write_region` fails realize.
- `WriteConfig(w)` is `write_config`:
  - It checks the size and end guard.
  - The host may reject the write.
  - It then takes the COMMAND, BAR, MSI-X or plain branch (`CommandWrite`, `BarWrite`, `MsixCapWrite`).
  - `vfio_enable_msix` / `vfio_disable_msix` may fail when `MsixCanFail`. The failure is only logged.

### `MCVfio` — VfioPci and VfioMsix in realize's order

`pci_config_reset` runs first (VfioPci's `Realize`), then `get_msix_info`, `bar_region_info` and `fixup_msix_region` (VfioMsix, with its `stage` renamed `mstage`), and only then the guest's config writes. Each step is a step of one module with the other unchanged, guarded by the stage the other has reached. `MCVfio` gives:

- the config a host left behind: MSE and BM on, and BAR0 at 0xfebf0000;
- the writes of a probing driver: MSE on and off, COMMAND's high byte, a STATUS clear, two BAR bases and the sizing probe, MSI-X Enable on, off and on with Function Mask, and a write past the end.

### `RawAio` — the raw AIO helpers (`raw.rs` 23-184)

One calling thread makes up to `MaxCalls` calls. A syscall attempt is one step, and the kernel's answer is a nondeterministic choice (`PAnswers`, `FallocAnswers`): success, `EIO`, a transient `EINTR`/`EAGAIN` (at most `MaxRetries` in a row), or, for `fallocate`, an errno of a file system that lacks the mode. The kernel refuses a negative offset or length (`EINVAL`) and a range past the largest offset (`EFBIG`).

| Code | Model |
|---|---|
| `raw_read`, `raw_readv`, `raw_write`, `raw_writev` (one loop each, identical but for the syscall) | `PLoop`: one iteration; `break` unless `ret < 0` with `EINTR`/`EAGAIN` |
| `raw_datasync` | `RawDatasync`: one `fdatasync`, no retry |
| `raw_discard`, `raw_write_zeroes` | `Begin` with a fallocate call; they return `do_fallocate`'s value |
| `do_fallocate` loop; errno mapping | `DoFallocate`; `ErrnoToRet` |
| `offset as i64`, `size as i64` | `AsI64`: two's complement at `Width` bits |

- Buffers and iovecs are abstracted to a length, and a success transfers all of it. A short transfer is returned as-is by the code and is the caller's concern.
- The `as i64` casts are `AsI64`, a two's-complement cast at `Width` bits. A value past the largest i64 becomes negative, and the kernel refuses it with `EINVAL`.

### `BalloonConfig` — `parse_balloon` and `check` (`balloon.rs` 19-115)

- A command line is a record: whether `CmdParser::parse`, `pci_args_check` and every `get_value` succeed (`wellFormed`), whether the id is over the length limit, and `auto-balloon`, `membuf-percent` and `monitor-interval`, each possibly `Absent`.
- `ParseBalloon(l)` is the whole of `parse_balloon`: the `dev_name` test, the defaults (`BuildConfig`), `check()` (`Check`), and only then the insertion into `dev_name`.
- `SpecValid` is spec.md 4.5's statement of a valid line, and `ParseAsSpecified` compares every call with it.

### `MCHost` — the two host-side parts in one run

The two modules share no state. `MCHost` instantiates both, and a step is a step of one of them (as in the composition of independent environments), so the two are checked by one run.

### `NetConfig` — realize, features and `update_config`'s config half (`net.rs` 54, 716-992, 1069-1091)

| Code | Model |
|---|---|
| `state.device_features`, `state.driver_features` | `deviceFeatures`, `driverFeatures`: sets of bit numbers |
| `state.config_space.mac`, `.max_virtqueue_pairs` | `configMac`, `maxPairs` |
| `self.taps` | `taps`: `NoTaps` or the backend it came from and its offload flags |
| `self.net_cfg` | `netCfg`: mq, queues, MAC tokens, backend, tun mq flag, whether the tap opens, whether the iothread is missing |

- `RealizeResult` is the whole of `realize`, in its order. First the iothread check. Then the feature set and the MQ pair count. Then the tap: `check_mq` and `create_tap` (`TapOpens`), or the reuse of fd taps. The MAC (`BuildDeviceConfigSpace`) comes only after a successful tap open, so a failed open leaves the new features without the MAC bit.
- `UpdateConfig` takes the new config, or `NetworkInterfaceConfig::default()` for `None` (`DefaultCfg`, spec-modelled). With a config, it sets the current taps' offload from the driver's page 0 (`GetTapOffloadFlags`). It then realizes. Sending the taps to the handlers is NetIo's `UpdateConfig`.
- `SetDriverFeatures` uses `checked_driver_features`, which is in the virtio crate and not under `src/`. spec.md 4.3 says the value is masked by the device features. The other page is kept.
- `WriteConfig` stores a six-byte MAC at offset 0 only for a legacy driver.
- `MCNetConfig` creates the device with mq, 4 queues, a MAC and a named multi-queue tap. Its update configs are the same one, a single-queue fd-backed one, and one with an unparsable MAC. `update_config(None)` is also possible.

### Possible extensions

- **VfioPci**: the irqfd and GSI routes per vector (spec.md 7's idempotence of enable, disable, enable), and `read_config`.

## Runs

Run each with `tlc -workers 2 -config <cfg> <MC module>`: `MCNetIo` for the `net_*` runs, `MCVfio` for the `vfio*` runs, `MCNetConfig` for `net_update_features`, and `MCHost` for `host`.

| Run | cfg | Expect | What it shows |
|---|---|---|---|
| net_rx | NetRx.cfg | pass | One pair, rx ring up to 2 buffers, 2 packets. A full ring parks the tap and the next kick resumes it. Buffers are conserved, `is_listening` agrees with the registry, queued packets are eventually received (`RxProgress`), and NetIo implements `NetRxAbstract` (`RxServiceRefined`). |
| net_update | NetUpdate.cfg | pass | Two `update_config` calls (with and without a tap) before, during and after an activation, beside two control commands from a synchronous driver. Tx buffers are conserved while `writev` succeeds (`TxBuffersConserved`), including the tap-`None` path after an update. With `MaxGen` 1 the blocking `recv` of net_update_block cannot happen here. A popped command that gets no answer always leaves DEVICE_NEEDS_RESET set (`NoSilentDrop`). |
| net_listen_after_update | NetListenAfterUpdate.cfg | violation | An update while the tap is parked leaves `is_listening` false with the new tap armed. The next kick's Resume fails. |
| net_mq_update | NetMqUpdate.cfg | violation | With two pairs, `self.taps.take()` inside the send loop gives pair 1 `None`. |
| net_update_coalesce | NetUpdateCoalesce.cfg | violation | Two updates coalesce in `update_evt`. One callback takes one tap, and the newer tap stays in the channel. |
| net_reactivate | NetReactivate.cfg | violation | `deactivate` does not wait for the handlers. A re-activate shares the tap fd, the old Delete batch removes it, and the new batch fails. |
| net_update_block | NetUpdateBlock.cfg | violation | `update_config`, `deactivate` and a re-activate all happen before the iothread runs. The old handler is deleted with `update_evt` unread, and the new handler registers a dup of the same readable eventfd. Its `recv()` then waits on an empty channel whose Sender is alive in `Net.senders`, and the iothread stops for good (`NoBlockingRecv`). spec.md 5 says handlers must not block on arbitrary syscalls. |
| net_ctrl_kick | NetCtrlKick.cfg | violation | A driver posts two control commands, each with a kick, before the iothread runs. The kicks coalesce in the eventfd, `handle_ctrl` pops one, and the second is never answered (`CtrlProgress`). |
| vfio | Vfio.cfg | pass | Realize, then the guest's writes, in `MCVfio`. Realize covers table offsets 0..7, 1-3 vectors, BARs of 2 and 4 pages, and BIRs 0, 2 and 6. A whole-region mmap is carved exactly as the reference says (`ReferenceCarve`), so no mmap covers the table. BIR 6 fails realize. The guest then makes up to four writes, with the host free to reject any. The guest-visible MSI-X Enable bit agrees with the host vectors (`MsixHostAgrees`). A table offset beyond the BAR (a malformed device) is outside the bounds: there the kept mmap would be larger than the region. |
| host | Host.cfg | pass | Two raw AIO calls at a 4-bit width, with offsets 0, 3 and 12 and sizes 0, 5 and 9, beside two balloon parses over ten lines. Every helper returns what the kernel's last answer means and never a transient one (`ReturnsFinalAnswer`). Every call returns (`CallsReturn`). `parse_balloon` accepts exactly spec 4.5's lines while no balloon is registered, and registers at most one (`ParseAsSpecified`). |
| vfio_pci_msix_fail | VfioPciMsixFail.cfg | violation | A failed `vfio_enable_msix` leaves Enable set and no vectors. spec.md 5 says the guest cannot observe Enable before the routes exist. |
| net_update_features | NetConfigFeatures.cfg | violation | Realize, then the driver takes MQ, CTRL_VQ and MAC, then `update_config(None)`. Its realize rebuilds `device_features` from the default config, without those bits, and `driver_features` keeps them. spec.md 3 says the driver features are a subset of the device features (`DriverSubsetOfDevice`). |


Bounds:

- `MaxGen`, `MaxUpdates`, `MaxRxPost`, `MaxTxPost` and `MaxPkts` cap the activations, updates, posted buffers and packets.
- The blocking `recv` needs a second activation, so `NetUpdateBlock.cfg` has `MaxGen` 2 and one update. net_update keeps `MaxGen` 1: with two activations, two updates and the control queue, its state space is beyond the time limit.
- One pair is enough for every per-handler property. The multi-queue bug needs two pairs, and `NetMqUpdate.cfg` has them.
- Two rx buffers and two packets reach the full ring, the Park, the kick and the Resume with packets still queued.
- Two updates reach coalescing, and an update with and without a tap.
- Two control commands from a synchronous driver reach a valid command followed by a rejected one, and a rejection followed by the teardown. Two commands from an asynchronous driver reach the coalesced kick.
- The control queue's liveness (`CtrlProgress`) is checked only in the violation run: in net_update the liveness graph of 263k states is beyond the time limit.
- VfioMsix:
  - Offsets 0..7 with a 4-unit page reach four table positions: a table at the start, in the middle, across a page boundary, and at the end.
  - 1-3 vectors reach one or two table pages.
- RawAio: at `Width` 4 the largest i64 is 7.
  - Offset 12 casts to -4. Size 9 casts to -7 for `fallocate`.
  - Size 5 at offset 0 fits, and at offset 3 it passes the largest offset (`EFBIG`).
  - Size 0 is `EINVAL` for `fallocate` and an empty transfer for `pread`.
  - `MaxRetries` 1 gives a retry in each loop. Two calls check that the retry count starts afresh.
- BalloonConfig: the ten lines put each range bound just inside and just outside with `auto-balloon` on, the same values with it off or absent, the defaults, a long id and a malformed line. Two parses reach a rejection followed by a success and a second balloon after one.
- VfioPci: four writes reach every branch and every pair of them, including MSE on then a BAR move, a probe then a base, and Enable on, then a masked rewrite, then off. Five writes take about four minutes in the composed run, which is too close to the limit.
- NetConfig: four driver or update calls reach a negotiation followed by an update that drops features, and a legacy MAC write around an update.

Fairness: `WF_vars(IoThread)` in NetIo, and `WF_vars(Syscall)` in RawAio.

- In RawAio, the thread inside a helper keeps making syscalls. `CallsReturn` also depends on the bound on transient answers.

- The iothread runs its loop for ever.
  - While an fd is readable and the loop has not stopped, epoll_wait returns.
  - The ready fds are then dispatched in turn.
- No fairness is assumed for the guest, the host network or the control plane. They may stop at any time.
- Deadlock checking is off, because the bounded environment stops. The VFIO models are finite sequences of realize steps and guest writes, with no fairness.

## Not modelled

- Descriptor chains, iovec translation, interrupts (`should_notify`) and the readv error drain: data and I/O that no property here distinguishes.
- `read_config` (it changes nothing), and the config space fields other than `mac` and `max_virtqueue_pairs`.
- A failure of `set_offload` in `update_config`.
- `realize` advertises MQ from one queue pair (`net.rs` 885), where spec.md 4.4 says more than one pair. It is listed as a hazard because no run is left under the cap.
- A MAC of more than six parts makes `build_device_config_space` panic (`net.rs` 740). The option parser that decides whether such a string can arrive is not under `src/`.
- Migration state bytes.
- Timers of the event loop.
- VFIO:
  - `register_bars`, `setup_bars_mmap` (only the host mmaps), irqfd/GSI allocation, `read_config` and the aarch64 `dev_id`.
  - BARs other than BAR0 in `VfioPci`: every BAR branch behaves the same way.
- The control queue's response byte and descriptor layout. A rejected command is not answered with ERR (spec.md 4.4 says OK or ERR). The model records it as popped and unanswered, with DEVICE_NEEDS_RESET set.
- `machine.rs` (`MachineLifecycle`): `start`, `pause`, `resume` and `destroy` are one-line calls of `notify_lifecycle(old, new)`, which has no implementation under `src/`. With no implementation there is no state to model. `start` passes Created → Paused although its doc comment says the VM is running on return, and this is visible in the source. The other traits are declarations.
- `balloon.rs` unit tests (117-228).
- Runs are capped at twelve. Three disagreements TLC finds have no run of their own, and are listed as hazards:
  - A failed `writev` drops a popped tx descriptor (`net.rs` 423). `TxBuffersConserved` fails with `TxCanFail` TRUE.
  - A 1- or 2-byte BAR write moves the base without a remap (`vfio_pci.rs` 428). spec.md 4.7 says any BAR write other than the sizing probe remaps. TLC shows this once `MCWrites` has a 2-byte write of BAR0's upper half. The vfio run's writes are dword-wide, and it checks no mapping property.
  - The deactivate handler is registered twice after an update (`net.rs` 494; see below).
- The `deactivate_evt` double registration (`net.rs` 494) also breaks `NoLoopError`. net_reactivate checks that property with no updates. With one activation and one update, TLC's trace leaves `deactivate_evt` registered twice and then shows its handler's Delete batch failing.
- `raw_datasync` does not retry `EINTR`, unlike the other helpers. spec.md says nothing on it, so it is listed as a hazard, not a finding.
- MSE cleared leaving BAR0 mapped (`vfio_pci.rs` 405): PCI says decoding stops, but spec.md 4.6 is silent, so there is no run for it.
