# A TLA+ model of the AGL advanced audio agent

The repository is a set of bindings for the Automotive Grade Linux application
framework. Together they let applications set volumes and routes of sound cards
without knowing the cards: a low-level ALSA binding, a hardware abstraction
layer (HAL) for each card, a HAL for amplifiers on a MOST network, a policy
script in Lua, and an ALSA plugin that asks the agent for permission before a
player's PCM opens. This directory models its concurrent and stateful parts in
TLA+, checks them with TLC on small instances and proves what can be proved
with TLAPS.

Paths below are relative to `src/`. `HI` stands for `HAL-afb/HAL-interface`,
`MOST` for `HAL-afb/HAL_MOST_UNICENS`.

## 1. Inventory

| part | state it keeps | operations | talks to |
|---|---|---|---|
| MOST volume library, `MOST/ucs2-vol` | per value: availability, busy flag, target, transmitted and actual volume; per container: index of the round robin, `_tx_busy`, `_service_requested` | init, set, node available, service, result of a write | wrappers, by callbacks |
| MOST wrappers, `wrap_volume.c`, `wrap_unicens.c` | one-shot timers, pending I2C calls | set master and PCM volumes, arm a timer, `writei2c` and its answer | event loop, UNICENS binding |
| MOST HAL, `hal_most_unicens.c` | last volumes of the ALSA controls | control callbacks, node events, start-up | HAL interface, UNICENS, wrappers |
| policy hook, `Alsa-Plugin/Alsa-Policy-Hook` | counter, error flag and semaphore shared by two threads; timers | install, close, answer, timeout, event, hang-up | audio agent over a websocket, the player |
| volume ramp, `HI/hal-volramp.c` | handle with steps, delay, current and target volume; timers | start a ramp, configure, timer | HAL interface, event loop |
| normalisation, `HI/hal-volume.c` | none | percent to raw and back | HAL interface |
| HAL interface, `HI/hal-interface.c` | table of controls, device id | start-up, set, get, list, event dispatch | ALSA binding, ramp |
| ALSA events and registry, `Alsa-afb/Alsa-RegEvt.c` | 16 subscription slots with event sources, registry of HALs | subscribe, event, register, look up | HALs, event loop, sound cards |
| ALSA use cases, `Alsa-afb/Alsa-Ucm.c` | cache of opened managers by card | query, get, set, reset, close | sound cards |
| ALSA controls, `Alsa-afb/Alsa-SetGet.c` | none of its own | set and get lists of controls, partial success | sound cards |
| ALSA custom controls, `Alsa-afb/Alsa-AddCtl.c` | controls of the card | create, reuse or replace a control | HAL start-up |
| volume policy, `conf.d/project/lua.d` | saved volumes of each HAL | temporary and permanent controls | HALs |
| JSON packing, static HAL tables, verb tables, web pages, HAL plugin (proof of concept) | none that changes | | |

What is hard in them, and what correctness means:

* **MOST volumes.** A volume is only recorded when it is set; a timer starts at
  most one write, the answer of which comes later, among new volumes, restarts
  of nodes and failures. Correct is: one write at a time, no volume forgotten,
  no value starved, and in the end every node has the volume asked for.
* **Policy hook.** Two threads share a counter, a flag and a semaphore without
  a lock, calls are answered in any order, after their timeout, or never.
  Correct is: the PCM opens only when every request was granted, the player
  never waits for ever, the close hook waits for its own answers.
* **Ramp.** Handlers are atomic but timers accumulate: ramps overlap on one
  handle and are reconfigured while they run. Correct is: steps in the right
  direction, at the configured pace, and an end at the target.
* **ALSA binding.** Long-lived tables indexed by card, filled and never
  emptied, with failures between the steps of filling them. Correct is: one
  slot for each card, an answered subscription delivers events, a cached
  manager is an open one.
* **HAL interface and controls.** The controls a HAL adds outlive the binder,
  its table is matched to the answers of the core by position, and a request
  lists the controls of a card once and then serves them one by one. Correct
  is: wherever the last start was cut off, every tag is mapped to its control,
  nothing asked for is lost without a warning, and no event is missed.
* **Lua policy.** Nested save and restore, through percentages that are rounded
  both ways. Correct is: a released temporary control leaves the volume it found.

`PROJECT.json` lists every hazard at its line, with the properties that cover
it or the reason why none does.

## 2. Modules

| module | models | built on |
|---|---|---|
| `MostVolume` | volume library and its wrapper, one action per entry point | |
| `MostMirror` | abstract specification of the library | |
| `MostNetwork` | the library composed with nodes, UNICENS, the messages between them and the start-up of the HAL | `MostVolume` |
| `PolicyHook` | the policy hook: player's thread, event loop thread, audio agent | |
| `HalVolume` | conversion of volumes, as operators | |
| `VolumeRamp` | volume ramp on a sound card with other clients | `HalVolume` |
| `UcmCache` | table of use case managers, requests in threads, sets of up to three steps | |
| `EvtSubscribe` | subscription to the events of cards, event loop in a thread of its own | |
| `AlsaControls` | controls of a card; the verbs that read, write and add them | |
| `HalControls` | a HAL over the core: start-up, get, set, events, restarts | `AlsaControls`, `HalVolume` |
| `VolumePolicy` | temporary controls that save and restore the volume of every HAL | `HalVolume` |
| `MostVolume_proofs`, `MostNetwork_proofs`, `UcmCache_proofs`, `VolumeRamp_proofs`, `VolumePolicy_proofs`, `PolicyHook_proofs`, `EvtSubscribe_proofs`, `HalControls_proofs` | theorems | the module named, TLAPS |
| `MC...` | values of the constants | |

Operators whose comment begins with "Mutant" are wrong variants of the
definition that follows them; no specification uses them. They document what
each property is able to detect.

### MostVolume

State and code correspond one to one: `available`, `busy`, `target`,
`transmitted`, `actual` are the fields of each `CDeviceValue`,
`idxProcessing`, `txBusy`, `serviceRequested` those of `CDeviceContainer`.
`timers` counts the one-shot timers of `wrap_volume_service_cb`, `inFlight` the
`writei2c` calls without an answer, and `running` tells whether
`lib_most_volume_init` was called. Every entry point is one handler of the
binder's event loop and one action:

| action | code |
|---|---|
| `SetMaster`, `SetPcm`, `SetDirect` | `unicens_master_vol_cb`, `unicens_pcm_vol_cb`, `lib_most_volume_set`, all through `SetValue` |
| `ServiceIdle`, `ServiceFires`, `ServiceFails` | `Update`, run by the timer: nothing to do, one write started, or no memory for it |
| `I2cResult` | `wrap_ucs_i2cwrite_cb`, the value's and the container's `HandleI2cResult` |
| `NodeAvailable` | UNICENS node event, `ChangeNodeAvailable` |

Two conversions matter and are modelled: the percentage of the ALSA controls
is clamped and scaled to 0..255, and the status of an answer is narrowed to
`uint8_t`. `StatusAssumption` says that no error narrows to 0, which holds for
the 0 and -1 the framework answers. Delays are not modelled: a timer fires
some time after it was armed. `_transmitted_value` is not initialised by the
constructor, so it starts as a value outside its type. A call before
`lib_most_volume_init` has no effect, as in the wrapper.

### MostMirror

Desired and confirmed volumes, reachable nodes, and a link that carries one
write at a time. `MostVolume` implements it: the pending write of the mirror is
the busy value's `transmitted`. Which volume a successful answer confirms, that
a node event forgets it, and that a write is started only when it is needed are
all in this refinement.

### MostNetwork

The nodes have volume registers that a power-up clears; UNICENS keeps accepted
writes in `wire`, and its answers and node events reach the HAL through `inbox`
in the order they happened. `Deliver` hands one to the library. This part is
outside the repository and is modelled from the calls in `wrap_unicens.c` and
the events handled in `hal_most_unicens.c`. `LostAnswers` says whether a write
may take effect and still be answered by an error.

`unicens_service_init` starts the ring (`UcsInitialise`) before the library
(`NetLibInit`), so an event in between finds no library; `missed` records the
nodes whose last event did. Each of the two steps may fail, and the start-up
then ends there: the step is never taken.

### PolicyHook

The install hook first gets its event loop, starts the thread that runs it and
connects to the agent; any of the three may fail and refuse the PCM before a
request is made (`Connect`, `ConnectFails`). A semaphore that cannot be
initialised is only reported by the code, and is left out. The player's thread is a program with steps (`pc`), and reading and writing
the shared counter are separate steps of it (`LoadCount`, `StoreCount`), as in
`count++`; the same holds for the event loop (`AnsweredOk` loads,
`Decrement` stores). The history variables `early` and `late` record whether
an answer was ever handled while calls were still being sent, and whether one
came after its timeout. `AnswerCrashes` covers the two undefined accesses of
`OnResponseCB`: the client not stored yet, and a timer already freed. Counter
and error flag come from `malloc` and start with any value of `Garbage`.

### HalVolume and VolumeRamp

`HalVolume` is the choice of scale and the two conversions. `VolumeRamp` keeps
the handle, the raw volumes of the possible slaves, and one entry in `timers`
for each timer armed, because a new ramp does not cancel the previous timer.
Time passes in ticks, `Ticks50` of them in the 50 ms of the ramp modes; timers
may be late. `ForeignSet` is another client of the same card.

A timer computes the next volume and has it written. Three things can come of
it, and they differ: the card takes it (`Fire`); the card refuses it, because it
is out of range or for a reason of its own, which the core answers by a success
with a warning that `halCallAlsaSetCtls` drops, so that the ramp goes on from a
volume the slave does not have (`FireRefused`); or the call itself fails, and
the timer is abandoned (`FireFails`). `hold`, `overlapped`, `abandoned`,
`refused` and `foreign` are histories for the properties.

### UcmCache

The table `ucmHandles` is `ucm` and `cardId`, indexed by slot; `managers` lists
the managers the ALSA library ever opened, whether each is still open, and
its setup: the verb in force and the devices and modifiers enabled under it. The binding leaves `noconcurrency` unset, so
requests run in threads of the binder and the table has no lock: search, open,
each store, the load of the manager and each step of a set are separate.
`alsaUseCaseQuery` and `alsaUseCaseGet` are one operation (`read`): they look
for a manager in the same way, and what they read of it is left out.
`alsaUseCaseSet` gets its manager first and then looks at what it is asked for
(`Load`): a verb, a device and a modifier, each or none of them (`want`). It sets
them in this order (`SetVerb`, `SetDevice`,
`SetModifier`); each may be refused, which ends the request with what was set
before it in place. A device or modifier without a verb goes to the verb that is
there, whoever has set it. A set that asks for values as well is then a get, with
a search of its own (`SetThenGet`). What the ALSA library makes of a setup is
external: another verb disables the devices and modifiers of the one before, and
nothing can be enabled without a verb. `overlapped` records whether a request
ever searched the table while another was opening a manager, `base` the setup a
set found, kept as long as nobody disturbs the set, and `mixed` the sets whose manager another request has changed since.

### EvtSubscribe

A request opens the card, looks for its slot, and otherwise fills one in
steps: `Create` (the `evtHandle` and the slot), `Hook` (subscription of the
device and `sd_event_add_io`), `MakeEvent`, `Join`, `Count`. Any of them may
`Fail`, after which the device is closed and the slot and the source stay.
The search takes the first slot that is not the one looked for, in use or not,
as the code does.

The event loop serves a source in another thread. `Fire` takes the event, reads
the value of the moment and pushes it to those who listen. `FireFails` takes the
event and cannot read the control: nothing is pushed and nobody tries again.
`Crash` is the push to a binder event that is not made yet, a field of
uninitialised memory; that it tells nobody is the other outcome, which is `Fire`
without listeners. A card has one control, and its only events are changes of
its value.

A client is `stale` from a change of its card until it is told, and the change is
`missed` if its event was taken without the control being read; a later change
tells of both. A card that is removed does not come back. A client that joins an
existing subscription leaves the device it opened itself open
(`Alsa-RegEvt.c:239`); file descriptors are not modelled. `overlapped` records
that a slot was filled during another request.

### AlsaControls and HalControls

`card` maps the numids of a card to its controls; they belong to the kernel and
outlive the binder. A request is parsed (`NumidsListParse`) into the array
`ctlRequest`, the controls are listed once (`todo`), and then each is skipped,
read, written or refused in a step of its own, so another request may remove or
add controls meanwhile. The two forms of a query, the short form
`[numid, value]` and the garbage numid of an entry without id are modelled; the
names, types and scales in an answer are not. `addcustomctl` looks each name of
a table up and reuses, replaces or creates the control, writes the default and
reads back.

`HalControls` is a HAL on top: `halServiceInit` as `Start`, the steps of
`addcustomctl`, `Map` (answers are told apart by position) and `Subscribe`; the
verbs `halSetCtls`, `halGetCtls` and the set of a ramp, which translate tags
and percentages; and `halServiceEvent`. The binder may stop at any step
(`Crash`) and come back with the same table or that of another version.
`Client` is any other client of the core.

Choices made here follow the code: a set through the HAL is a success even when
the core refused it; a HAL whose start-up failed stays registered and is served
with the numids its table had before; the start-up writes the default into
hardware controls too; a tag that shares its control with an earlier one is
answered under the name of that one.

### VolumePolicy

The functions of `onload-aaaa-03-controls.lua`: a request saves the volume of
one HAL after the other and adjusts it, a release restores it. The Lua
interpreter runs one control at a time, but each get and set is a call to a HAL,
between which other clients move the volume. The card has raw volumes (`vol`)
and the script sees percentages: `Percent` and `Put` convert as the HAL does,
which rounds down both ways, does not add `minval` when it writes, and hears
nothing of a write the card refuses. A call may fail: one without a response ends
the loop (`GetFails`), but its result is compared with `nil`, so the control is
granted nevertheless; any other leaves the HAL out (`HalSkipped`).
`wanted`, `clean` and `touched` are histories that the properties need.
A permanent control runs the same code; one that is kept is a request that is
never released.

## 3. Runs

| run | instance | what it shows |
|---|---|---|
| `most_library` | three values, two nodes, master on both and a left channel on one | safety invariants, no starvation, convergence, refinement of the mirror |
| `most_network` | two nodes with a value each, at most three messages under way | nodes are known, what is confirmed is in the node, rest means applied, volumes get through |
| `hook` | two requests, both garbage values | the promises of the hook that hold, each under the weakest condition found |
| `ramp` | two slaves, two timers, all modes, a step of 0, delays of 0 and 3 ticks beside those of the modes, targets 0% and 2% of a 0..255 control | direction, pace, life and end of ramps |
| `ucm` | two requests at a time, three cards, two slots, two managers; two use cases, a device and a modifier, set on one of the cards | what the table guarantees while no search overlaps an opening; sets of every shape, refused or disturbed half-way |
| `evt` | two clients, two cards, two slots, two handles | who was answered is told of its own card |
| `hal` | two tags on one hardware control and one added control in two versions, three starts | mapping, numids, reads, writes and events across restarts |
| `policy` | two controls, three HALs with ranges 0..7, 0..100 and 10..12, one failing call, a slider | a control alone is in force and is undone, up to the rounding |
| `hook_open`, `ucm_closed`, `evt_cards`, `policy_nested` | as the runs above; `ucm_closed` one request at a time, `evt_cards` one client, `policy_nested` without failing calls | violations, section 4 |

**MOST library.** `SingleWrite`: three flags that are set and
cleared in different handlers agree, and one write is on its way at most.
`OneTimer`: the flag that suppresses timers stands exactly as long as one is
armed. `NoLostWakeup`: a stale volume has a timer or an answer to come.
`NoStarvation`: under any traffic and any failures, each value is served again
and again, provided memory lasts. `Convergence`: left alone, the library
applies everything and stops. `MirrorSpec`: the refinement. On the network:
`NodesKnown`, `ConfirmedOnNode`, `RestMeansApplied`, `VolumeReachesNode` relate
the library's belief to the nodes and their registers.

**Hook.** `OpenUnlessEarly`, `ReleasedUnlessEarly` and
`WaitEnds` hold as long as no answer is handled while calls are being sent, even
with late answers; `CloseInTime` needs answers before their timeout as well;
`RefusalHasCause` needs nothing: a PCM is refused because the agent could not be
reached, before any call is made, or because of a request that was denied, timed
out or not sent; garbage in the client never refuses one.

**Ramp.** `RampAlive`: a ramp under way has a timer whatever the card refuses,
unless a failed call gave one up. `SpacedUnlessOverlapped`: a volume stands for
the delay it was set with. `TowardsTarget`: while nobody else moves the slave, no
step goes the wrong way or past the target, also after refused steps.
`RampSettles`: left alone, all timers stop, refused writes or not, and the slave
reads as the target unless the last write was refused. The last two are said of
ranges that start at 0.

**Use case cache.** `RightManager`: a request never works with
the manager of another card; `OneManagerPerCard`: no card has two managers and
no manager is lost. Both need that no request searches the table while
another is opening a manager. Without that, a slot is found before its card is
stored (static memory says card 0), or given to two requests. `SetAsAsked`: a
set that ends well, of any shape, has in force what it asked for and of what was
there before it exactly what its verb does not disable, whatever was left by a
set that was refused half-way.

**Events.** `StaleIsPending`: a client that was answered listens to an open
device of its card, although devices are closed by failures and slots are taken
by other cards, and while it has not been told of a change an event waits there;
the one exception is an event that was taken and whose control could not be
read. `OwnBoardsOnly`: nobody is told of a card it did not ask for.
`ToldInTheEnd`: the first as a liveness property. All need that no slot is filled
during another request.

**HAL.** `MappedRight`: with the HAL up each entry is mapped to the control of
its name and range. `NumidsBounded`: starting again adds no control, a version
that changes a range replaces it once. `AppliedOrWarned` and `AnswersAsked`: a
request to the core does what it was asked or warns, and nothing else.
`TagsAnswered`: the same of a read through the HAL, in percent. `UntoldIsDue`: a
change whose callbacks were not run yet is still to be told.

**Policy.** `RestoresUnlessNested` and `GrantedMeansAdjusted`: without nesting
and failed calls, a held control is in force on every HAL the user leaves alone,
and released, undone: never above the volume it found, and below it by less than
a percent of the range and a raw step. Both are said of ranges that start at 0;
for others a `ctlset` writes a volume that is off by `minval`, or is refused.

**Bounds.** Three values are the fewest with a shared node, a shared key and a
value that belongs to neither; two of them busy at once would already break
`SingleWrite`. One percentage and one direct volume, with the initial 0x01,
give each value three volumes: enough for "set, set back, set again". Two
requests show every race of the hook between "sending one" and "having sent
the other". Three messages let an answer, a node that goes and a node that
returns overtake a new volume. Two timers are the fewest that overlap; targets
at the bottom of the scale are enough because a step looks only at the order
of current and target, and 0 and 2 are reached both by whole steps and by clamped
ones. Delays of 0 and 3 ticks are shorter and longer than those of the modes, 1
and 2; no property depends on what a tick is, and the theorems hold for any
delay. Three cards for two slots fill the table of managers; two requests are the
fewest that overlap. Threads, use cases and cards other than 0 are alike, so
`ucm` uses their symmetry, with safety properties only. `SetCards` restricts
sets to one of the cards, since sets of different cards share no manager. A second
verb shows what a set leaves of the first; one device and one modifier are enough
because nothing but a verb disables them. Two handles are a
subscription and the one that takes its slot or repairs a failed one. Three starts allow a
start that is cut off, one of another version, and one that returns; the third
numid is for the replaced control. `hal` has one caller beside the start-up and
the events of the HAL: two callers only change values no guard reads, and
a partial search with two (six million states) found nothing else. Two
controls are the fewest that nest; of the three HALs the first loses a raw step
to the two roundings, the second nothing, and the third refuses every write.

**Fairness.** Timers that are armed fire, UNICENS answers each call, both
threads of the hook run, time passes, the event loop serves a source that is
ready. Nothing is assumed of users, nodes, cards, the
audio agent or the outcome of a call. Where a liveness property needs more, it
says so as an hypothesis: `MemoryLasts`, `Undisturbed`, `Quiet`. `UcmCache`,
`HalControls` and `VolumePolicy` state no fairness and no liveness: their
requests are straight-line code. That handlers of one event loop do not
interleave, as the actions of the MOST library, of the ramp and of the HAL take
for granted, is the binder's promise and not visible in this repository.

**Deadlock** is checked except where the system really stops: the hook, whose
player ends after a refusal or the close hook; `evt`, with all cards removed;
`hal`, whose binder may stay down.

## 4. What does not hold

Checked by a run, and listed as findings:

* `hook_open`: an answer handled between two sends brings the counter to 0 and
  opens the PCM before the other requests are answered.
* `ucm_closed`: closing a manager leaves its address in the table, and the next
  request for the card works with the closed manager.
* `evt_cards`: a subscription to a second card takes the slot of the first, and
  the next client of the first card makes a second source for it.
* `policy_nested`: of two controls held together, the second saves the volume
  the first has set; with both released the volume stays changed.

Seen with TLC when a condition is taken out of a property or of an instance,
and the reason why it is there:

* With `LostAnswers = TRUE` `RestMeansApplied` fails: a write takes effect but
  is answered by an error, the old `_actual_value` stays, and if the user has
  meanwhile gone back to that volume the library finds nothing to do.
* With volume 1 among `DirectVolumes` it fails too: 0x01 is a valid volume and
  also the mark of an unknown one, and is never written.
* Without `missed`, `NodesKnown` fails: a node that comes between the start of
  the ring and that of the library stays unknown until its next event.
* Without `early`, `ReleasedUnlessEarly` fails: an answer handled before
  `count=idx` is forgotten by that assignment, and the player waits although
  every request was granted.
* Without `late`, `CloseInTime` fails: a post left over from the installation
  lets the close hook return at once.
* Without its condition `SpacedUnlessOverlapped` fails: a ramp started during
  another one shortens the delay.
* Without `overlapped` and `mixed`, the properties of the cache and of the
  subscriptions fail: their tables have no lock.
* Without `missed`, `StaleIsPending` and `ToldInTheEnd` fail: an event whose
  control cannot be read is dropped, and nobody is told before the next change.
* Without `refused`, `RampSettles` fails: a ramp whose last write the card
  refuses ends all the same, with the slave not at the target.
* For a range that does not start at 0 `TowardsTarget` and what the policy says of
  volumes fail: `ACTION_SET` does not add `minval` back.
* Without the margin of `Restored`, `RestoresUnlessNested` fails: one control is
  enough to lower a volume for good, if by little, because it is rounded down when
  it is saved (`hal-volume.c:112`) and again when it is restored (126), each time
  a control comes and goes. Of a range of 0..127, raw 41 is saved as 32% and
  restored as raw 40, and that one, the next time, as 39.
* Without `clean`, what the policy says of volumes fails: a call that fails leaves
  a HAL out and the control is granted.

## 5. Proofs

All theorems hold for every value of the constants that satisfies the
assumptions named in the modules; the few that need more say so in their
statement, as an `ASSUME` about constants or an hypothesis of the theorem. Each
proof is by an inductive invariant that TLC has checked on the instance of the
run before.

`MostVolume_proofs`, from `ConfigAssumption` and `StatusAssumption`:

* `Invariant`: `Spec => []IInv`, where `IInv` joins `TypeOK`, `SingleWrite`,
  `OneTimer`, `NoLostWakeup` and `AnswerFindsItsWrite`. None of them is
  inductive alone: `I2cResult` keeps the type of `actual` only because an
  answer finds an initialised `transmitted`; `NoLostWakeup` survives a volume
  set during a write only because `txBusy` and the unanswered calls agree; and
  a request for service arms a timer only because flag and timer agree.
* `TypeCorrect`, `OneWriteAtATime`, `WakeupIsPending`, `TimerFollowsFlag`:
  its parts, the properties `most_library` checks.
* `ImplementsMirror`: `Spec => MirrorSpec`, from `IInv`: the start of a write
  is the mirror's `StartWrite` because `SingleWrite` says that nothing is
  pending, an answer is its `EndWrite`, a node event its `Node`, everything
  else `Want` or a stutter.

`MostNetwork_proofs`, from `NetworkAssumption` as well, reuses those lemmas:
`NetNextIsNext` shows that every step of the composition is one of the library
or leaves it alone. `NetInvariant` adds to `IInv`:

* `OneAnswer`: an answer in the inbox is the only one, of the write under way.
  A write that starts therefore finds no answer, and changing `transmitted` does
  not change what an answer is about.
* `Started` and `NodesTold`: the last event of a node in the inbox tells whether
  it is there, and with none pending the start-up missed it or it is known.
  `NodesKnown` needs them when the last event is taken.
* `SuccessApplied` and `Believed`: a success to be delivered is about the volume
  in the node unless the node was started after it, and what the library
  believes is so unless news are on their way. Both need `~LostAnswers`.
* `AskedSet`: no volume asked for is the mark of an unknown one; needs that mark
  outside `DirectVolumes`.

From it `NetTypeCorrect`, `NodesAreKnown`, and, under the two conditions just
named, `ConfirmedIsOnNode` and `RestIsApplied`. The conditions are those
of the first two observations of section 4: without them the properties fail.

`UcmCache_proofs`, from `UcmAssumption`: `Invariant` adds to the properties that
a slot or a request has only managers that were opened (`HasManager`), that
one request at a time opens a manager, of a card that has none and for an empty
slot (`OneOpening`), that slots and requests have managers of their card but for
the slot that waits for its number (`OfTheCard`), and the setup a set must have left
after each of its steps, computed from the one it found (`SetSoFar`). The second and third are claimed only while nothing has
overlapped. From it `TypeCorrect`, `ManagerIsOfTheCard`, `OneManager` and
`SetIsAsAsked`, the properties of `ucm`, the last for a set of any
shape. `First` of a set of slots
is in it because the slots are natural numbers, which is well-foundedness of
`Nat` from the library.

`VolumeRamp_proofs`, from `RampAssumption` (a linear control of any range, any
delays and steps): beside `TypeOK` and `RampAlive`, `IInv` says that on a range
from 0 the volume is on the near side of the next step (`NotPast`), since a timer
steps the percentage it reads back and not the one it set, and a refused step
moves the percentage alone; and that the one timer of ramps that do not overlap
waits as long as the volume it set must stand (`OneTimer`). From it
`TypeCorrect`, `RampIsAlive` and the action properties `StepsTowardsTarget` and
`VolumesAreSpaced`. They rest on lemmas about the conversions: a raw volume of
the range becomes a percentage, percent to raw is monotone, and a raw volume lies
between those of the percentage it is read back as and of the next (`ReadBack`).

`VolumePolicy_proofs`, from `PolicyAssumption` (the registry lists each HAL once,
each with a linear range): the HALs still to visit are a suffix of the registry
(`RunningOK`), and as long as controls are granted one at a time every HAL but
those that others have touched, and those whose range does not start at 0, is
either as it was wanted, or adjusted with the percentage of the wanted volume
saved, or restored from that; which one is decided by its place before or after
that suffix (`AtRest`, `AtRequest`, `AtRelease`). The lemmas on the conversions
say that a volume is read as a percentage, that a percentage fits a range from 0,
and how much reading and writing back may lose (`WrittenBack`). From it
`TypeCorrect`, `ReleaseRestores` and `GrantAdjusts`, for any number of HALs and
controls.

`PolicyHook_proofs`, from `HookAssumption` (one request at least, any garbage):
what holds always (`OwnCalls`, `Armed`, `Caused`, `Verdict`: a request that was
not made armed no timer, so that a PCM refused without one is refused for its
connection), what holds as long as no
answer was `early` (`Ordered`), and what needs answers in time as well
(`Timely`). The heart of `Ordered` is that after the calls were sent the counter
is the number of requests without a granted answer, or one more while the event
loop is between load and store, so that the answer that makes it 0 is the last
one. From it `TypeCorrect`, `OpenIsGranted`, `RefusalIsCaused`,
`LastAnswerReleases` and `CloseIsGranted`, for any number of requests.

`EvtSubscribe_proofs`, from `EvtAssumption`: unless requests have overlapped, one
request at most fills a slot and nobody else relies on one (`Alone`), a slot in
use has a subscription of its card that lives with the card (`SlotsOK`), a
request has what it found or filled (`RequestsOK`), and a client listens to
cards it was granted (`Listening`). `StaleIsPending` is part of the invariant,
because a client that is answered must be found listening on an open device when
the next change comes. From it `TypeCorrect`,
`StaleIsTold` and `OwnBoards`, for any number of clients, cards and slots.

`HalControls_proofs`, from `HalAssumption` and `ControlsAssumption`: a control the
HAL adds has a name of its own in the table and at least one value, a card comes
with one control of a name, and the HAL is asked for tags it has.

* `Invariant`: `IInv` joins `MappedRight`, `UntoldIsDue` and what they rest on.
  Answers are told apart by position, so `AddSoFar` relates the answers so far to
  the entries before the present one; they stay right while controls are removed
  and created because a card has one control of a name (`OneOfAName`). A change
  that is told to the HAL is due for the entry of its name for the same reason.
  `SetSoFar` and `GetSoFar` say of each request what was written, answered and
  left to do; they need that a card is listed once and in order, which
  `AscendingLists` and `AscendingIsAll` prove of the listing.
* `TypeCorrect`, `TableIsMapped`, `ChangesAreTold`, `SetsAreApplied`, `GetsAnswer`:
  the properties of the run `hal`, for any card, tables, queries, callers and
  restarts.
* `TagsReachTheirControl`: a read through an up HAL answers every tag, or its
  control under the tag of an earlier entry. A control that a request names is
  answered or still to come (`Progress`), and while the HAL is up no control is
  removed. `TagsAreAnswered` adds that the answers are in percent, if drivers
  and clients keep values within the range of their control (`InRange`): that is
  an hypothesis on the behaviour, since the code converts any raw value it reads.
* `NumidsAreGivenOnce`: if no version adds more than `A` controls, at most `A`
  numids are given for each change of version, however often the binder is
  stopped. `lastNumid` alone is not inductive: the budget counts the controls
  not settled yet, which creating one makes one less and only another version
  makes more. It needs that the card has no control under the name of an added
  one (`OwnNames`). `NumidsAreBounded` is `NumidsBounded`, which counts the
  controls of the present version and therefore holds where all versions add as
  many.

Only model-checked, on the instances of section 3, is liveness, which needs
fairness and `ENABLED`: `NoStarvation`, `Convergence`, `VolumeReachesNode`,
`WaitEnds`, `RampSettles`, `ToldInTheEnd`.

The four properties of section 4 are refuted, and so not provable. Every other
invariant and action property of the runs is stated by a theorem.

## 6. What is not modelled, and the plan

Left out for good, because they keep no state or only format: JSON packing,
TLV data and the rest of `getinfo`, verb tables, the helpers of
`Audio-Common`, the HAL plugin that the repository calls a proof of concept, web
pages, logging; and the functions nobody calls, as the release functions of the
MOST library.

Left out of a modelled part:

* Hook: parsing of the configuration, signals to the player, loss of the
  connection, a semaphore that cannot be initialised.
* Ramp and policy: what a step or a control does to a volume is claimed of ranges
  that start at 0.
* Controls: labels, decibel scales, table entries given by numid, boolean and
  enumerated controls, and an answer with more controls than the HAL's table
  (`hal-interface.c:295`), which no query that names tags produces.
* Events: a card that is removed and comes back, events other than a change of
  value, several controls of a card, and the device a client leaves open when it
  joins a subscription.
* The registry of HALs: only that a registration may fail.
* MOST: that arming a timer fails, and the time that passes.

What is left to do:

* the safety half of the liveness properties, as far as it can be stated without
  fairness: that every value which waits is reached by the round robin in a
  bounded number of services, and a variant that falls with every step of a
  ramp;
* an abstract specification of the policy hook (granted or refused, decided
  once) and of the controls of a card (a map from name to value), and
  refinement by the modules here, as for `MostMirror`;
* proofs that take hypotheses on the environment out where the invariant allows
  it: `OwnNames` should not be needed for a card that refuses to remove a
  control of the hardware.

