# A TLA+ model of hardware_rpi

This project models the Android HALs of `hardware_rpi` for the Raspberry Pi 3: the graphics composer, the page
flipping underneath it, the allocation and mapping of graphic buffers, and the audio output. TLC checks each module on small instances; TLAPS proves the most
important results for every value of the constants. `PROJECT.json` maps every definition to the lines it models.

## 1. The system

Paths are relative to `src/`; `C/` stands for `graphics/composer/2.1/default/`, `A/` for
`graphics/allocator/2.0/default/` and `M/` for `graphics/mapper/2.0/default/`.

| component | state | operations | interacts with |
|---|---|---|---|
| `Composer` (`C/Composer.cpp`) | `mClient` (weak), `mClientMutex`, `mClientDestroyedCondition` | `createClient`, `waitForClientDestroyedLocked`, `onClientDestroyed` | hands a strong reference to the remote process; destructors of clients call back |
| `ComposerClient` (`C/ComposerClient.cpp`) | `mResources`, `mCommandEngine`, `mCommandEngineMutex`, `mHalEventCallback` | `registerCallback`, `createLayer`, `destroyLayer`, `executeCommands`, `setVsyncEnabled`, the destructor | called by any binder thread; calls `ComposerHal` |
| `ComposerCommandEngine` (`C/ComposerCommandEngine.cpp`) | current display and layer, output queue | a batch of commands, one method each | reads a message queue, calls `ComposerHal`; its caller holds `mCommandEngineMutex` |
| `ComposerHal` (`C/ComposerHal.cpp`) | `mMustValidateDisplay`, `mEventCallback` | `validateDisplay` (three device calls), `presentDisplay`, `registerEventCallback`, `unregisterEventCallback`, the hooks | one instance shared by all clients |
| `Hwc2Device` (`C/Hwc2Device.cpp`) | `mState`, `mNextLayerId`, `mLayers`, `mDirtyLayers`, `mBuffer` | create and destroy layers, set types and target, validate, accept, present | `hwc_post`; has no lock of its own |
| `Hwc2Device::VsyncThread` | `mMutex`, `mStarted`, `mCallback`, `mCallbackEnabled`, `mNextVsync` | `vsyncLoop`, `setCallback`, `enableCallback`, `stop` | calls `ComposerHal::vsyncHook` with its mutex held |
| `hwc_context` (`C/drm_kms_rpi3.cpp`) | `first_post`, `current_front`, `next_front`, `waiting_flip`, `ctx_singleton` | `bo_post`, `page_flip`, `page_flip_handler`, `on_signal`; `init_kms` and `find_mode` once | the kernel's mode setting and event queue; a signal handler shares its members |
| audio HAL (`audio/audio_hw.c`) | per stream `standby`, `pcm`, a lock; a lock of the device | `out_write`, `out_standby`, open and close of streams; `in_read` | tinyalsa and one PCM of the sound card |
| allocator (`A/Allocator.cpp`) | its own `drm_module_t`; the buffers of a call in progress | `allocate`, which replies, sleeps a millisecond and frees | libgralloc_drm, which is not in the repository; the client process that gets the handles |
| mapper (`M/Mapper.cpp`), loaded into client processes | the gralloc module's `drm` | `importBuffer`, `freeBuffer`; lock, unlock, descriptors | libgralloc_drm; shares `mod->drm` with `gralloc/gralloc_rpi.cpp` |
| gralloc module (`gralloc/gralloc_rpi.cpp`) | `mutex`, `drm` | `drm_mod_perform`, with `drm_init` under the mutex | the mapper and the composer use the same module object |
| memtrack (`libmemtrack/`) | none | constants | - |

What is hard about it:

* **Concurrency.** Binder threads enter `ComposerClient` without a common lock: only commands of one client are
  serialised. `createLayer`, `destroyLayer` and `registerCallback` run beside them, and so does the destructor of
  the previous client. The VsyncThread calls back under a mutex of its own.
* **Multi-step operations.** A validation is three device calls; the answer must still fit when the arrays are filled.
  A device call is itself several statements without a lock: `createLayer` marks a layer and then sets the state,
  `validateDisplay` reads the marks and then sets the state, `presentDisplay` reads the state and then posts.
* **Lifetime.** A weak reference cannot be promoted from the moment the last strong one goes, long before the
  destructor is through.
* **Blocking and failure.** A post waits for a vblank with the command mutex held; a flip can fail, an event can
  be lost, a signal can come between two statements, and some members are read before they are assigned.
* **Resources of other processes.** A buffer is freed by the allocator a fixed time after the reply, without knowing
  whether the client has imported it; the service may die in between. One part of a client creates the drm object
  under a mutex, another without.
* **Lock order.** `out_standby` takes the stream's lock with the device's lock in hand, while a writer keeps the
  stream's lock for a whole `pcm_write`.

`PROJECT.json` "hazards" lists these at their lines, with the properties that cover them.

## 2. The modules

### Composition: `Hwc2Device`, `ComposerHal`

`Hwc2Device` has one definition per statement that touches a member: one operation on `mLayers` or `mDirtyLayers`, one
write of the state, one post. The class has no lock, so nothing larger is taken as indivisible. `posted` is the handle
of the last `hwc_post`.

`ComposerHal` lets the binder threads run these statements in the order of the code, with any other thread in between.
`call[t].at` is the statement that thread `t` executes next, `call[t].num` the number it has read. The calls are the
paths through the points:

| call | points |
|---|---|
| `createLayer` | `insertDirty`, `created` (setState), `addLayer` (resources) |
| `destroyLayer` | `eraseLayer`, `destroyed` (setState), `removeLayer` (resources) |
| `setLayerCompositionType` | `mark` or `unmark`, `marked` or `unmarked` (setState) |
| `validateDisplay` | `counted` (setState), `mustValidate`, `countTypes`, `countSize`, `fillTypes`, `fillArrays` |
| `acceptDisplayChanges` | `clearDirty`, `accepted` (setState) |
| `presentDisplay` | `presentState`, `post` |
| the destructor | `clear` (each layer), then the last three calls through `accept` and `present`, `ended` |

`CommandEngineLocked` stands for `mCommandEngineMutex`: commands of one client exclude each other, its other methods
and the destructor take no lock. `Connect` creates a client as soon as no client is live, as `promote()` allows: the
previous one may be `dying`, with its destructor at any statement.

The ghosts record who was too late for whom. `missed[t]` is what was marked dirty after thread `t` has looked, while its
decision (a validation that counted, an accept, a present that was let through) is not yet in force; `unseen` is the
same for the decision that the present `mState` rests on. `told` is the last answer, `orphans` the layers that the
resources refused, `overtaken` that a client was created over another, `dangled` that a layer was dirty after it
had been destroyed.

Two operations on one `unordered_set` at the very same moment are undefined behaviour, which may corrupt the set; this
is not modelled, an operation on a set is one step.

### Client targets and fences: `ClientTarget`

The command engine of one client at a time, over the same `Hwc2Device`. A handle is an address that names a buffer
while it is imported (`holds`); `slots` is the cache of client targets in the client's resources, whose size is fixed
here; `fds` says who has each descriptor. `GetClientTarget`, `SetTarget` and `SettleTarget` are the three parts of
`executeSetClientTarget`: the lookup or import, the device call, and its end, where the engine closes the fence after
an error and the handle replaced in the slot is freed. `OtherThread` opens and closes descriptors in between.
`FinalPresent` and `ResetResources` are the destructor; `wanted` (the buffer of the last accepted target) and
`overwritten` (a refused target has replaced it) are ghosts. The resources, the importer and descriptors are
libraries, modelled from how the code uses them. Layers are left to `ComposerHal`, as is overlap of clients; commands about
layers touch nothing that is modelled here and have no action.

### Clients: `ComposerLifecycle`

References are sets of holders (`strong[c]`), so that "the last reference goes" is a step of one thread:
`DropReference` sends that thread into the destructor (`UnsetVsync`, `UnsetEventCallback`, `OnClientDestroyed`,
`FreeClient`). A client whose resources could not be created has no command engine and skips all but the
last; that failure of `createResources` is left out. `Predicate`, `PredicateDrop`, `Timeout` and `Recheck` are `wait_for` with its predicate, whose
temporary from `promote()` is a reference like any other. `VsyncFire`, `VsyncCall` and `VsyncReturn` are the part of
the loop that holds the VsyncThread's mutex. `overtaken` is a ghost: a client was created over another one.

### Page flips: `KmsPageFlip`, `FramePost`

`KmsPageFlip` follows `bo_post` and `page_flip` statement by statement, over a kernel with one CRTC (`scanout`), at
most one pending flip (`flip`) and a queue of unread `events`. A signal is taken by the posting thread between any
two statements, or by another thread beside it; the handler's steps are `OnSignal`, `HandlerFlip`, `HandlerWait` and
`HandlerSleep`. `InitialNextFronts` is what the uninitialised member `next_front` may hold. `wait_for_post` is not
modelled: it returns at once because `swap_interval` is always 1.

`FramePost` is the promise of a post: it returns with its frame on the screen, or fails and leaves the screen alone.

### Connectors and modes: `KmsSetup`

`init_kms` as a loop over probes: `FetchConnector` is a round of `fetch_connector` and, for the connector found, its
setup; `ScanConnector` is a round of the loop over all connectors; `Enforce` is the last resort. The hardware and the
two properties `debug.drm.mode` and `debug.drm.mode.force` are chosen in `Init`, `Plug` changes a connection between
two probes. `FindMode` is the code's loop: `Best(modes)[n]` is what it has found after `n` modes, with distances that
wrap like an `int` whose largest value is `IntMax`. The values parsed from a property are the model's input; bits per
pixel, dpi, and the timings of a generated mode are left out. `GenerateMode` stores its sizes in a `uint16_t`
(`StoreShort`) and its rate through a `float` in a `uint32_t`: a negative rate becomes 0, as the conversion does on ARM
(the language leaves it undefined). That a `float` rounds a rate above 2^24 is left out. `Enforce` asks the kernel again
for a connector, and may get no answer, which the code does not test (`lost`). `Construct` takes the refresh rate over,
from which `VsyncPeriod` is computed in `Hwc2Device`; without an output it is what the uninitialised member holds
(`StrayRates`).

### `VsyncThread`

One action per region of `vsyncLoop` between two operations on the mutex, over a discrete clock. `NextVsync` is the
code's formula. `Wake` may be late by any amount, and a failed `clock_nanosleep` goes back to the test of the flags.

### `AudioOut`

Each statement of `out_write` and `out_standby` that takes or frees a lock is an action; `card` is the stream that
the kernel gave the PCM to. A close is `out_standby` and the free of the stream.

### Buffers: `BufferLifecycle`, `DrmInit`

`BufferLifecycle` joins two processes: the binder threads of the allocator (`call[a]` is what each is doing) and one
client with threads in the mapper. A call allocates buffers one by one (`AllocateOne`: a failure, or another stride,
ends the loop), replies, sleeps, and frees them one by one; `Restart` is the death of the service at any point.
`CallImport` and `Register` are `importBuffer` around the mapper's `drm_init`; `Exit` is the death of the client that
went through a null drm object.

gralloc_drm is not in the repository. It is modelled as the millisecond of sleep implies: a handle carries a global
name, registering looks up the buffer that has the name now and takes a reference to it, a name whose buffer has no
reference is free for another buffer. `NewBuffer`, `DropRef` and `Register` are its operations; `refs[n]` counts the
references to the buffer named `n`, in whichever process. The strides are abstracted to whether one differs from the
first, and the buffers of a call are a set, because their order is never looked at. `freeBuffer` is called at most once
for a handle, as its contract asks.

`DrmInit` is the creation of the drm object in the client: `DrmLock`, `DrmTest`, `DrmCreate`, `DrmStore`,
`DrmUnlock` and `GetDrmFd` are the statements of the gralloc module, and the mapper runs the same three in the middle
without the mutex. The unlocked reads of `mod->drm` are a data race: the build may use the value it tested or read the
member again, and `Register` allows both. `used` and `overwritten` are ghosts. The composer's `hwc_init` is like
`drm_mod_perform` but runs before the process serves anybody. The allocator's own `drm_init` runs in its constructor
with nobody beside it; if it fails, the service is one that dies at its first call.

### Proofs

`ComposerHal_proofs`, `KmsPageFlip_proofs`, `KmsSetup_proofs`, `AudioOut_proofs`, `BufferLifecycle_proofs`,
`ClientTarget_proofs`, `VsyncThread_proofs`, `ComposerLifecycle_proofs`.

## 3. The runs

| run | instance | what it shows |
|---|---|---|
| `hal` | 2 threads, 2 clients that may overlap, 2 layers, 2 displays | frames are gated, wrong answers are revoked, accepts settle what was told, no layer is forgotten, each up to the named exceptions |
| `client_target` | 2 clients in turn, 2 slots, 3 handles, 2 buffers, 2 descriptors | a post shows the last accepted target; imports and fences are settled; a foreign descriptor is closed on one path only |
| `lifecycle` | 2 threads, 3 clients, the VsyncThread | callbacks go to existing clients, registered clients keep their vsync, `createClient` and destructors end |
| `lifecycle_overlap` | the same | **violation**: a client is created while the previous one is being destroyed |
| `kms_post` | 3 buffers, failing ioctls | with an initialised context: refinement of `FramePost`, nothing left over, every post returns |
| `kms_faulty` | also uninitialised members, failing reads, signals | what still holds: never behind the kernel, when an old flip is waited for, when a signal ends the process with a flip pending |
| `kms_exit` | signals | **violation**: the process ends with a flip pending |
| `kms_uninit` | uninitialised `next_front` | **violation**: a post waits for a flip that does not exist |
| `kms_setup` | 2 connectors, 3 CRTCs, 1 plug, integers of 16 bits and `uint16_t` of 8, a second of 1000 | connector, CRTC and mode are those of a reference choice; which rates make the vsync period undefined, 0 or longer than a second; only an enforced connector can leave no mode |
| `vsync` | 2 callers, period 2, time 8 | increasing timestamps on the raster, catching up after late wake-ups, at most one late callback, no lost wake-up, `stop` returns |
| `audio_out` | 3 threads, 2 streams | no deadlock, no PCM closed under a write, `standby`, `pcm` and the card agree |
| `buffers` | 1 mapper thread, 1 address, 2 drm objects, and either 1 allocator thread with 2 buffers and names and 1 performer, or 2 performers | references are accounted for, names are held, buffers are reclaimed; the drm object is one unless the mapper took part in replacing it |

Why the bounds are enough:

* **Composition.** A command needs one thread and a disturbance one more. Two layers are the least with which a
  layer can vanish while another stays dirty, so that the count changes and does not become zero. `MaxLayerId`
  stands in for the 64-bit counter. Two clients give one succession, with the destructor of the first beside the
  second; threads and clients are symmetric. All four properties are proved for any number of each.
* **Client targets.** Two slots, so that a target can be replaced in its slot or in the other one; three handles: one
  per slot and one being imported. Two descriptors let the number of a closed fence be given out again while another
  one is open. Two clients let a target survive its client.
* **Setup.** Two connectors give every order of kinds, states and encoders; the requested sizes are one at equal
  distance from two modes, one nearest to the last mode, and one whose squares overflow 16 bits. The forced rates are one
  that is missing (0), a negative one, a fitting one and one above `Second`; a forced size overflows the `uint16_t`. One
  plug is enough to make two probes of a connector disagree.
* **Lifecycle.** Three clients let a third be created by a thread that waits for the second while the first is
  still going. A created client counts against `MaxClients` as soon as its call begins.
* **Page flips.** Three buffers: on the screen, pending, and posted. `MaxEvents` is in the guard of `Post`: no post
  begins with so many events unread. One flip at most can complete in a post, so the queue stays within
  `MaxEvents + 1`.
* **Vsync.** `MaxTime` is a multiple of `Period` that leaves room for a wake-up two periods late. A sleep may fail
  at the times of `SleepErrors`, which fall on a vsync, before one and after one. Both liveness properties stop two
  periods before the end of time.
* **Audio.** Three threads: a writer on each stream and one that closes or goes into standby.
* **Buffers.** Two buffers of one call are the least with a failure in the middle, and with two names the first name
  is used again while the second is still held. One mapper thread and one performer race for the drm object beside the
  allocator. `MCBufferLifecycle` puts a second instance into the same run, in which two performers compete for the
  module's mutex beside the mapper and no buffer is sent: allocator and drm object meet only in a crash of the client,
  which the first instance has. More threads, names and addresses are covered by the theorems.

`CHECK_DEADLOCK FALSE` is used where the system may stop: when all bounded ids, clients or ticks are used up, when
the process has exited, or when a thread destroys a client while it holds the mutex its destructor needs.
`kms_post`, `kms_uninit` and `audio_out` check deadlock.

### Fairness

* `KmsPageFlip`: the display refreshes (weak fairness of `VBlank`) and a thread that can go on does. Nothing forces
  a post or a signal.
* `VsyncThread`: time passes, the loop runs, and a begun `enableCallback` or `stop` goes on.
* `ComposerLifecycle`, `AudioOut`: a thread in a call goes on; strong fairness because a pthread mutex that is free
  again and again is obtained in the end. No call has to be made.
* `BufferLifecycle`: a binder thread of the allocator in a call goes on (it waits for nothing but its sleep).

### What the runs found

1. `Composer.cpp:53` waits "for previous client to be destroyed", but a failed `promote()` only says that its last
   reference is gone. The new client and the destructor of the old one then share the HAL
   (`CreatedAfterDestroyed`). `PresentGated` and `LayersAccounted`, and the parts of the `lifecycle` invariants without
   `~overtaken`, say what survives that.
2. `on_signal` exits at once when `next_front` is null, also between a successful `drmModePageFlip` and the
   assignment of `next_front` (`NoFlipPendingAtExit`). `ExitRace` says that this is the only statement, apart from a
   flip given up earlier and a handler on another thread.
3. `next_front` is never initialised, so that the second post may wait for a flip that was never scheduled
   (`WaitsForPendingFlip`, without the assumption of `kms_post`). `OldFlipIsGarbage` says that there is no other way
   into that wait.

These observations are stated as exceptions of properties:

* Without a lock in `Hwc2Device`, a frame can go out over a layer that waits for an accept: a `createLayer` between
  `presentDisplay`'s test and its post is enough, and so is one whose `setState(MODIFIED)` comes before the
  `setState(VALIDATED)` of a validation that had read the marks earlier. `PresentGated` excuses exactly the layers so
  marked (`missed`); TLC refutes it without the excuse in 14 steps.
* An answer to a validation can be wrong: a layer missing, or a slot left over with layer 0. `AnswerFits` says that the
  state then revokes it. TLC refutes it when clients overlap, where a destructor validates beside the commands of
  the successor (17 steps without `~overtaken`), and when `markLayerDirty` inserts a mark after another thread's `removeLayer` has
  erased it (16 steps without `~dangled`): the device then reports a layer that does not exist until the next accept.
  That the arrays always fit, or that the state is `MODIFIED` at once, is false after 10 steps.
* An accept can settle a layer the client was never told of, when the layer is marked between the accept's test and its
  clearing (12 steps), or when the destructor of the previous client validates in between (13 steps without `~overtaken`).
  The client goes on believing that the device composes it (`SettledWereTold`).
* With overlap the final present of a destructor may be refused, because the registration of the successor sets
  `mMustValidateDisplay` (`FinalPresent`). No property depends on its success.
* A target refused by the device after its import has replaced the accepted one in the same slot frees the handle
  that `mBuffer` still names, and the next present posts it (`~overwritten` in `PostsWanted`). A client that presents
  before it sets a target posts what its predecessor left (`wanted # NoBuffer`).
* On such a refusal the device has closed the acquire fence and the engine closes the number again
  (`ForeignFdsKept`).
* `init_kms` returns 0 with `primary_output` unassigned when the HDMI connector cannot be driven, or when the
  uninitialised `active` is not 0 (`ConnectorChoice`); an enforced connector without modes makes `find_mode` read
  through a null pointer, and so does one that the kernel no longer answers for (`CrashOnlyEnforced`).
* An import later than a millisecond may fail, or get another buffer: nothing holds a name between the frees of the
  allocator and the import (`NamesHeld` speaks of names that are held; `CallImport` takes any handle ever received).
* The mapper may replace a drm object in use, or store the null of a failed creation over it (`~overwritten` in
  `OneDrm`), since it takes no mutex.
* The vsync period comes from a division by 0 if the kernel's mode has no refresh rate or the forced rate is negative,
  and is 0 itself if the rate is above 1 GHz (`NearestMode`).

`CreateClientReturns` and `DestructionEnds` have an exception, `SelfDestruction`: the last reference to a client can
be a temporary inside `createClient`; the destructor then runs with `mClientMutex` held by its own thread, and
`onClientDestroyed` never gets it.

## 4. The theorems

* **Composition** (`ComposerHal_proofs`), for any number of threads, clients, layers and displays, overlapping or not.
  - `CallInv` says that a thread is in a method of a live client or alone in the destructor of a dying one, that the
    command mutex is held once, and that without overlap one client exists. It gives `TypeCorrect`.
  - `LayerInv` adds what the resources hold before and after a client's life, and that a layer leaves them only after
    it has left the device. It gives `LayersAreAccounted`.
  - `SeenInv` says that the state `VALIDATED` vouches for every dirty layer but those in `unseen` and those whose
    thread is about to set `MODIFIED`, and that a decision under way vouches for all but `missed`. It gives
    `PresentIsGated`.
  - `AnswerInv`, for clients that do not overlap: marks have layers (until one dangles), the arrays are large enough
    unless a layer has been marked since, and between commands the client knows of every layer that was marked in time.
    It gives `AnswersFit` and `SettledAreTold`: one thread at a time is in a command, so the state leaves `MODIFIED`
    only by the command that a disturbance has to revoke.
* **Page flips, `Undisturbed`** (`KmsPageFlip_proofs`): initialised context, no failing event read, no signal.
  `PostInv` relates each point of `bo_post` to the kernel: no flip before `drmModePageFlip`, after it exactly the
  post's own flip, pending or as one unread event. From it `PostWaitsForItsFlip`, `PostLeavesNothing`,
  `PostImplementsFramePost`.
* **Page flips, disturbed** (the second half of `KmsPageFlip_proofs`): any failures, any signals and a `next_front` that
  was never assigned, as long as it is not by chance a buffer that is posted (`NeverPosted`). `FaultInv` keeps of the
  above that a post has a flip scheduled only while it waits for it (`Scheduled`, `Flipped`), that a missed event
  puts the context ahead of the kernel and never behind (`Ahead`), that until one is missed a flip is pending in its own post
  only (`NothingMissed`), and that an interrupted poster starts no flip (`Interrupted`). From it
  `OldFlipIsOnlyGarbage`, `ContextIsNeverBehind`, `ExitRaceIsTheOnlyOne`.
* **Page flips, types** (the end of `KmsPageFlip_proofs`), without any assumption on what happens: the unread events
  and the pending flip together stay within `MaxEvents + 1` (`EventsBounded`), which is what `TypeCorrect` needs.
* **Setup** (`KmsSetup_proofs`), for any connectors, encoders, mode lists, requests and width of an int.
  - The loop of `find_mode`: `BestEquation` shows that the recursive function `Best` exists and meets its equation;
    `BestPreferred` and `BestNearest` say what it has after `n` modes. The induction over `n` is one over a set
    (`BoundedInduction`): the least number of a set of counterexamples comes from the well-foundedness of `<`. That a
    distance may wrap does not matter, because `NearestMode` compares distances as the code computes them.
  - The loop of `init_kms`: `Inv` says what the kernel has before and after a mode is set (`Kernel`), that a member
    is unassigned until its connector was found (`Unassigned`), what the last probe of a connector said
    (`LastProbed`), that the connectors passed over are no candidates (`PassedOver`), and that an output has a mode of
    its connector (`Established`, `Fits`). From it `TypeCorrect`, `ConnectorIsChosen`, `ModeIsNearest`,
    `CrashesOnlyEnforced`. `ForcedRate` and `UsableRate` are about the conversions of a forced rate and of a period. What is
    assumed of the input is that a mode has natural numbers and that requested sizes and rates are integers.
* **Audio** (`AudioOut_proofs`). `AudioInv` says at which points a thread holds which lock, that a stream about to be
  written is out of standby, and that a closed stream belongs to the closing thread. From it `TypeCorrect`, `PcmAlwaysMatches`,
  `WriteKeepsPcm` and `CardIsNotLeaked`, for any number of threads and streams. `LocksAreFreed` is the absence of
  deadlock: a thread in a call can go on (`GoesOn`), or waits for a stream's lock whose holder can, or for the
  device's lock whose holder can or waits for a stream's. `GoesOn(t)` spells out the enabling condition of
  `ThreadStep(t)`, because `ENABLED` is out of the prover's reach; TLC finds the two equal.

* **Buffers** (`BufferLifecycle_proofs`). `BufferInv` adds to `RefsAccounted` and `NamesHeld` that an idle call holds
  nothing and that a buffer of a call or of the client has the name it is known by, so that dropping a reference never
  takes one too many. `DrmInv` says who holds the mutex at which point, that a creation by a performer happens while
  no other performer creates, and that a value a thread has tested is the object in place unless one was replaced.
  From them `RefsAreAccounted`, `NamesAreHeld`, `DrmIsOne`, `DrmIsKept`, for any number of threads, names, addresses
  and buffers.

* **Client targets** (`ClientTarget_proofs`). `TargetInv` says which points of a command belong to which time of the
  client's life (`StatusAt`), what the command under way still owns (`OpAt`, `FenceHeld`), that no handle is in two
  slots or in a slot and about to be freed (`SlotsDistinct`), and that the accepted target is not the one the end of
  the command frees (`TargetKept`). From it `PostsAreWanted`, `SlotsAreAccounted`, `FencesAreSettled` and, since the
  engine's fence is its own until the device has closed it, `ForeignFdsAreKept`.

* **Clients** (`ComposerLifecycle_proofs`). `LifeInv` says that a client is live exactly while someone holds it
  (`References`), that every destructor has a dying client of its own (`Destructors`), that the callback kept by the
  HAL belongs to a client whose destructor has not unset it yet (`Callbacks`), and what the absence of overtaking gives:
  one existing client, and callbacks that are its own (`Alone`). `Numbered` is about the bound: a thread that creates
  a client finds a free one. From it `FreedIsNeverCalled`, `NullIsNeverCalled`, `VsyncIsKept`, `LiveClientIsKnown`,
  for any number of threads and clients. mClientMutex plays no part in that argument: what it is for, that no client
  overtakes another, is not true (`lifecycle_overlap`). `MutexHeld` says where a thread has it: in `createClient`, or
  in a destructor that began there. From it `MutexIsFreed` (whoever waits for it waits for a thread that goes on, or
  for a vsync callback, except in `SelfDestruction`), and `SelfDestructionStays` (that deadlock is for good).

* **Vsync** (`VsyncThread_proofs`). `VsyncInv` says that the next vsync is on the raster, that from the end of the
  sleep to the end of the callback it is due, that only the callback under way has reported it (`VsyncDue`), and that
  a loop on its way to a disabled callback has begun none since the disabling (`LateOnTheWay`). `NextVsyncBounds` is
  about the formula of the loop: what it adds brings the vsync past now and not a whole period past it. From them
  `VsyncIsNear`, `StampsDoIncrease`, `OneIsLate`, for any period, number of callers and sleep errors. `WakeInv` is
  about the condition variable: when the loop waits although it is enabled or stopped, a caller is about to notify
  (`WakeupIsNotLost`), the safety that `EnabledFires` and `StopJoins` rest on.

The assumptions are those on the constants in the modules, those named above (`Undisturbed`, `NeverPosted`), and that the bound `MaxLayerId` is a natural number (it may be any).

Every module with state of its own has a `TypeOK`. No run checks it: that of each module with a `_proofs` module is
proved there, the others document the state.

Every invariant and every action property of the passing runs is proved, and so is the refinement `FramePostSpec`. Only model-checked are the liveness properties
`PostCompletes`, `SignalEndsProcess`, `EnabledFires`, `StopJoins`, `CreateClientReturns`, `DestructionEnds`,
`CallReturns` and `BufferReclaimed`, which need fairness. Of the reasons why they hold, the theorems contain that nobody waits for something
that does not come: `PostWaitsForItsFlip`, `WakeupIsNotLost`, `MutexIsFreed`, `LocksAreFreed`.

## 5. Not modelled, and the plan

Not modelled for good: memtrack, the getters and stubs that return constants, dump, logging, build files.

Left out of modelled parts: the mapper's lock and unlock, which keep no state outside gralloc_drm, its descriptors, and
the conversion of usage bits; the queries of the composer that return constants; the size of the cache of client
targets, which belongs to a library; the arithmetic of the audio HAL's sleeps; a failing `createResources`; simultaneous
operations on one `unordered_set` of `Hwc2Device`.

Planned, in this order:

1. `AudioIn`: the pacing of `in_read`.
2. `ClientTarget` composed with overlapping clients and with layers at the grain of `ComposerHal`.
