# Verification of the Mi8937 device tree

TLA+ models, model-checking runs and proofs for the code of this repository. The
repository is the device tree of the Xiaomi MSM8937 phones; nearly all of its
program logic is the camera HAL. The modules follow the newer of its two copies,
`src/camera/mi8937/camera` (below: `camera/`); `src/camera/land` is an older copy
of the same code.

## Inventory

| part | state it keeps | operations | what is hard |
|---|---|---|---|
| stream (`mm_camera_stream.c`) | state, per-buffer reference count and in-kernel flag, queued count, link | config, get/reg/unreg/put buffers, start, stop, qbuf, data notification | three kinds of threads count references on one buffer under short lock sections |
| poll and command threads (`mm_camera_thread.c`) | poll entries, poll set, pipe, command queue | add/del fd sync or async, launch, release | the poll set lags behind the entries; a stop meets a thread at work |
| channel (`mm_camera_channel.c`) | super-buffer queue, expected frame, pending requests, ZSL/flash/bracketing flags | start, stop, request, cancel, flush, configuration, matching | frames of several streams in any order, metadata that rewrites what is expected |
| frame sync (same file) | ring of frames matched by two cameras | register, add, find, lock/unlock queues | two channels' queues locked in one go while channels come and go |
| camera object (`mm_camera.c`, `mm_camera_interface.c`) | handles, reference count, event thread, locks | open, close, every call of the API | hand-over-hand locking g_intf_lock, cam_lock, ch_lock |
| JPEG job manager (`mm_jpeg.c`, `mm_jpegdec.c`) | sessions, ongoing and waiting jobs, abort state | create and destroy a session, start, abort, the codec's callbacks | abort against completion, a job put back, commands the codec carries out later |
| qomx core (`qomx_core.c`) | reference count, components, instances | init, deinit, get and free a handle | libraries unloaded while still referenced |
| HAL1 state machine and interface (`QCamera2/HAL`) | state, answers, channels, parameters | about 100 API calls and events | synchronous calls answered by another thread, deferred work |
| HAL1 post-processor (`QCameraPostProc.cpp`) | queues of frames to reprocess and to encode, running jobs | start, stop, frames in, frames reprocessed, encoder's answers | five threads meet on one frame; stop against frames and answers on their way |
| HAL3 (`QCamera2/HAL3`) | pending requests, buffers in flight, buffers waiting for metadata | process request, results, flush, error, HDR sequence | results out of order or missed, flush and a dead daemon against results |
| util | queues, command threads | enqueue, priority, exit | exit against queued commands |
| fingerprint service (`biometrics/hidl-*`) | vendor device, client callback | the HIDL interface, notify | callbacks during construction |
| dumpstate, libinit, shims, overlays, sepolicy, audio and key configuration | none or constant | once at boot or on demand | nothing concurrent |

The HAL calls the camera interface (`camera_ops`); the interface opens V4L2 nodes.
Frames come up through poll thread -> stream -> (a) the stream's command thread
and the HAL's stream callback, (b) the channel's command thread, which matches
frames of several streams into super-buffers, and the channel's callback thread.
Every consumer gives each buffer back with `mm_camera_qbuf`. Events of the server
come up through the event thread to the HAL state machine. A picture's frames go
from the channel's callback to the post-processor, from there through a reprocess
channel and to the JPEG job manager, and the encoder's answer returns as an event
of the state machine. HAL3 does without the state machine: requests, results and
flush meet on `mMutex`.

What makes the parts correct:

- stream: a buffer is with the driver or with somebody else, never both; each
  reference is counted once and given back once; the poll set follows the queue;
  a stop ends and nothing of the stream is in use after it.
- channel: every buffer taken out of a bundle is dispatched or given back; bundles
  are of one frame, in order, and bounded; the queue never blocks its thread.
- camera object: calls after close fail, locks are released on every path.
- JPEG: every started job is answered, or its abort has returned and it never is.
- post-processor: every frame goes back to its channel once, and a stop returns.
- HAL1: every API call is answered, in every state; the channels that run are the
  ones the state says.
- HAL3: every request gets one shutter, its metadata and all of its buffers, once
  and in order, also when it is flushed.

The hazards this leads to are listed, each at its line, in `PROJECT.json`.

## Modules

| module | code | role |
|---|---|---|
| `MmStream` | `mm_camera_stream.c`, `mm_camera_thread.c`, parts of `mm_channel_start`/`stop` | one stream, its poll thread, its command thread, the clients, the driver |
| `MmStreamProofs` | | theorems about `MmStream`: types, polling, who has a buffer, references, counts, refinement |
| `MCMmStream` | | its instances for TLC |
| `MmSuperbuf` | `mm_camera_channel.c` | the super-buffer queue of a channel |
| `MCMmSuperbuf` | | its instances for TLC |
| `QCameraStateMachine` | `QCameraStateMachine.cpp`, the API lock, answers and channel operations of `QCamera2HWI.cpp` | the HAL1 camera: state machine thread, callers, notifier, live snapshot thread |
| `QCameraStateMachineProofs` | | theorems about it: types, the preview message, pictures, answers owed, arguments lent, the channels of the states |
| `MCQCameraStateMachine` | | its instances for TLC |
| `BufferOwnership` | (abstract) | what a stream promises about its buffers; `MmStream` implements it |
| `BufferOwnershipProofs` | | what the promise is worth, as a theorem |
| `MmSuperbufProofs` | | theorems about the super-buffer queue: types, references, order, counts, bound, loss, ZSL |
| `MmJpeg` | `mm_jpeg.c`, `mm_jpeg_queue.c` | the JPEG job manager: client, manager's thread, codec |
| `MmJpegProofs` | | its inductive invariant |
| `QCameraPostProc` | `QCameraPostProc.cpp`, `QCameraQueue.cpp`, deferred work of `QCamera2HWI.cpp` | the HAL1 post-processor, composed with `MmJpeg` (EXTENDS) |
| `QCameraPostProcProofs` | | theorems about the composition |
| `SequencePick` | `QCameraQueue.cpp` (`flushNodes`) | what is left of a queue when some entries are taken out; used by `QCameraPostProc` and `MmSuperbuf`, and by the proofs of `QCameraStateMachine` |
| `SequencePickProofs` | | lemmas about it, about counting in queues and about relations between their entries |
| `MCQCameraPostProc` | | its instance for TLC |
| `QCamera3HWI` | `QCamera3HWI.cpp`, parts of `QCamera3Channel.cpp` and `QCamera3PostProc.cpp` | a HAL3 session: requests, results, flush, dead daemon |
| `QCamera3HWIProofs` | | theorems about it |
| `MCQCamera3HWI` | | its instances for TLC |

### MmStream

A section under `buf_lock` is one action, and so is each piece of code between two
sections. The control thread (`ctl`) walks through `mm_channel_start` and
`mm_channel_stop` as far as they concern one stream; `pp` is the program counter of
the poll thread in `mm_camera_poll_fn` and `mm_stream_data_notify`; `pc[r]` is that
of a thread in `mm_stream_buf_done`, a client's or the stream's command thread.
`given[b]` counts the references to buffer b that the channel and the application
hold: the code has no such variable, it is what the code promises them.

| variable | code |
|---|---|
| `state`, `queued`, `isLinked` | `mm_stream_t.state`, `queued_buffer_count`, `is_linked` |
| `refcnt`, `inKernel` | `buf_status[b].buf_refcnt` (a `uint8_t`, modulo 256), `.in_kernel` |
| `cmdActive`, `cmdQ`, `cmdExit`, `cmdLock` | `cmd_thread.is_active`, its queue, an EXIT node in it, `cmd_lock` held |
| `entry`, `polled`, `pipe`, `sigDone` | `poll_entries[idx]`, `poll_fds[idx + 1]`, the pipe, the answer to a synchronous update |
| `reqd`, `streaming`, `kq`, `doneQ` | the V4L2 driver: REQBUFS, STREAMON, its two buffer queues |

The driver is external: it refuses QBUF without requested buffers, fills queued
buffers in any order while streaming, and gives everything up at STREAMOFF. The wait
for buffer mappings in STREAMON is modelled by its outcome, success or failure.

What may fail (at most `MaxFail` times in a run): GET_BUF; REQBUFS (`RegBufRefused`);
the cache operation or the ioctl of a buffer at registration; STREAMON or its wait; the
cache operation after DQBUF, with which `mm_stream_data_notify` returns and nobody has
the dequeued buffer (`UncountBuf`); the cache operation and the ioctl of QBUF
(`CountBuf`, `QbufIoctl`); and the three nodes that pass a buffer on, to the channel, to
a linked channel and to the command thread (`NotifyBundle`, `NotifyLinked`,
`NotifyCmd`). The code counts a reference before it allocates the node and only logs
that there is none: the count keeps a reference that nobody will give back, and the
buffer stays away until UNREG_BUF. The auxiliary variable `lost` counts these
references; no guard reads it. Failures left out: the EXIT node of the command thread,
its launch, adding the poll entry (an error of the fixed-size table of entries), and
STREAMOFF and the REQBUFS of UNREG_BUF, whose errors the code ignores.

Not modelled: user-buffer batches (`mm_stream_read_user_buf`,
`mm_stream_write_user_buf`), format and offset computation, the mapping of buffers.

`QuietRestart` states a timing assumption of the runs: a callback of one session is
over before the next session registers its buffers. The code does not enforce it
(`mm_channel_stop` joins the channel's threads, not the clients' calls); without it
a client's late `mm_camera_qbuf` is taken for a buffer of the new session, which is
what the comment at `mm_camera.c:559` assumes away.
The last buffer's removal from the poll entries leaves `mm_channel_stop` nothing to
wait for, so that a buffer may be unregistered while the poll thread is still in
`mm_stream_data_notify`; the model has this step, and the properties hold with it.
`Linkable => HasCb` holds because HAL1 links metadata and preview streams only, and
gives both a callback.

### BufferOwnership

Six phases of a buffer, its users and its lost references, and the ways a stream may
hand a buffer on: a user is added only to a buffer that has one, and only the release of
the last user sends it back. A failure may lose a reference, which then counts but is
never released, or strand a buffer between the driver and its users; each costs at most
one of these. `MmStream` implements it under this mapping
(`Ownership`, at the end of `MmStream`):

| `BufferOwnership` | `MmStream` |
|---|---|
| `open` | the control thread has started the stream and not begun to stop it |
| `users[b]` | references held by channel, clients, command thread, linked channel and poll thread |
| phase `driver` | b is in one of the driver's two queues |
| phase `taken` | the poll thread has dequeued b and not counted its references |
| phase `shared`, `returning` | references, held or lost, are left; none is left and a thread is about to queue b |
| phase `stranded` | none of these: a cache operation or an ioctl failed |
| `lost[b]`, `failures` | `lost[b]`, `fails` |

It is the reference *held*, not the `buf_refcnt` of the code, that is mapped to `users`:
a code that counts other than it hands out does not implement the specification, unless
a failure accounts for the difference.

### MmSuperbuf

Everything in it is done by the channel's command thread, one command at a time in
the order they were queued, so that a command is taken up in the step that queues
it: any delay in the queue is a delay of the sender. `pc` and `hand` walk through
`mm_channel_process_stream_buf`: comparing the buffer in hand, skipping, settling
(ZSL trigger, overflow), dispatching. The queue is a sequence of bundles; sets of
positions say which of them an operation releases. `owed[s]` counts the references
the channel side holds on buffers of stream s, and `app[s]` those in the upper layer.

A buffer of a linked stream goes back to the stream's own channel, through the slot that
`mm_channel_link_stream` fills (`Link`). Before it stops the channel, HAL1 takes the
linked streams off its list (`DropLinked`, `QCameraChannel::stop`), and
`mm_channel_stop` clears their slots after its last flush: `linked` says for which
streams the upper layer can still give buffers back. What it gives back of another
stays referenced in the stream's own channel; the auxiliary variable `lost` counts
this, and what a failing start forgets of the linked streams.

Ids beyond the last frame of a session are one value, `Future`: adding
`MM_CAMERA_MAX_FUTURE_FRAME_WAIT` only has to be later than any frame of the run.
`frame_skip_count` is folded into `ledOff`. What the metadata may say is a set of
records; their order is free.

### QCameraStateMachine

A call of the framework is the sequence of messages HWI submits for it (`Plans`),
each answered through the answer list before the next; the caller holds `m_lock`
except while it waits, so that everything from one wait to the next is one action
(`BeginCall`, `WaitAgain`, `TakeAnswer`). The state machine thread takes a message
(`Dequeue`) and handles it: one named operator per `case` of the eight
`procEvt...State` functions, gathered by state, with a message that several states
treat alike defined once (`SetParams`, `MsgType`, ...). A handler blocks only in
`signalAPIResult`, which is why it is one action. Messages are named after
`qcamera_sm_evt_enum_t` in short; `query` stands for all calls that only read.

| variable | code |
|---|---|
| `m_state`, `mPreviewWindow`, `api_queue`, `evt_queue` | the same |
| `m_channels` | `m_channels[type]`: absent, added, started |
| `params` | `m_bZslMode`, `m_bZslMode_new` (with the text of `KEY_QC_ZSL`), `m_bRecordingHint`, `m_bRecordingHint_new`, `KEY_RECORDING_HINT` and its entry in `m_tempMap`, `m_bNeedRestart` |
| `msgs` | `m_bDelayPreviewMsgs`, `m_DelayedMsgs`, `mMsgEnabled`; `wanted` is what the framework last asked for |
| `shot`, `prep`, `live` | the picture in flight, a snapshot being prepared, the job of `mLiveSnapshotThread` |
| `results`, `call`, `cur` | `m_apiResultList`, each caller's place in its call, the message in the thread's hands |
| `notifier`, `daemon`, `frame` | the notifier in `processSyncEvt`, the server, a video frame held by the framework |

An operation that can fail is the set of its outcomes; `Failing` says which may.
Left out: long shot, retro-active frames, RAW and offline RAW, no-display preview,
the preview restart property, TNR, the other camera of a pair (muxer), eztune,
settings that do not parse. The nodes of messages and answers are always allocated;
without one, `signalAPIResult` only logs it (`QCamera2HWI.cpp:6745`), and the caller would
wait for ever. Of the settings only the ZSL mode and the recording hint
are kept, and `restart` for any other one that asks for a restart.

Assumptions of the passing runs, each a constant:

- `QuietParams`: no `set_parameters` while a picture is taken. Without it the mode in
  force when the picture ends may not be the one it was started in, and
  `cancelPicture` stops the wrong channel.
- `LateRelease = FALSE`: video frames come back before recording stops. Run
  `late_release` shows what happens otherwise.
- `Failing` without `prepare` and `start`: a `preparePreview` that fails in
  `SET_PARAMS_RESTART` leaves PREVIEWING without a channel, and so does a failed start
  in `preStartRecording`. Everything after that violates `StateMatchesChannels`.
- Two threads do not make the same call: answers are found by event type, and two
  threads inside the same call may take each other's, which breaks `PayloadAlive`.
  The framework serializes its calls but for those that return frames or cancel.
- One thread drives, for the same reason: the machine does not keep other calls out
  between the messages of `set_parameters`, and `StateMatchesChannels` does not survive
  a `start_preview` between them.

### MmJpeg

One client with one encoding session, as HAL1 uses it. `api` is where the client's
thread is in `mm_jpeg_start_job`, `mm_jpeg_abort_job` or `mm_jpeg_destroy_session`,
`mgr` where `mm_jpeg_jobmgr_thread` is, `cb` what the codec's thread has yet to do in
`mm_jpegenc_job_done`. Code under `job_lock` is cut where the session's lock or a
queue's lock is released, since the codec's thread takes only those. The codec
itself is external: it answers each submitted buffer once, full or with an error,
and carries out state commands later, with an event.

A session is configured when it is created, as `mm_jpeg_create_session` does when no other
is in progress. Two abstractions: the two state changes of
`mm_jpeg_session_destroy` (Executing to Idle, Idle to Loaded) are one command with one
wait, and configuring never fails.

| variable | code |
|---|---|
| `job_queue`, `ongoing_job_q`, `session_handle_q` | `job_mgr.job_queue`, `ongoing_job_q`, the session's queue of its own handle |
| `job_sem`, `job_lock`, `lock` | the manager's semaphore and mutex, the session's mutex |
| `abort_state`, `encoding`, `jobId`, `config`, `error_flag`, `state_change_pending` | fields of `mm_jpeg_job_session_t` |
| `answers`, `events`, `quiet` | calls of the client's callback per job; those not looked at; jobs whose abort has returned |

### QCameraPostProc

`MmJpeg` is extended: a step is one of the post-processor with what it does to the
job manager, or one of the job manager alone (`JpegSteps`). The data thread's
commands, its calls into the job manager (which block) and the frame it carries are
in `data`; `processPPData` on the reprocess channel's thread is two steps, with the
frame in `ppHand` between them; the deferred-work thread is `deferred`. A queue that
is flushed takes nothing until it is initialised again (`m_active`). `sendCmd` with
`sync_cmd` waits on `sync_sem`. A picture is cancelled, or ends, at any moment.
The returns of `doReprocess` after it took a frame off the queue (3099 and 3119) are not
in the model: `processData` stores both super-buffers of what it enqueues, and one
reprocess channel is in use.

### QCamera3HWI

Every action is one section under `mMutex`, or the stretch of `flush` that runs without
it. Frames are numbered as requests are taken. `metadata` and `images` hold what the
daemon and the driver have yet to send: metadata of any frame may come next, which means
the metadata of the frames before it was missed; images of one stream come in order.
`post` and `reproc` stand for the post-processor and the reprocess jobs. `plan` holds
the requests that `orchestrateRequest` has still to send for an HDR snapshot.
`answers[f]` is what the framework has been told of frame f. A channel may refuse any
request, at most `MaxRefused` of them; what the requests of an HDR snapshot return,
`orchestrateRequest` ignores. Left out of `flush`: its returns before or while the
pending requests are reported (5131 to 5145: `stopAllChannels` always returns 0, and
`get_bundle_info` is a lookup in the interface; 5155: no memory for a list of buffers),
and a failure of `startAllChannels` (5165), which comes after the answers.

| variable | code |
|---|---|
| `mState`, `mFlush`, `mPendingLiveRequest`, `mWokenUpByDaemon` | the same (`OPENED` and `INITIALIZED` come before the first configuration and are left out) |
| `mPendingRequestsList`, `mPendingBuffersMap` | the same, by frame |
| `cached` | `RequestedBufferInfo.buffer` of a pending request |
| `pc`, `restart`, `signalled` | where the request thread and the flushing thread are; `flush`'s argument; `mRequestCond` |

## Runs

| run | what it shows |
|---|---|
| `stream` | two buffers (one kept by the upper layer), two clients, a link, one failure: type, ownership, references, counts, poll set |
| `stream_restart` | two sessions, one client, one failure: the stream implements `BufferOwnership`, also after a stop, after a failed start and with a reference lost or a buffer stranded |
| `stream_live` | under `FairSpec`: a stop ends, filled buffers are dequeued, referenced buffers come back |
| `superbuf` | three streams (one linked, one that repeats frames), burst mode and low-priority continuous mode, frame diversion, requests, a failing start, links dropped before the stop: order, counts, bound, one frame per bundle, nothing lost but references of the linked stream, no endless loop |
| `superbuf_flash` | two streams, pre-flash, bracketing, zoom, manual ZSL, flush, change of mode, instant capture, a failed start: ZSL capture follows demand |
| `camera` | two threads (preview, parameters, recording and pictures; disable, cancel, frames), failures of recording, capture, live snapshot and hardware, death of the daemon: every waiter has an answer coming, arguments outlive their messages, state and channels agree, no stray picture, no lost PREVIEW_FRAME |
| `camera_live` | under `FairSpec`, with a live daemon: every call returns, every picture ends |
| `jpeg` | two frames and jobs, two pictures with and without reprocessing, each cancelled at any moment, under `FairSpec`: every frame goes back once, no answer after an abort, every other job is answered, a stop returns |
| `hal3` | three requests (preview, preview with picture, or reprocessing), a flush, refused requests, missed metadata, the daemon's death, reconfiguration: each request and buffer answered once, in order, the count right, nothing left by flush or device error |
| `hal3_live` | under `FairSpec`, a preview or reprocess request and an HDR snapshot, one request refused: the blocked request thread is released by results alone, every request is answered |
| `late_release`, `device_error` | two places where the code does not do what its comments say; see `findings` in `PROJECT.json` |

Bounds. Two buffers are enough for a last and a first queued buffer to be different
buffers and for two filled buffers to wait; two clients are the smallest number that can
release one buffer at once beside the command thread. One failure, placed at any of the
points listed under MmStream, takes each of those error paths; two of them in one run
are left to the proofs, which hold for any number. Two sessions are the first that can
inherit anything. For the channel, three streams are the smallest bundle that can miss
two buffers, three frames the smallest number for an older, a matched and a newer
bundle; with `maxUnmatched` 1 both the refusal and the making of room happen. The runs
of `MmSuperbuf` switch the deadlock check off because frames and sessions are bounded
and the system then rests. In `MmStream` the rest after the last session is an explicit
action, `Done`, and deadlock is checked. In the camera runs, six calls (five for
liveness) are the smallest number that sets a window, starts preview, changes the mode,
takes a picture, and still has one call of the other thread to race with its end; calls
are bounded, so the deadlock check is off.

In the `jpeg` run two jobs are the smallest number of which one waits while the other is
under way, is put back, or is aborted; a second picture meets what the first left. In
`hal3` three frames let a missed one lie between two others and reach `MaxInFlight`;
`MinInFlight` 2 is the smallest at which the request thread blocks with one request
still young, and `CountWidth` stands for the 2^32 of `mPendingLiveRequest`: a count
below zero is then seen as a large one, as in the code. `MaxRefused` is the number of
requests a channel refuses: all three in `hal3`, one in `hal3_live`. `hal3_live` takes
seven frames: one request and the six of an HDR snapshot. `MaxPlain` is the frame up to
which anything but HDR may be asked. `Mixed` lets live and reprocess requests be pending
together (without it a reprocess request is alone, so that two reprocess requests are
not pending together either), `MayFlush` lets the framework flush; no run has both,
because of the observation on `flush` with reprocess requests below. The deadlock check
is off in these runs: requests and pictures are bounded, and the daemon may be dead.

Fairness. `FairSpec` gives weak fairness to each thread of the interface, since they
are ordinary threads that wait only for the things the actions' guards name, and to
the control thread only once it has begun to start or stop. Clients that
entered `mm_camera_qbuf` finish it; that a client gives a buffer back at some time
is the contract of the callback, and strong because other buffers may occupy
the client in between. Nothing is assumed of the driver: `FilledIsDequeued` starts
from a filled buffer. In `QCameraStateMachine` every thread that has something to do
does it, and a live daemon delivers the frames, the metadata and the end of a
preparation it was asked for; no call is ever assumed to be made.

In `QCamera3HWI`, `Running` says that the framework's threads go on with what they
have begun, `Answering` that a living daemon and the post-processor
send metadata, images and finished jobs. Which metadata comes is not assumed, so that
any but the last may be missed. The timeout of five seconds in
`process_capture_request` is never assumed to pass. In `QCameraPostProc` the data
thread, the manager's thread, the client inside a call and the reprocess channel's
thread run, the state machine comes to an ended picture, and the codec answers what
was submitted and carries out its commands. A semaphore or mutex that is free is
taken in the end: each weak fairness is on a whole thread, whose guard is that it
can run.

## Proofs

`MmStreamProofs` holds, for every number of buffers and every finite set of clients:

- `TypeCorrect`: `Spec => []TypeOK`. The invariant is inductive as it stands because it
  says where threads hold a buffer (`ThreadsOK`); it is split into parts
  (status, queues, control, threads, flags) with one lemma each.
- `PollingCorrect`: `InitReg # {} => (Spec => []PolledWhileQueued)`: the poll entry is
  there exactly while buffers are queued, and a poll set that differs from the
  entries has an update on its way. `InitReg # {}` is needed: when no buffer is
  registered, a restart finds an entry that a late return left behind in the session
  before and resets the count beside it.

Argument: every change of the entry writes to the pipe, every
change of the count through 0 and 1 changes the entry in the same section, and
the registration of a non-empty first set counts from 0 again.

Under `QuietRestart` it also holds, for every number of buffers,
clients, sessions and failures:

- `DriverAloneCorrect`: `Spec => []DriverOwnsAlone`;
- `RefsCorrect`: `Spec => []RefsAccounted`;
- `CountCorrect`: `Spec => []CountMatchesDriver`;
- `OwnershipRefined`: `Bundled \/ HasCb => (Spec => ImplementsOwnership)`. A stream
  nobody asks for would dequeue a buffer, count no reference to it and never return it;
  the stream's `Init` allows one, and it is left out of this theorem alone.

None of the four is inductive. `OwnershipInductive` proves the invariant under them,
`OwnInv`. Its core is `Fate(b)`: a buffer is in at most one of the places where nobody
has a reference (`Away`: with the driver, filled, just dequeued, on its way back), and
then its count is 0; its count is the number of references held (`Held`) and of those
lost, except that
between the end of the stop and `UNREG_BUF` it may be more, since `mm_camera_qbuf`
drops what is returned then; and the count plus the references still to be added
(`Due`) is at most 4, so that the byte neither wraps in `DecRef` nor overflows in
`AddRefs`. The other parts say how far control thread and command thread have come
(`ControlInv`, `CommandInv`), what the driver has when no session is up, the refused
`REG_BUF` included (`DriverInv`), and that a session starts with idle threads
(`QuietInv`). `QuietRestart` is used there and nowhere else: without it a return that
is late by a whole session counts down a reference of the next. The references are a
sum over threads and queues; `NumMoves` and `TimesFacts` turn a step into a change of
numbers, after which every case is linear arithmetic. Each part was checked by TLC on
the instances of `stream` and `stream_restart` before it was proved. In the
refinement the place of a buffer follows from three facts, the driver has it, it was
just dequeued, its count (`ViewHolds`), and every action is shown to be one of the
moves of one buffer (`MovesOn`), or to move none; `LostInv` bounds what is lost by the
failures.

`QCameraStateMachineProofs` holds six theorems, for every set of callers, calls,
settings and failures. Three views of the handlers carry them, each with a lemma per
state that covers all its handlers.

- `MessageKept` (`EnableKept`): every handler does one of seven things with
  `PREVIEW_FRAME`, and two lemmas show what those seven keep.
- `TypeCorrect`: what a handler settles on is a state, a set of channels and parameters
  (`CamOK`).
- `PictureWaitedFor` (`PictureHasState`), unless the thread that cancels a live snapshot
  cannot be created: the handlers leave the state whatever `cancelLiveSnapshot` returns,
  and the picture would stay behind.
- `WaitersServed` (`EveryWaiterServed`) and `ArgumentAlive` (`PayloadAlive`): a handler
  answers the message in hand, notes it for later, or is one of the few that nobody
  waits for (`FlowStep`). For each type of event `Waiting` counts the threads that wait
  and `Due` the messages, the answers and the preparing state. `StepCounts`: a step
  changes both alike, or makes more due (the machine's own cancels and stops), or drops
  what nobody waits for. Hence `Waiting <= Due` always, and `Due <= Waiting` for every
  type the machine does not send itself. What else is needed: the state that prepares is
  left exactly by the event the hardware still owes or has sent, which comes once
  (`PrepInv`); a caller waits for a part of a call it makes, in the order of the call
  (`CallInv`), so for no stop of a capture; a frame given back is first in the queue and
  handled while recording (`FrameInv`), which is where `~LateRelease` is used. The second
  theorem takes the callers' side: when an argument is due somebody is inside a call of
  its type, and only the one that lent it makes such calls. Two callers in the same call
  may take each other's answer, as the comment of the property says.
- `StatesCorrect` (`StateMatchesChannels`), under the conditions of the `camera` run:
  one thread drives, any number of others ask, switch messages, give frames back and
  cancel; parameters are not set during pictures; nothing fails to be prepared or
  started, and whatever else fails does. Outside a restart the channels fit the state
  and every handler moves to a state they fit (`HandleMoves`); no channel is left to
  chance by a capture that fails half-way. A restart is three messages with a dark
  camera between them, and the state says nothing meanwhile: what the proof needs is
  that nothing else moves then. `DrivenFacts` gives it from the counts of the theorems
  above: a driving message or answer exists once, and is what the driver waits for; the
  other threads' calls move nothing in the states a restart goes through
  (`GentleStill`). `RestInv` says how far the restart is, `ModeInv` that a picture is
  taken in the mode of its state. With two driving threads it does not hold: TLC finds
  a `start_preview` of one between the stop and the commit of the other, which starts
  the channel of the old mode, and the restart then starts that of the new one beside it.

`BufferOwnershipProofs` holds `OwnershipCorrect`: `Spec => []OwnershipInv`, a buffer the
driver has, one on its way to or from it, or one stranded there, has no user and no lost
reference, and no buffer has lost more references than there were failures. The
invariant is inductive, and one lemma (`OneMoves`) covers every action that moves one
buffer.

`QCameraPostProcProofs` holds `QuietAfterAbort`: `Spec => NoAnswerAfterAbort`, for any
number of pictures, frames and jobs. The argument is in `MmJpegProofs`. Its
invariant `JpegInv` has four parts: a job is in the queue once, or with the manager,
or quiet, and never two of these (`QueueInv`); `job_lock` keeps client and manager
apart (`LockInv`); the session's handle is in its queue, with the manager or with the
codec (`HandleInv`); and the codec works at a job that is under way, or whose abort is
still waiting (`CodecInv`). Then the three callers of the callback
call it for a job that is not quiet. All four are needed at once: that an aborted job
is not answered follows from `abort_state`, that no later job is taken for it from the
handle, that it is not started again from the queue. `StepOfJpeg` carries this to
the composition: a step of the post-processor is a step of the job manager or leaves
it alone. TLC checked `JpegInv` on the `jpeg` instance before it was proved.

It also holds `TypeCorrect` (`Spec => []TypeOK`) and `FramesCorrect` (`Spec =>
[]FramesAccounted`): every frame that was given to the post-processor is in one of its
queues, in the data thread's hands or with the encoder, or went back to its channel
once, and all of them went back when no picture is taken. Both follow from `PostInv`,
which has, beside `JpegInv` and the types:

- `SyncInv`: who waits for `sync_sem` has exactly one command in the queue, or the data
  thread about to post; a command is queued only by its caller. So start and stop
  return for what they asked, and the thread's state follows them.
- `FrameInv`: for each frame the number of places that have it, and of times it was
  released, is 1 in all.
- `EncodeInv`: while the data thread is between adding the job to `m_ongoingJpegQ` and
  storing its number, the job is the last entry and the only one without a number. The
  error path removes that entry by its place, and takes the right one for this reason.
- `FlushInv`: as far as the thread has come with a stop, the queues behind it are empty.
- `RestInv`: from the end of a stop until the next start is carried out the thread is
  inactive and the queues are empty.

The frames are counted with `Tally`, the number of entries of a queue that lie in a
set. `SequencePickProofs` shows that `Pick` keeps the order of what it keeps and that a
queue's tally is that of what `Pick` keeps and what it drops (`PickSplits`), and gives
the tallies of appending, of a head taken off and of a last entry taken off. Each
conjunct of `PostInv` was checked by TLC on the `jpeg` instance first.

`MmSuperbufProofs` holds nine theorems, for every set of streams and any number of frames,
requests and sessions. `ZslCorrect`: the trigger at the end
of each command makes the flag follow the demand; the strengthening is that between
commands, too, capture that the thread started has something to wait for. The other
eight are about the queue, and rest on two layers.

- `TypeInv` (`TypeCorrect`): `match_cnt` is at least the number of matched bundles,
  without which the code's decrements would leave the naturals; the queue of a stopped
  channel is empty; the buffer in hand is the last its stream delivered. With it goes
  `OwedInv` (`BuffersCorrect`), which counts the references of a stream as the entries of
  the queue that have a buffer of it, those of the upper layer and those lost; `KeptInv`
  says that a stream of the channel's own loses none. Lost are the buffers of a linked
  stream that come back when the link is gone, and those in the queue when a start fails:
  the error path of `mm_channel_start` gives back by the type of the stream that failed
  (see the observations below).
- `FlowInv` (`OrderCorrect`, `CountCorrect`, `LoopsCorrect`, `UnmatchedCorrect`,
  `FrameCorrect`, `CompletableCorrect`), under `Orderly`: the metadata of a queue of low
  priority comes once per frame. Such a queue names a bundle after the first frame that
  is not metadata, and a second metadata of one frame may be put into another frame's
  bundle; a queue of normal priority needs no such thing, and no other stream does.

`FlowInv` is an induction over the queue's history. `SoundInv`: a bundle is matched if and
only if it is full, its buffers have its own id and have been delivered.
`OrderInv`: of two bundles the earlier is matched if the later is, and if it
waits, it is the older one, or (low priority only) `Stuck`: some stream has passed its id
without a buffer for it. As a stuck bundle never becomes complete, what waits before a
bundle that completes is older than it, so that `mm_channel_superbuf_comp_and_enqueue`
releases just the bundles between the matched ones and the new one. Matched
bundles therefore remain a prefix, whoever takes one out counts it off
exactly once, and the loops that drop from the head find what they count. A relation
between every two entries is a `Chain`; `SequencePickProofs` shows what taking out,
replacing and concatenating do to chains and tallies. `FreshInv` adds that a buffer in
hand of a stream that does not repeat is newer than all of that stream in the queue.
TLC checked every conjunct on the `superbuf` instance first. The strengthening also showed
that order, count and ends of loops do not need normal priority, and the checked
properties say so now.

`QCamera3HWIProofs` holds seven theorems, for every set of streams and requests and any
number of frames: `EachAnsweredOnce` (`~ Mixed => (Spec => []AnsweredOnce)`),
`LiveAnsweredInOrder`, `FlushHasAnswered`, `DeinitIsAnswered`, `CountIsRight`,
`TypeCorrect` and `BufferIsSomewhere`. `Inv` says what the lists hold in common with the
answers (`AnswerInv`: the final answer is missing exactly while the request is pending,
a buffer exactly while it is in the map), with each other (`PendingInv`: a pending
request has an entry with all its buffers, and no live request is pending that is older
than one that is not) and with what is still to come (`CallbackInv`: every callback
brings a buffer that is still owed). `FlushInv` places the threads: while the camera
works only the framework flushes, `mFlush` is set from its first section to its last,
and once the channels have stopped nothing comes; otherwise no callback is heard. With
`PendingInv` the entries that `notifyErrorForPendingRequests` walks are at least as many
as the pending requests, so that it clears them all (`NotifyClears`); it answers none
twice because, unless live and reprocess requests mix, the entries of answered requests
are all older than the pending ones (`ApartInv`). That is where `~ Mixed` is needed; it
also keeps two reprocess requests from being pending together, a little more than that
argument asks for. The count needs the bound on frames only to stay below the width it
counts modulo (`CountInv`).

`BufferIsSomewhere` (`BufferComesBack`) follows one buffer from place to place: it is with
its channel, kept for its metadata, in the post-processor or in a reprocess job
(`WhereInv`). For a picture that is not enough, since image and metadata come on two
threads: an image in the post-processor, or on its way there, has its metadata, will
have it, or has missed it (`JoinInv`), and this lasts because metadata is still to come
only for requests that are pending (`MetadataInv`). Two conditions: `OnePicture`, at most
one stream waits for metadata, which the code ensures by refusing a configuration with
two stalling streams (`QCamera3HWI.cpp:1687`; with two, the streams of a request would
share the one entry it has in `post`, and TLC finds the lost buffer); and
`OneOutput`, a reprocess request has one output, because the model's reprocess job has
one. Live and reprocess requests may be pending together. TLC checked each part on the
`hal3` instance, with and without `Mixed`, before it was proved.

Beside those conditions the theorems assume only the named assumptions on constants.
Only model-checked: liveness, since TLAPS proves neither leads-to under fairness nor
ENABLED. Every invariant and action property of a passing run is stated by a theorem,
under the conditions named above.

## Observations outside the runs

Met while reading, visible in the text, and left out of `PROJECT.json` because no
property of the models is about them. Paths are below `camera/QCamera2`.

In `stack/mm-camera-interface/src`:

- `mm_camera_stream.c:4804`: `in_kernel` is written after the ioctl and outside the
  lock, possibly over what the poll thread wrote when it dequeued the buffer again.
- `mm_camera_stream.c:1787`: a buffer given back during a stop may put the fd of the
  stopped stream back into the poll entries.
- `mm_camera_stream.c:1175`: STREAMON waits, with a timeout, for the first buffer in the
  kernel that is not mapped.
- `mm_camera_channel.c:2666`: `led_off_start_frame_id` of an earlier capture is compared
  with the present frame before it is set again.
- `mm_camera_channel.c:515`: the wait for PREP_SNAPSHOT_DONE begins with the last
  retro-active frame; if that metadata came before, it is waited for again.
- `mm_camera_channel.c:1616`: the error path of `mm_channel_start` flushes by the type of
  the stream that failed instead of the linked stream's.
- `mm_camera_channel.c:3620`: `mm_frame_sync_lock_queues` reads the ring's channels
  without `fs_lock`.
- `mm_camera.c:598`: `mm_camera_cancel_buf` returns with `cam_lock` held when the channel
  does not exist.
- `mm_camera_thread.c:355`, `:321`: the state of the poll thread and `notify_cb` are read
  without the lock they are written under.

In `stack/mm-jpeg-interface/src/mm_jpeg.c` and `mm-image-codec/qomx_core/qomx_core.c`:

- `mm_jpeg.c:2904`: aborting a job that is under way leaves the session without its
  handle in the queue; only its destruction goes on, which is all HAL1 does.
- `mm_jpeg.c:3623`, `:2083`: after an error event an OMX call that fails answers the
  same job a second time.
- `mm_jpeg.c:3613`: a second error event after an abort has ended is taken for one of
  the next job.
- `mm_jpeg.c:1631`: a refused OMX command leaves `abort_state` at INIT.
- `mm_jpeg.c:2053`: without an output buffer the path back loses the session's handle.
- `qomx_core.c:284`: a component that failed to load keeps `open` TRUE.

In HAL1 (`HAL/`) and `util/`:

- `QCameraCmdThread.cpp:207`: EXIT may overtake commands that are queued.
- `QCameraStateMachine.cpp:1262`: a `preparePreview` that fails in SET_PARAMS_RESTART
  leaves PREVIEWING without a channel.
- `QCameraStateMachine.cpp:2449`: a mode refused during recording is stored all the same.
- `QCameraStateMachine.cpp:1862`: when the daemon dies in PREPARE_SNAPSHOT nobody ends it.
- `QCamera2HWI.cpp:4996`: `cancelPicture` stops the channel of the mode now in force.
- `QCamera2HWI.cpp:5635`: a late cancel of a live snapshot stops the post-processor of
  what came after it.
- `QCamera2HWI.cpp:6690`: two threads inside the same call may take each other's answer.
- `QCameraPostProc.cpp:2918`, `:2931`: the STOP of the thread that saves pictures may
  overtake its START.
- `QCameraPostProc.cpp:3242`: `doReprocess` with several jobs for one frame takes the
  wrong one back on failure.

In HAL3 (`HAL3/QCamera3HWI.cpp`):

- `:3640` to `:3765`: `orchestrateRequest` ignores what the requests of an HDR sequence
  returned.
- `:4580`: a restart of the sensor leaves `mPendingLiveRequest` as it was.
- `:3071`: a dropped frame is reported for every stream of the request.
- `:11534`: a flush with live and reprocess requests pending reports a request error for
  a request whose result has left.

In the fingerprint service: `BiometricsFingerprint.cpp:310`, a notification that comes
during construction finds no instance.

## What is left

Closest to what is there: the pool of output buffers and several sessions of the job
manager; raw pictures and the saving thread of the post-processor; urgent metadata
and dropped frames of HAL3; the waits inside reconfiguration. Beside it: the ring of
the frame sync, which needs a second camera; the locks of the camera object; the
life of the command threads. The invariants these
additions need would be proved with them.

## Not modelled

- Parameters (`QCameraParameters.cpp`) but for ZSL mode and recording hint: parsing of
  settings. The largest file of the repository, and hardly any control.
- The camera of the land variant: an older copy of the same HAL.
- HAL3: constrained high-speed sessions (batches, restart of the sensor), dropped-frame
  reports, urgent metadata, the 256 entries of the frame-number registry, translation
  of metadata, the threads and heaps inside the channels.
- HAL1: callbacks of preview and video frames, memory, long shot, raw pictures, the
  thread that saves pictures, a second pass of reprocessing, offline buffers, thermal
  adapter, wrappers. The muxer and the frame sync pair two open cameras; the modules
  are of one.
- JPEG: decode jobs, several sessions, the pool of output buffers and its counts,
  refused OMX commands. EXIF, MPO, ion buffers: data without control. The loading of the
  codec library: one thread under one lock.
- mm-camera-interface: batches of user buffers, formats and offsets, mapping of buffers,
  launch and release of threads, open and close, the domain socket.
- lib2d, display, perf and flash adapters: thin I/O. Factory: enumeration.
- The fingerprint service: forwarding under one lock.
- dumpstate, libinit, shims, overlays, sepolicy, audio: configuration or straight-line
  code run once.
