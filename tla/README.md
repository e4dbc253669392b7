# libffmpegio in TLA+

A model of how libffmpegio moves frames: the buffers between the thread that reads
and decodes a media file and the thread that consumes the frames, the threads
themselves, the single-threaded reader with its file, decoders and filter graph, the
blocks of memory behind the component buffers, and the transcoder sketched in
`src/src/sandbox`. The modules are translations of the C++ in `src/src`; TLC checks
them on small instances and TLAPS proves the central ones for all.

## 1. The system

libffmpegio wraps FFmpeg. A `Reader` opens a file (`InputFormat`), activates
some of its streams (`InputStream`), may put a filter graph behind them
(`filter::Graph`), and gives its user decoded frames one at a time. Frames
travel through buffers: whoever makes frames is the *source* of a buffer, and
whoever takes them is its *sink*.

```
 av_read_frame -> InputFormat -> InputStream -push-> buffer -pop-> SourceBase
                                     |                                |
                                     |                          filter::Graph
                                     |                                |
                                     +-------push-> buffer <-push- SinkBase
                                                      |
                                      PostOp <-pop----+  -> Reader::readNextFrame
```

In `Reader` one thread does all of it. In `ReaderMT` everything left of the
last buffers runs in a worker thread (`ThreadBase`), the buffers are
`AVFrameDoubleBufferMT`, and pausing, seeking, flushing and closing have to
bring the worker to rest first. `ReaderReverse` reads backwards, block by block,
by seeking in the callback of a buffer swap.

The directory `src/src/sandbox` holds a rewrite of FFmpeg's transcoding program in the
style of the library. It is not built, and runs in a single thread:

```
 input files -> decoders -> filter graphs -> encoders -> muxing queues -> output files
      ^              (hardware devices)                                        |
      +----------- transcode_step() <- choose_output() <- need_output() -------+
```

### Inventory

| component | state | operations | what is hard | what makes it correct |
|---|---|---|---|---|
| `AVFrameQueue` | ring of slots (frame, eof, populated), wr, rd, dynamic, killnow; mutex, cv_rx, cv_tx | push, peek and push, try, timed, pop, peek, clear, clrEof, popLastPushed, kill | two threads, growth in the middle of the ring, two-call transactions, kill without mutex, waits and time-outs | FIFO, bounded, ring shape, peeks stay valid, no lost wake-up |
| `AVFrameDoubleBuffer` | two queues, rcvr, sndr, killnow, slaves, callbacks; mutex, cv_swap | the same, and swap | three critical sections per call, unlocked work on the queues, two threads that may both swap | FIFO through both queues, swap only full for empty, nobody waits for everybody |
| `AVFrameStack` | stack, p, killnow; mutex, cv | the same | top-of-stack arithmetic, eof on top | LIFO, eof last |
| sync policies | - | Cpp11 and Null mutexes, locks, condition variables | spurious wake-ups, time-outs, busy waits | a wait ends only with its predicate or in time |
| `ThreadBase` | status, killnow; thread_lock, thread_ready | start, waitTillInitialized, pause, resume, stop | handshake on one condition variable, restarts | pause returns with the worker at rest; stop joins it |
| `ReaderMT` | the worker's loop | activate, seek, flush, pause, resume, kill, closeFile, read_next_packet | worker blocked in a buffer while the user pauses it; status set without the lock | no packet is read during a seek; the worker goes on after it |
| `Reader` | bufs, filter_inbufs, filter_outbufs, prim_buf, active | addStream, readNextFrame, seek, purge_until, atEndOfFile, flush | several streams that fill at different rates and end at different times | every frame once, in order, per stream; eof when all are exhausted |
| `ReaderReverse` | pts_curr, pts_last, pts_delta | activate, seek_pts, cb_postswap | callback in the middle of a swap, seeking under the worker | blocks in descending order, no frame twice |
| `InputFormat`, `InputStream` | streams, packet, eof | readNextPacket, processPacket, seek, add and clear streams | partial failure, several frames per packet | every stream gets exactly one eof |
| `filter::Graph` | inputs, outputs, graph | parse, configure, flush, purge, processFrame | eof, several inputs and outputs, rebuilt graph | links survive a flush; processing ends |
| `ffmpegFrameBuffers.h` | pointers into a block of frames | copy_frame, read_frame, reset, release, swap | pointer arithmetic forwards and backwards | what was written is read |
| sandbox transcoder | input files, decoders, hardware devices, filter graphs, output streams and files | open the decoders; transcode_step: choose an output, filter, read, decode, reap, encode, mux; drain and flush | limits counted in different places, graphs rebuilt while frames are in them, outputs of one file that start at different times, end of file through four layers, which device a decoder gets | every packet and frame accounted for, an encoder gets the format it was opened for, a decoder a device that fits, the loop ends |
| component sinks and sources, image and audio utilities, dump, exceptions, output streams | - | conversions, text | - | not modelled (below) |

`PROJECT.json` names every component with its sources, and the hazards of the
code at their lines.

## 2. The modules

| module | models |
|---|---|
| `FrameQueue` | the data of an `AVFrameQueue` and the critical section of each method, as functions of a queue |
| `AVFrameQueue` | `AVFrameQueueMT`: `FrameQueue` between three threads, with the mutex, both condition variables, kill, waits and time-outs |
| `FrameFifo` | the abstract specification of both buffers: what the buffer interfaces promise |
| `AVFrameDoubleBuffer` | `AVFrameDoubleBufferMT`: two `FrameQueue`s without locks, the mutex around them, cv_swap and the swap |
| `ReaderThread` | `ThreadBase` and `ReaderMT`: the worker, the user, and what they share |
| `InputFormat` | `InputFormat` and `InputStream`: a file, its decoders, and what they push, as functions of a file and its buffers |
| `FilterGraph` | `filter::Graph`, its source and sinks, as functions of a graph and its buffers |
| `Reader` | `Reader<AVFrameQueueST>`: composes `FrameQueue`, `InputFormat` and `FilterGraph` |
| `FrameBuffer` | `ComponentBufferBDReader` over `ComponentBuffer` and `FrameBufferBase` |
| `TranscodeDevices` | the transcoder's hardware devices: how they come to be, and who gets which |
| `TranscodeOutput` | its encoders, muxing queues and output files |
| `TranscodeFilter` | its filter graphs |
| `Transcode` | its loop: composes the three with the input files and decoders |
| `FrameQueueProofs` | lemmas about `FrameQueue` |
| `Folding` | lemmas about `FoldLeft`, for the operator it is instantiated with |
| `AVFrameQueueProofs`, `AVFrameDoubleBufferProofs`, `ReaderThreadProofs`, `FrameBufferProofs`, `ReaderProofs`, `TranscodeProofs` | theorems about those modules |
| `MCAVFrameQueue`, `MCAVFrameDoubleBuffer`, `MCReaderThread`, `MCReader`, `MCTranscode` | instances for TLC |

### FrameQueue

`que` is the vector, `wr` and `rd` are the iterators as 1-based indices. A frame
is its identity. `Null` is the null `AVFrame*` and the content of an
unreferenced frame; pushing it pushes the end of file, as in the code. `Push`,
`MarkPopulated`, `Pop`, `PopLastPushed`, `Clear`, `ClrEof` are the `_threadunsafe`
methods and the bodies of the public ones; `Expand` keeps the three cases of
`expand()`. Two oddities of the code are in the model as they are: `Pop` leaves
the slot of an end of file populated, and `LastPushed` does not wrap around.
`Contents` is what lies between `rd` and `wr`.

### AVFrameQueue

One action per method; `Attempt` is a method from the moment its thread has the
mutex. A thread is `idle`, `blocking` (its predicate was false, and it still has
the mutex), `waiting` (asleep, mutex released) or `woken` (needs the mutex to look
again). `blocking` and `waiting` are apart because `kill()` takes no mutex. `kill()`
itself is three steps: store `killnow`, notify `cv_rx`, notify `cv_tx`. `notify_one`
wakes any one waiter; a wait may also end without a notification (`Wakeup`, which
is also where a timed wait's time is up, and `Expire` is its giving up).

What the threads around the queue do is the use the code makes of it, and these
are assumptions: one source and one sink; the source pushes nothing after the
end of file until the queue is cleared; `push()` completes a `peekToPush()` that
put a frame in; the owner clears while neither end is inside (`ReaderMT` pauses
its worker first); `clrEof` and `popLastPushed` are applied to something that was
not popped yet; `popLastPushed` only where `wr` has not wrapped around, as after
the swap in `ReaderReverse::cb_postswap`. What goes wrong without the last one is
in the hazards.

### AVFrameDoubleBuffer

A `push()` or `pop()` has three critical sections and unlocked work between them:
check under the mutex (`Attempt`), work on the inner queue without it (`inside`),
take the mutex to decide about the swap (`swapper`), release it, and `swap()` takes
it again (`swapping`). While inside, a thread uses the iterator `rcvr` or `sndr`
without the mutex: `Inside` takes the one the thread saw under the mutex or the
current one, since the other thread may be swapping them at that moment. An
inner queue is an `AVFrameQueueST`: its waits are busy loops, modelled by a step
that is not enabled until the queue is ready or killed. Its work is one step;
`Exclusive` is what entitles the model to that.

Left out: slaves (`follow`, `lead`), the swap callbacks.

The code has a race that loses frames (5.2). What the rest of the code
guarantees is checked up to that point: `overtaken` is a history variable that
becomes true when a second thread decides on a swap while one is pending, or
`popLastPushed` takes back the reason for a pending one; behaviours are not
followed beyond.

### ReaderThread

`status` and `killnow` are `ThreadBase`'s. `worker` and `user` say where each thread is.
The worker's loop is one step per turn, taken with `thread_lock` (`worker = "loop"`
means that it has the lock); reading a packet is not under the lock and is cut
where the user can come in between: reading from the file and the decoder, each
push into the buffer, the test for the end of the file (which sets `status` without
the lock), the notification, taking the lock again. The user is in one call at a
time (`task`): each of `seek`, `flush`, `stop` goes through `pause` (`isPaused()` read
without the lock, `kill()` and its notification apart, `ThreadBase::pause()` under the
lock), its own work (`quiet`) and `resume`. `read_next_packet()` has a look, falls
asleep, and is woken. A sleep is two steps where the notifier does not hold the
lock: the buffer's `blocking` and `buffer_asleep`, the user's `news_blocking` and
`news_asleep`.

Abstracted: all buffers are one sequence of at most `Room` frames, in which a push
waits for room or a kill (`AVFrameDoubleBuffer` has the details); all decoders are
one that holds back up to `Delay` frames, gives out the rest in order, and all of
them at the end of the file. A frame is a pair of numbers of seeks: where its
packet was read and when it was decoded. `pause()`'s wait for the end of the
initialization is left out, because `activate()` has already waited for it.

A reader that is stopped and started again keeps its old `status` (5.5). `Restarted`
is where the properties that rely on `PAUSED` stop saying anything.

### Reader, InputFormat, FilterGraph

One thread, so a call is one step, unless it loops: `get_frame()` and `purge_until()`
are one step per iteration (`call`), because each iteration may be the last one, or
the one that never ends. `InputFormat` and `FilterGraph` have no variables: `file`,
`graph` and `bufs` are the reader's, and each of their operators says what a method
does to a record of the three and how it comes back (`how`: `ok`, `throw`, or not at
all).

The media are a fixed sequence of packets of several streams (`Media`); a packet may
be one its decoder refuses. libav is external: a decoder holds back the last `Delay[s]`
frames, until the end of file drains it; a seek goes to any packet at or before the
time; a filter graph is a delay line of `Lag` frames that hands everything to each of
its outputs. What the code does around them is modelled as it is: the end of file is
sent to the streams one after the other; `processFrame()` asks a sink that has ended
again and again; `flush()` purges, parses and configures, and leaves the links of a
graph with one output dangling (`stale`); the filter source that has seen the end of
file does not look at its buffer any more; a seek resets the decoders only at the end
of the file. The buffers are `FrameQueue`s over the Null policy: a push that finds no
room in a buffer of fixed size never returns (`stuck`), because the only thread there is
waits in it.

The client does what the class documents: it opens, adds streams and outputs of a
graph, activates, reads, asks for the end and seeks in any order, and closes. The
histories `gone`, `due`, `said` and `exact` say what the client got since the last
seek, what it had to get, and what it was told.

### FrameBuffer

Two blocks of memory per buffer, with a write and a read pointer into each; what is in
the memory is what was last written there, or `Junk`. A backward reader's pointers start
at the end of the blocks, and it reads once the writer is done. `copy_frame`, `read_frame`,
`reset`, `release` and `swap` are actions; `mixed` is a history variable: `swap()`
exchanges everything but the end-of-file flag, and what a backward reader gets from
then on is not claimed. A backward reader asks `available()` before it reads: the code's
own test for the beginning of the block compares a pointer with 0.

### Transcode

A state is a record `m`, and the functions of the program are operators on it; one
round of the loop of `transcode()` is one step, because nothing else runs beside it but
the signal handler (`Interrupted`). A round is: `need_output()` (which may finish
outputs), `choose_output()` (an output that is not initialized, or the one that lags
behind), and `transcode_step()`: build the graph if the formats of its inputs are
known, take frames out of it, or find out which input it wants, read a packet of that
file, decode it, send the frame through the graphs (which may have to be built again),
reap what comes out of *all* graphs, encode it, and write it or queue it until the file
has its header. `DrainDecoders` and `FlushEncoders` are what follows the loop.

`opt`, the options of the program, is a variable that never changes: TLC explores all
of them in one run. What the client of the program chooses is in there: limits on
frames and on the size of a file, `-shortest`, how often each file is read, real time,
how many packets a decoder holds back, which decoders and encoders are broken, pixel
formats, rotation and deinterlacing, hardware devices and acceleration.

External: libavfilter (every frame that goes in comes out at all outputs, the last
`Lag` when all inputs are closed, in the format of the first input), libavcodec
(encoders and decoders are delay lines), which device types the machine has
(`Creatable`), the muxer. A graph that wants a frame may want one of any of its inputs
that are not at their end (`Wanting`).

A frame is the file it is from, its place there, and the rounds that were left when it
was read; `Media` says of each place the stream, the format, whether the packet is intact,
and how often its time asks for it to be shown. A format is a shape (`Shape`: the size of
a picture, or the rate and channels of audio) and samples (`Sample`: a pixel or sample
format).

`transcode_init()` returns nothing since its `return` was commented out, and
`log_error(FATAL, ...)`, of a class the repository does not have, is taken to throw.

## 3. Runs

| run | instance | checks |
|---|---|---|
| `queue` | capacities 0 (dynamic), 1, 2, 3; two frames; dynamic growth to 3 slots | `TypeOK`, `Contiguous`, `NeverAlreadyPopulated`, `NoLostWakeup`, `PeekedFrameStays`, `FifoSpec`, `PushReturns` |
| `queue_has_eof` | the same | finds `HasEofTellsEof` violated |
| `double_buffer` | capacities 0, 1, 2 per queue; two frames, symmetric; all methods | `TypeOK`, `Exclusive`, `FifoUntilOvertaken` |
| `double_buffer_reader` | capacities 1, 2; one frame; the methods that `ReaderMT`, its sources and sinks use | `NoMutualWait`, `PushReturns` |
| `double_buffer_swap` | the same | finds `SwapFindsSndrEmpty` violated |
| `reader` | `Room` 2, `Delay` 1, two seeks, two starts | `TypeOK`, `WorkerAtRest`, `NothingStale`, `OnlyHeldBack`, `NobodyForgotten`, `SeekRestartsUnlessIdle`, `PauseReturnsUnlessMissed`, `StopJoins`, `ReadsOn`, `ReadReturnsIfPacketFits` |
| `reader_pause`, `reader_read` | `Room` 1, `Delay` 1, one seek, one start | find `PauseReturns`, `ReadReturns` violated |
| `reader_restart` | the same, two starts | finds `StoppedBeforeSeek` violated |
| `pipeline` | two streams of two packets each, one of them refused; a decoder that holds one back and one that holds none; a graph with one or two outputs and a lag of 1; buffers dynamic or of size 2; four openings, graphs and seeks in all | `TypeOK`, `NothingLost`, `EofHonest`, `SeekExact`, `CallsReturn` |
| `frame_buffer` | two buffers of one or two frames, two frames, forward and backward | `TypeOK`, `ReadInOrder`, `AvailableExact` |
| `transcode` | two files, three input streams, two graphs (one with two inputs and two outputs), three outputs, two output files; more than 300 combinations of options | `TypeOK`, `PacketsAccounted`, `FramesAccounted`, `Complete`, `DeviceFits`, `EncoderFormat`, `Ends` |

*Why the bounds are enough.* Three slots are the smallest ring in which the write
position has a slot before, a slot behind and the read position elsewhere, so
that all cases of `expand()`, of wrapping and of a drained end of file occur; two
frames are enough to tell a swapped pair from the right order, because the
queue never looks at a frame. Growth is the only unbounded counter
(`MaxSlots`), and the proofs have no bound at all. In the double buffer two slots
per queue let a queue be neither empty nor full. Fewer frames in the liveness
runs lose nothing: they ask whether a thread moves, not what it delivers.
In `ReaderThread` two seeks let a frame be from before the last but one, a buffer of
two with a decoder that holds one back lets a packet's frames fit, block halfway, or
find the buffer full, and a second start is all it takes to see what the first one
left behind. Symmetry is used only where no liveness is checked. The constraint
`UpToOvertaken` is where the properties, too, stop saying anything.
In `Reader` four bounded calls are enough to open, set a graph, and seek twice, or to
open a second file behind a graph that is there; two packets per stream are enough
for a decoder to hold one back and a graph another one, and for a buffer of two to be
full (one refused packet is the partial failure). Streams and times are few because a
frame is looked at only by its time. In `FrameBuffer` a block of two frames has a
beginning, a middle and an end; what a frame is does not matter to it. In `Transcode`
the formats of two streams change in the middle, a frame is doubled and one is dropped,
a packet of each file is broken, three packets fill a muxing queue, and each option
takes values that bite and values that do not; options that interact are combined,
others are varied one at a time. The counter `waits` bounds how often a file is not
ready.

*Deadlock.* Checked in every run of the buffers, and not in the reader's: there a
user who calls nothing more, or the hangs of 5.3 and 5.4, stop the system, and the
liveness properties say when it may. Not in `pipeline` either, for the same reason (a
client may stop, and `Hung` lists the calls that never return), nor in `transcode`, where
the program ends, and `Ends` says that it does. In the models of
the buffers the owner can always kill, clear or reset, so it shows little: `NoMutualWait`,
`NoLostWakeup` and `PushReturns` are the properties that matter.

*Fairness.* Weak fairness of what a running thread does next (going to sleep with
the mutex, finishing a `kill()`, an unlocked step), because the scheduler runs a
runnable thread. Strong fairness of what needs the mutex, because threads
release it again and again, and a thread that asks for it over and over gets it.
Strong fairness of the sink's pop, because `Reader::get_frame` pops until it has
what it wants; without it nothing can be said of a source. In `ReaderThread` the
worker and a user inside a call go on when they can, and get `thread_lock` if they
ask for it again and again; the user need not call anything. In `Reader` a call in progress
goes on (`GoOn`), and in `Transcode` the loop does: there is one thread, and it runs. Both
are weak fairness written out, because the actions are enabled exactly until the call,
or the program, is over, and TLC takes long to evaluate ENABLED of them. No fairness for
pushing, killing, clearing, time-outs or spurious wake-ups: no wake-up in
`PushReturns` is owed to luck.

### What the properties say

- `Contiguous`: whatever interleaving of pushes, pops, growth, clears and take-backs,
  the populated slots are the ones from `rd` up to `wr` (and possibly the slot of a
  popped end of file, right behind): nothing is overwritten, delivered twice or lost.
- `NeverAlreadyPopulated`, `PeekedFrameStays`: the two-call transactions, whose
  pointer into the ring survives the mutex being released between the calls.
- `NoLostWakeup`: no thread sleeps while the queue is ready for it.
- `FifoSpec`: the queue implements `FrameFifo`, with `Contents`, `Ended` and `Capacity`
  as the refinement mapping.
- `Exclusive`, `FifoUntilOvertaken`: as long as swaps do not collide, a swap finds its
  sender empty with nobody inside a queue, and the two queues are one FIFO.
- `NoMutualWait`, `PushReturns`: writer and reader do not wait for each other; a
  blocked push returns.
- `WorkerAtRest`: nobody reads the file or pushes while the user repositions it or
  flushes the buffers, although `status` is read without the lock in four places.
- `NothingStale`, `OnlyHeldBack`: after a seek nothing comes that was decoded before
  it, and of what was read before it no more than the decoder held back.
- `NobodyForgotten`: no thread sleeps on `thread_ready` for what is already so.
- `SeekRestartsUnlessIdle`: a seek returns with the reader ACTIVE, or with a worker that
  went IDLE, which `resume()` does not touch.
- `PauseReturnsUnlessMissed`, `StopJoins`, `ReadsOn`, `ReadReturnsIfPacketFits`: the calls
  return and the worker goes on, with every way in which they may hang spelled out.

- `NothingLost`: between two seeks every frame of an active stream gets to its buffer once
  and in order, through the decoder's delay, refused packets and the graph, to all
  outputs of the graph.
- `EofHonest`: nobody is told of an end of file before he has every frame of the stream.
- `SeekExact`: after an exact search no buffer that one stream leads to has a frame of before
  the time. `purge_until()` drops what is too early from the front of a buffer and looks no
  further. That is enough for the frames of one stream. It is not where two streams share
  the input of a graph: after a second `setFilterGraph()` whose input is another stream both
  have that sink, and then a late frame of one stream in front of an early one of the
  other is all that `checkNextTimeStamp()` sees. (TLC finds this with the media (stream 0,
  time 1), (stream 1, time 2), (stream 0, time 3), decoders that hold back one and none, and
  no lag; those of the run are too short.)
- `CallsReturn`: `readNextFrame()` and `seek()` come back, but for the hangs that `Hung` names.
- `ReadInOrder`, `AvailableExact`: a frame buffer gives back what was written, forward in
  order and backward in reverse, each frame with its own time, and says how much is left.
- `PacketsAccounted`: every packet of an encoder is in the file, or waits for its header,
  once and in order, up to the limit of its output: the counts that `write_packet()` and
  `do_video_out()` keep for audio and video in different places.
- `FramesAccounted`: what a decoder got is out of each output of each graph, or in one of
  the five places on the way. Only a graph that is built again loses frames. What a decoder
  still holds when its file starts over is lost as well (see the findings), and does not
  count as given to it.
- `Complete`: a transcoder that nothing stops has written everything when it ends, what
  decoders, filters and encoders held back included.
- `DeviceFits`: a decoder that takes a hardware format has a device of the right type,
  although it may come by one in five ways; names of devices are unique.
- `EncoderFormat`: an encoder gets one format, however often its graph is rebuilt.
- `Ends`: the loop of `transcode()` ends, if no decoder holds frames back.

Every property has a mutant: an operator next to the one it mutates, with a
comment that says what bug it is.

## 4. Proofs

`AVFrameQueueProofs` proves, for every set of frames and every set of capacities,
with the assumptions `NullAssumption`, `ThreadAssumption` and `CapacityAssumption`:
`TypeOK`, `Contiguous`, `NeverAlreadyPopulated`, `NoLostWakeup`, `PeekedFrameStays`
and `FifoSpec`, that is, all that the run `queue` checks except the liveness
property.

The inductive invariant is
`IInv == TypeOK /\ Contiguous /\ CallsOK /\ PeeksOK /\ AsleepOK`:

- `Contiguous` is not inductive without the type invariant, nor the other way
  round: a position stays inside the ring because the ring has the shape that
  `Contiguous` says.
- `CallsOK`: the source waits only in a push call and the sink only in a pop call,
  so that what a resumed thread does is one of its own methods.
- `PeeksOK`: who holds a peeked frame, in which state of the queue. This carries
  `NeverAlreadyPopulated` and `PeekedFrameStays`.
- `AsleepOK`: a sleeping thread's predicate is false. `notify_one` keeps it true
  because each condition variable has at most one waiter; that is why the proof
  needs `CallsOK` as well.

`FrameQueueProofs` has the lemmas underneath: each update of a queue keeps the
ring well formed (`ExpandOK`, `FillOK`, `PopOK`, `RetractOK`, `ClearOK`), and does to
`Contents` what the FIFO does (`PushSpec`, `ContentsPop`, `ContentsRetract`,
`ContentsExpand`, `ContentsEmpty`); the second half of the module puts these together per
method (`Appends`, `Keeps`, `Takes`, `TakesBack`, `Empties`), which is what the double buffer
needs. The refinement theorem `ImplementsFifo` takes each
action of `Next` to `Put`, `Take`, `TakeBack`, `Reset` or a stutter with these lemmas.

`ReaderThreadProofs` proves, for every `Room`, `Delay`, `MaxSeeks` and `MaxStarts`
(`BoundsAssumption`): `TypeOK`, `WorkerAtRest`, `NothingStale`, `NobodyForgotten` and the
action property `SeekRestartsUnlessIdle`. The invariant is
`IInv == TypeOK /\ TaskInv /\ RestInv /\ WaitInv /\ FrameInv`:

- `RestInv`: during the first start, PAUSED and IDLE imply that the worker is not in the
  middle of a packet, and what `pause()` has seen stays so until `resume()`. `WorkerAtRest`
  alone is not inductive: it says nothing about the moment before `pause()` returns.
- `FrameInv`: frames on their way (`todo`) are as fresh as the buffer's. Together with
  `RestInv` there are none when the position changes.
- `WaitInv`: adds to `NobodyForgotten` that the worker cannot leave INIT unnoticed, nor
  become IDLE while a user waits in `pause()`: that one is subtle, because IDLE is set
  without a notification.
- `TaskInv`: which call the user is in.

`OnlyHeldBack` needs an invariant of its own, `HeldInv`, on top of `IInv`: taken one behind
the other, the buffer, the frames on their way and those in the decoder are in the order
in which they were read, and all but the first `Delay` of what was decoded since the
last seek was read since then. A seek makes what the decoder holds the only old frames,
and these are at most `Delay`.

`AVFrameDoubleBufferProofs` proves, for every set of frames, every set of capacities and
every set of methods that are called: `TypeOK`, `Exclusive` and `FifoUntilOvertaken`. The
invariant is `IInv == Typed /\ CallsOK /\ (~overtaken => QueuesOK /\ PlacesOK)`:

- `PlacesOK` holds the argument. A thread goes inside a queue only if no swap is due, and
  none becomes due before it comes out: only the thread that is inside the receiver fills
  it, and only the one inside the sender empties it. Whoever decides on a swap finds the
  receiver full (or its end of file in sight) and the sender empty; from then on the
  other thread can neither change that nor go inside, or else it decides as well, which is
  `overtaken`.
- `QueuesOK`: both queues are well-formed rings of one capacity; an end of file in the
  sender means that there is nothing behind it in the receiver, and nobody pushes after it.
- Once a swap was overtaken the invariant claims nothing but types, as the properties do.

Every action is then a step of the stream: it keeps it, pushes, pops, takes back, clears
or swaps full for empty (`StreamStep`).

`NobodyWaitsForBoth` proves `NoMutualWait`, overtaken swaps included, for every set of
methods without `tryToPush`, `tryToPop` and `clearSndr` (`ReaderMT` calls none of them).
These three change a queue and run no swapper, and a due swap that nobody sees to
does leave both threads waiting: TLC finds the behaviour as soon as one of them is added
to the run `double_buffer_reader`. Two threads that wait, neither of them ready, have a
full receiver and an empty sender between them. `SwapComes` says that whenever this is so
and the buffer is not killed, one of the two is on its way to a swapper or in one, and so
does not wait. `clrEof()` may empty the sender, too; `EofLast` is why that is harmless:
while there is an end of file in the sender, there is room in the receiver, even after
two swaps have collided, because the writer pushes nothing after an end of file.

`FrameBufferProofs` proves, for all sets of buffers, frames and sizes, that the pointers
stay in their blocks (`TypeOK`), `ReadInOrder` and `AvailableExact`. The invariant `BufferOK`
says of one buffer what its blocks hold between the pointers, in terms of what was
written and read; `swap()` exchanges two such buffers, and all other actions change one.

`ReaderProofs` proves of `Reader`, with `InputFormat`, `FilterGraph` and `FrameQueue` under
it: `TypeOK`, `NothingLost`, `EofHonest` and `SeekExact`. They hold for every media, every finite
set of streams and of graph outputs, every set of buffer sizes and every delay of the
decoders and of the graph. The assumptions are about constants only: streams are numbers and
finitely many (`StreamAssumption`), the media are a sequence of packets and a frame is the
number of its packet (`MediaAssumption`), a decoder delivers the frames of its stream in the
order of their times (`TimesAssumption`, for `SeekExact` only: FFmpeg's decoders reorder what
is stored out of order, and `purge_until()` relies on it), delays and sizes are natural numbers
(`DelayAssumption`, `LagAssumption`, `RoomsAssumption`), outputs are finitely many
(`SinkAssumption`), and streams, outputs and the graph's input have different buffers
(`BufferAssumption`).

The invariant `ReaderInv` has these parts:

- `Typed`, `Wired`: an active stream has a sink that exists; a graph that was parsed has
  its input buffer and its source; sinks are among the outputs and have buffers; rings are
  rings. Nothing is said of lost frames without this: a frame pushed into a buffer that
  no stream leads to would be in nobody's account.
- `Calling`: which call is in progress. Before activation the graph is empty.
- `Live`: while nothing hangs or threw, buffers of open streams have not ended, and one
  that has ended belongs to a stream whose decoder is drained and for which there are no
  packets left (`Done`). `Noted` is the exception: a seek to the end of the media puts the
  end of file in each buffer a second time.
- `Balanced`: the heart. `NothingLost` speaks of what is due and what the client got;
  neither changes when a packet is decoded. `Account` follows the frames: what was given
  away (or fed to the graph), what is in the buffer, what the decoder holds, and the
  frames of the rest of the media, one behind the other, are what is due. For each output
  of the graph: what was given away, what is in its buffer and what is inside the graph
  are what was fed. Every step moves frames from one of these places to the next.
- `Honest`: the buffers that were said to be at their end are empty, and their streams done.

`SeekExact` speaks of buffers after a search, and what makes it true is spread over the whole
search and all reads that follow it. Two more invariants carry it:

- `Abandoned`: the buffers of outputs that no graph feeds any more are empty, so that
  nothing old can be found in them.
- `Exacting`: after an exact search what is due from a stream is in the order of its times
  (`Rises`), which comes from the order of the media through `RestFrom`; and from the place
  up to which an output has given its frames away, all that is due is late enough
  (`LateFrom`). It speaks of what is due, which reading does not change, and not of the
  buffers, which every read changes: that reading is harmless is then `NothingLost`. The purge
  establishes it: `purge_until()` ends once the oldest frame of each buffer is late enough,
  and those behind it are later (`Rises`); or at the end of the file, where an output without
  frames has nothing left to come. What all calls but a search leave alone is `Steady`.

Reading a packet, draining the decoders at the end of the media, and running the graph
loop over sequences: `FoldLeft` over packets' frames, streams and outputs. A recursive
function says nothing until it is known to exist, and that is induction. `Folding` does it
with the least element of a set of natural numbers: the least length at which a claim about
the fold fails has a predecessor at which it holds. The module has its operator as a
CONSTANT, and is instantiated once per fold of the model (`Pushes`, `Sifts`, `Tells`,
`Sinks`). That a set of numbers has a least element is its hypothesis `WellOrdered`, which
the modules that use it prove once (`LeastNat`, from `WFMin` of the library, which takes a
relation, not an operator, so it can be used), and not once per instance. `RestFrom`
in `InputFormat` is shown to exist in the same way, from the last packet down.

`TranscodeProofs` proves of `Transcode`, with the devices, the filters and the output side
under it: `TypeOK`, `PacketsAccounted`, `FramesAccounted`, `EncoderFormat` and `DeviceFits`,
for every number of files, streams, graphs and outputs, every media, every limit and every
option that the model has. What is assumed of the constants:

- `OutputAssumption`: an output stream is in one of the files, an encoder's delay is a
  natural number, and every output file has a stream (formats that need none,
  `AVFMT_NOSTREAMS`, get their header in another place and are left out).
- `FilterAssumption`: a graph has inputs, each from another stream (the model knows the
  queue of an input by its stream; a graph that takes one stream twice is left out), an
  output stream a graph; encoders take a list of samples; a shape that is turned is a
  shape; "no format" is not a format.
- `MediaAssumption`, `StreamAssumption`: files are not empty; a stream is in one file, whose
  packets are of its own streams (`ist->file_index`) and are decoded to formats; the samples
  of a decoder's configurations are samples; graphs have inputs that are streams.
- `OptionsAssumption`: the limits are natural numbers, the samples asked for are samples or
  none, the devices are a list, and there are hardware options for every stream.

The invariant is `IInv == Alive(Now, phase) /\ (how = "ok" => Told(Now, phase))`. The heart of
`Alive` is `Good`, what holds between any two calls of the program and not only between two
rounds of its loop:

- `Sound`: what the records of streams and files are.
- `Packets`: of each output, what its encoder holds is the last that it got (`Holding`);
  what it has let go, up to the limit, is what is in the file and in the muxing queue, one
  behind the other, and has been counted once (`Accounted`), as long as nothing has gone
  wrong with the file (`Whole`); a video encoder has got as many frames as are counted
  (`CountedVideo`); nothing waits for a header that is there (`NoneWaits`).
  `PacketsAccounted` alone is not inductive: it does not tie the count of frames to the
  packets, and says nothing of what the encoder holds.
- `Headers`: a file has its header once all its streams are initialized.
- `GraphsFit`: frames and formats in a graph are frames and formats; a graph that is
  built knows the formats of all its inputs, and no frame waits for it (`Ready`); what a
  sink gives is a format that its encoder takes (`SinkFits`), or nothing yet.
- `EncodersFit`: an encoder that is open was opened for the format that its sink has *now*
  (`EncoderFits`). `EncoderFormat` only speaks of the formats that came; that a graph which is
  built again gives the same format as before is what keeps it true (`ConfigureIs`).
- `InputsFit`, and for the devices `DecsFit`: names of devices differ (`NamesDiffer`). That
  `DefaultName` finds a name that is free is the pigeonhole principle: a list of n devices
  does not use up n + 1 numbers.
- `Equipped`: once the decoders are open, one that takes the formats of its configurations
  has a device of the type in its options, whichever of the five ways it went.

Every operator of the model has a lemma that says what it does to these: `WritePacket`,
`Unqueue`, `Encode`, `DoVideoOut`, `FlushEncoder` and the finishing of streams move packets
(`Moved`, `Quiet`); `InitOutput`, `Reap`, `Configure`, `SendFrame`, `SendEof` change graphs and
encoders (`Reaps`, `Follows`); reading, decoding, draining and starting over change the
inputs (`Goes`). An action of the loop is one of these after another. The
one state that is not good is the one in which a graph could not be built (`how = "error"`):
`transcode_step()` ends the loop with it, everybody else the program (`AtGraphIs`, `FatalIs`).
Seventeen loops of the program are folds here, and each is an instance of `Folding`.

`FramesAccounted` needs the rest, `Told`, which is about the frames and is true until
something goes wrong (after a fatal error frames may be anywhere):

- `Account`: for each input and output of a graph, what the decoder got is what is on the
  `Line` (taken out, in the sink, in the graph, pending, in the queue of the input) and then
  what the decoder holds, of *every* set of frames that are wanted and not lost. It has to
  be every set: a graph that is built again loses frames, and of those that are left the
  account must still be right.
- `HeldFit`: what a decoder holds is the last that it got, so that letting go its first frame
  and appending it to the queues keeps the order.
- `FramesFit`: frames wait in the queue of their own input, and a graph that is not built has
  frames only there. That is why building a graph the first time loses nothing.
- `Expects`: when all packets of each input have one format, what a graph knows of the
  format of an input is that of all frames to come. So such a graph is never built again and
  `lost` stays empty. It also says that the decoder of an input that has ended holds nothing.
- `Finished`: an input has ended in a graph only if its file has; no frame comes after the
  end, which would build the graph again. This is true while the loop runs, and what is
  drained after it ends each input once, after the last frame of its decoder (`Tells`).

`Passes` and `Gains` say of a step in one graph that nothing, or one frame behind all others,
has come to its line; `Run`, `Push`, `TakenOut`, `Configure` and `SendFrame` each have one of
the two, and `Moves` says it of the operators that change the whole program. What is counted
is what `Only` keeps of a sequence. That it goes through concatenation (`OnlyConcat`), and
depends only on the elements (`OnlyAgrees`), is induction over the sequence, done with the
least element of a set of numbers again, and `Only` is a fold for that purpose: of `SelectSeq`,
which is recursive, the prover knows nothing.

Only model-checked: liveness (`PushReturns`, `CallsReturn`, `Ends` and those of
`ReaderThread`: out of the prover's reach), and `Complete` of `Transcode`. It rests on
`FramesAccounted` and on what the end of the program leaves in each of the places: that all
files are at their end and all graphs, encoders and queues empty, over the loops that flush
them, and that each packet was read as often as its file is looped.

## 5. Findings

1. `AVFrameQueue::hasEof()` returns the eof flag of the slot to be *written* next
   (`ffmpegAVFrameQueue.h:311`), where its comment says "true if buffer contains EOF".
   The double buffer's swappers use it to hand over a receiver that ended before it
   was full, so that end of file does not get to the reader.
2. `push_swapper()` and `pop_swapper()` test whether a swap is due, release the mutex
   and call `swap()`, which does not test again (`ffmpegAVFrameDoubleBuffer.h:403-407`,
   `526-529`). The run's behaviour: the writer fills the receiver, the reader empties
   the sender, both decide to swap, the second swap clears what the first one
   handed to the reader.

3. `ThreadBase::pause()` may wait for ever (`ThreadBase.h:109`). Either `kill()`, which
   notifies without the buffer's mutex, falls between the worker's look at a full
   buffer and its sleep; or the worker was resumed a moment ago: it waits for ACTIVE,
   finds PAUSE_RQ, and goes back to sleep (`ffmpegReaderMT.h:127-128`).
4. `read_next_packet()` may wait for ever (`ffmpegReaderMT.h:162`): it waits without a
   predicate for a notification that the worker gives only at the end of a packet. The
   worker may block in the buffer before that, or may have notified for the last time
   before the user took the lock.
5. `ThreadBase::start()` does not reset `status` (`ThreadBase.h:70`). When a reader is
   closed and activated again, `waitTillInitialized()` does not wait, and the first seek
   takes the reader for paused while its new worker begins to read.

Noticed while modelling, without a run of its own, because a hang or loss of this kind is
already an exception that a property names, or because no state of the model tells it
apart:

- `ffmpegReader.h:326`: the comment says that reading on is guaranteed to push something
  to a buffer; a decoder that holds frames back pushes nothing.
- `ffmpegReader.h:798`: `purge_until()` expects all buffers to be empty, but the
  `atEndOfFile()` of `seek()` has already read a packet.
- `FilterGraph.cpp:776` with `FilterSinks.cpp:56`: a sink at its end counts as having given
  something, so that the loop around it does not end (`spin`).
- `FilterGraph.cpp:491` uses `ins` where there may be none, and the `else` at 533 belongs to
  `if (outs)`, where it is needed for one output.
- `FilterGraph.cpp`: a graph that is flushed by `seek()` after the end of file keeps the eof
  flag of its source, which then does not read its buffer again.
- `ffmpegAVFrameQueue.h:242`: a timed push on a killed queue returns true.
- `ffmpegAVFrameDoubleBuffer.h:510`: a timed pop ignores `killnow` while it waits.
- `src/src/sandbox`: `process_input_packet()` takes one frame out of a decoder per packet,
  where its comments (lines 442, 538-545 and 552 of `transcode_inputstream.cpp`) speak of all of them,
  so a file that is looped loses what its decoder holds beyond one, and an output whose
  decoder holds frames back is never told of its end (`Ends`).
- `got_output` is never set, so `transcode_step()` reads input after input for a graph that
  waits for one format only, and with all inputs done the loop goes on without doing anything.
- `transcode_filter.cpp:1242` speaks of limiting the formats when a graph is rebuilt, but
  `choose_pix_fmts()` does not look at the format the sink had; `-keep_pix_fmt` of one output turns
  conversion off for the whole graph; the scaler inserted on a rebuild makes a graph of
  hardware frames fail; what `configure_output_filter()` returns is ignored (line 1236).

- `ffmpegReader.h:582-594`: `closeFile()` clears `filter_inbufs` only if there is a graph. A
  `setFilterGraph()` that threw leaves the graph unset but the buffer behind, and what a
  stream pushed to it goes to the next graph (the model's `SetFilterGraph` keeps it, and
  `due` counts it).

Two more things the model shows have no sentence in the repository that they
contradict: a worker that went IDLE is not restarted by a seek, and a seek does not
reset the decoders of a file that has not ended. They are the exceptions in
`SeekRestartsUnlessIdle` and `OnlyHeldBack`.

## 6. What is not modelled

- `AVFrameStack`: only `ReaderReverse` uses it, and it does not work: `peekToPush()` and
  `push()` disagree about the slot, `pop()` moves the top of the stack above what it
  removed, and `eof()` locks a mutex its caller holds.
- `ReaderReverse`, and the swap callbacks and slaves (`follow`, `lead`) of the double buffer,
  which only it and a reader with a primary buffer use.
- In `AVFrameQueue`: copying and moving a queue, `size()`, and return values of timed and try
  methods, except where the next call depends on them.
- In `ReaderThread`: the filter graph, exceptions in the worker, the exact search at the
  end of a seek, destruction.
- In `Reader`: a primary buffer and post-ops other than the pass-through; stream
  specifiers; `seekPts`; read errors other than the end of file.
- In `FilterGraph`: several inputs, prefilters, null sources and sinks, the parsing of the
  description.
- In `FrameBuffer`: copying pixels component by component, copying and moving a buffer.
- In `Transcode`: subtitles, copied streams, bitstream filters, timestamps, trims (`-t`,
  `-ss`) and padded audio, option parsing, `-reinit_filter 0`, `-stream_loop -1`, `-xerror`,
  errors in setting up an encoder, freeing devices at exit. Time is counted in frames, and
  `choose_output()` compares the numbers of packets written instead of `cur_dts`. The error
  for an input without a format at its end (`transcode_filter.cpp:1408`) is out of reach,
  because every stream declares one (`StreamAssumption`).
- Component sinks and sources (they do not compile: a header is missing), pixel and
  sample conversions, media parameters, dumping, exception texts and the output
  streams (not built): data, text, or nothing that runs.

## 7. Plan

1. Double buffer: slaves and swap callbacks as actions, and with them `ReaderReverse`,
   composed from `ReaderThread` and the double buffer.
2. `AVFrameStack`, if it is repaired: like `FrameQueue`, with an abstract LIFO.
3. Proofs: `Complete` of `Transcode`, from `FramesAccounted`, `PacketsAccounted` and what is
   empty at the end.
4. `Transcode`: copied streams and subtitles, once the code for them is no longer commented
   out.
