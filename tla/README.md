# A verification model of vvdec

vvdec decodes VVC (H.266) video with a pool of threads.  Nearly everything that is hard to test
in it is in *when* something happens: CTU tasks of one picture that look at each other's progress,
pictures that are reconstructed while they are still parsed and while others refer to them, a task
queue without a lock, buffers that are reused, errors that must reach everybody who waits.  These
modules model that part of the decoder, from the task queue up to the API object; TLC checks it on
small pictures, task graphs and streams, and TLAPS proves results for every size.

Paths below are relative to `src/source/Lib` unless they start with `src/`.

## 1. The system

| Part | State | Operations | Talks to |
|---|---|---|---|
| Thread pool (`Utilities/ThreadPool.*`) | chunked queue of slots (FREE, PREPARING, WAITING, RUNNING), exit flag, idle mutex, pool pause | `addBarrierTask`, `threadProc`, `findNextTask`, `processTask`, `shutdown`; without threads `bypassTaskQueue`, `processTasksOnMainThread` | calls task functions and ready checks; reads barriers; sets done barriers and counters |
| `Barrier`, `BlockingBarrier`, `WaitCounter` (same files) | lock state, exception; count and done barrier | `unlock`, `isBlocked`, `setException`; `++`, `decrement_nothrow`, `wait_nothrow` | everybody |
| CTU wavefront (`DecLibRecon::ctuTask`) | `ctuStates`, one atomic stage per task | 15 stages from motion derivation to ALF, each guarded by neighbours' stages | sample buffers of the picture and of SAO/ALF |
| `DecLibRecon` (one per picture in flight) | the current picture, task parameters, filter buffers | `decompressPicture`, `waitForPrevDecompressedPic`, `finishPicTask` | adds tasks to the pool, waits for the picture |
| `DecLibParser`, `DecSlice` | picture being parsed, parse frame list, random-access state | NAL unit dispatch, slice headers, the parse task, lost pictures | opens `ctuParsedBarrier`, fills the DPB |
| `PicListManager` | the decoded picture buffer | new buffer, reuse, next output picture | `DecLib`, `DecLibParser` |
| `DecLib` | the `DecLibRecon` objects in rotation, error handling | `decode`, `flushPic`, `reconPicture`, `finishPicture`, `sanitizeBrokenPicture` | all of the above |
| `Picture` | progress, error flag, four counters, barriers | `resetForUse`, `waitForAllTasks` | shared by parser, pool, DPB and output |
| `ParameterSetManager` | VPS, SPS, PPS, APS with changed flags | store, activate | parser; pictures share its objects, slices point to them |
| `VVDecImpl`, C API | API state, list of frames | `init`, `decode`, `flush`, `unref`, `reset` | `DecLib` |

What makes each part correct:

* pool: a slot has one owner; a task runs after its barriers, once; no wake-up is lost; the counter
  says exactly when a set of tasks is gone; an error reaches every dependent task; shutdown ends;
* wavefront: no kernel reads samples that are not there yet, or that another kernel has already
  replaced; the guards never block each other for good; an error ends all tasks;
* picture reconstruction: only parsed lines are reconstructed; the finish task is last; when the
  object is released no task of the picture is left and every error is known; it is always released;
* DPB and `DecLib`: a picture is reused only when nobody works on it, refers to it, shows it or has
  still to output it; a picture is started after those it refers to; pictures come out once and in
  display order; every error is reported once; every call returns;
* parser: a slice goes to its own picture, a picture with a hole is never taken for complete, a slice
  is decoded with the parameter sets its header was read with;
* API: frames come out once and in order, whatever calls are mixed; a frame's picture stays locked
  until the frame is given back; flush ends, and at its EOF every frame was handed out, and only
  pictures behind one that an exception has left unfinished are left.

The hard behaviours are interleavings (workers on one queue and on neighbouring CTUs), errors half
way through an operation, lost slices, reuse of objects, and the two execution paths of the pool
without threads.  `PROJECT.json` lists them as hazards with their lines.

## 2. The modules

```
TaskSchedule             which tasks a picture has, and in which order they are added
  TaskSchedule_proofs    TLAPS proofs
CtuWavefront             the tasks of one picture while they decode it
  MCCtuWavefront         instances for TLC
  DecLibRecon            EXTENDS CtuWavefront: the picture around the tasks
    MCDecLibRecon        instances for TLC
    DecLibRecon_proofs   TLAPS proofs, of the wavefront and of the picture around it
PictureRecon             abstract: what a DecLibRecon object promises to DecLib
PicListManager           the decoded picture buffer, as operators
  DecLib                 EXTENDS PicListManager: parser, DecLibRecon objects, DPB, tasks, application
    MCDecLib             streams for TLC
    DecLib_proofs        TLAPS proofs
PictureParse             pictures of several slices in the parser, with lost and broken NAL units
  MCPictureParse         layouts of slices and tiles for TLC
  PictureParse_proofs    TLAPS proofs
ParameterSets            parameter sets that are replaced while pictures refer to them
                                                                     (ParameterSets_proofs)
OutputOrder              abstract: what a player expects of the pictures that come out
VVDecImpl                the API object                              (VVDecImpl_proofs)
ThreadPool               the pool with workers                       (MCThreadPool, ThreadPool_proofs)
SingleThreadPool         the pool without workers                    (MCSingleThreadPool,
                                                                      SingleThreadPool_proofs)
```

The levels rest on each other.  `CtuWavefront` and `DecLibRecon` see the pool as what `ThreadPool`
shows it to be: a queued task is called when its barriers are open, by one worker at a time, at most
`NumThreads` at once.  `DecLib` sees a reconstruction as what `PictureRecon` says of it: it begins,
it has one outcome, and after its release nothing of it is left.  `VVDecImpl` sees of `DecLib` that
it holds pictures, gives out at most one per NAL unit and per `flushPic`, and may throw.

**CtuWavefront.**  `ctuState` is `common.ctuStates`, with the numbers of `enum TaskType`.  `ctu` is
the item (CTU) the loop of the current stage works on, so that a step between the begin and the end
of a kernel is an interleaving point.  `pool` is the task's place in the pool, `exc` the exception
of `m_ctuTaskCounter`, `refExt` the barrier of the border extension of the reference pictures.
`Ready` collects the guards of the case labels; `Call`, `FinishItem`, `EnterStage`, `Reschedule`,
`Throw` and `Return` are the parts of a call of `ctuTask`.  A guard reads several atomics one after
the other; they only grow and are compared with "at least", so reading them in one step loses
nothing.  SAO is taken as enabled (without it the stages do nothing and the guards are the same).

**DecLibRecon.**  `main` is where the thread of `DecLib::reconPicture` is: adding tasks, away
(`decoding`), waiting, cleaning up, released.  `parsed`, `received` and `parseTask` are the parser's
side; `finishPic`, `reconDone`, `picError`, `progress` are the picture's.  One step of the wavefront
is one step here.  `PictureRecon` is the contract: the picture's data is touched by tasks only
between the call and the release, its outcome is fixed once, and the release comes after both.

**PicListManager, DecLib.**  The buffer `dpb` is a record with the fields of the class; its methods
(`GetNewPicBuffer`, `MarkUnusedPicturesReusable`, `GetNextOutputPic`, ...) are operators on it.  A
`Picture` is a record with the flags of the class, the state of its two barriers, and where its two
tasks are.  `main` is where the main thread is inside `decode` or `flushPic`; each wait of the code
(`reconDone.wait`, `waitForAllTasks`) is the guard of an action, so that tasks run in between.  One
action per operation: for `DecLibParser::parse` of an access unit `ParseEOS`, `ParseSkipped` and
`ParseSliceHead`, which decides about random access; then, at `refs`, `GenerateRef` for every lost
reference picture (the loop around `prepareUnavailablePicture`) or `ParseMissingRef`, and at last
`Parse` or `ParseBroken`, with the marking of the reference pictures and the new buffer;
`Choose...` for `getNextDecodablePicture` and what decode and flush do with its result; `Sanitize`,
`WaitForPrev`, `DecompressPicture`, `FinishDone`, `Block`, and the output at the end.  `stream` is
what the slice headers say: type, POC, the POCs in the reference lists, those that are active and all
of them.  `DecLibAssumption` is what the syntax itself guarantees of it: intra pictures have no active
entries, IDR pictures no lists, the output flag is read only for pictures others may refer to
(`HLSyntaxReader.cpp:2979`), and POCs are smaller than the marks for "any" and "none" in
`m_pocRandomAccess`.  `app` is the application, which decodes, may flush in the middle and go on, and releases pictures when it likes.  `check`
records a CHECK that must not fail.

**PictureParse.**  The same parser one level below: `slices` are the `Slice` objects of every
picture with the state of their parse tasks, `ctuData` is what `CtuData::slice` says of each CTU,
`ctuParsed` and `parseDone` are the barriers.  Every slice NAL unit is one action: it is lost
(`SliceLost`), its header throws before anything is counted (`HeaderUnreadable`), after the segment
is counted (`HeaderRejected`, `HeaderFails`), after the slice is allocated (`SliceWithoutTask`), or it
becomes a task (`AddSlice`).  A parse task starts behind the barrier of the slice before, works CTU by
CTU, and throws in steps, since the main thread looks at `pic.error`, `parseDone` and the counter in
between.  The main thread takes pictures from the parse list (`Choose`), waits and cleans up
(`Sanitize`); a good picture leaves the model.  Two unlocks at the end of the last CTU are one step.
Reference pictures are left out of `getNextDecodablePicture`: with them a picture is at most chosen
later.  The counter of `m_divTasksCounter` is the set of tasks that have not left the pool, its
exception is `pic.failed`.

**ParameterSets.**  `object` is the sequence of all parameter sets ever stored, so that a pointer is
a number and "deleted" means that no shared pointer (`Owned`) holds it.  `Store` is
`ParameterSetMap::storePS`, `FirstSlice` and `NextSlice` are both functions called
`xActivateParameterSets`, the manager's and the parser's.  Each slice remembers what the manager had
when it came (`sent`), which is what its header was parsed with.

**VVDecImpl.**  `state` is `m_eState`, `frameList`, `frameNext`, `seqNumber`, `seqNumOutput` the
members behind the frames, an iterator being the sequence number of its frame.  A call is a step
per NAL unit or per `flushPic`, so that an exception can come between any two of them; `reset` is one step
inside the call that makes it.  `locked` is `lockedByApplication` of `DecLib`'s pictures.  `stuck`
says that an exception may have left a picture in `DecLib` that is never finished: from then on, until
`uninit`, `flushPic` may give no picture though some are left (`NothingComes`).  That is more than
`DecLib` does, where it is so only while such a picture is before them in the list
(`WithheldOnlyBehindStuck` of `DecLib`), which the API object cannot see.  `BadPictures` are those for
which `xAddPicture` returns an error or throws (`AddThrows`), after `DecLib` has given them out.

**ThreadPool.**  A step is one access to an atomic or one critical section.  `worker` holds a
thread's position in `threadProc`, the kind of search it is in (first, again, in the idle loop, in
the predicate of the pause), `nextTaskIt` and the slot it looks at; `pause` is `PoolPause`; a thread
in `lock` is counted in `m_waitingForLockThreads`.  The compare-exchange of `findNextTask` and the
ready check are one step, giving the slot back is another: in between the task is hidden from the
other workers.  A comparison with the busy-wait times can go either way.

**SingleThreadPool.**  Only one thread; the module is about the bookkeeping of direct execution and
queue, for all small dependency graphs, with the picture object (and its counter) used repeatedly.

**TaskSchedule.**  `NumColPerTask`, `NumTasksPerLine` and the zig-zag scan, for all picture sizes and
numbers of threads within the bounds.

## 3. The runs

Bounds are chosen so that every neighbour relation and every guard occurs.

| Run | Instance | Shows |
|---|---|---|
| `wavefront` | 2 lines x 2 tasks (2+1 CTUs), 2 workers, SAO and ALF, any kernel or reference may throw | the ordering properties with the values published inside a stage; the guards never block each other |
| `task_schedule` | pictures to 7x3 CTUs, 0 to 4 threads | partition of the lines, scan order |
| `recon` | 2 x 2 tasks, parsed while decoded; kernels, reference pictures and parser may throw, slices may be missing | refinement of `PictureRecon`, release, error reporting, all tasks end when one throws |
| `pool` | 2 workers, 3 tasks (throwing, barrier, polling), chunks of 2 slots, spurious wake-ups, shutdown at any time | exclusive slots, exact counter, barriers, propagation of errors, no lost wake-up, all threads joined |
| `single_thread` | all 1372 graphs of 4 tasks and the finish task; 2 good pictures, or 1 with errors | counter, order, completion |
| `declib` | 6 streams of 5 to 7 access units, 2 DecLibRecon objects, parse delay 1, one error, one flush in the middle, at most 7 buffers | safe reuse, the CHECKs about it, display order (refines `OutputOrder`), errors reported once, calls return |
| `parse` | 2 pictures of 2x2 CTUs in 2 layouts, parse delay 1, 2 faults: lost slices, headers that fail early or late, broken data | checks for neighbours, no holes, line barriers, every error reported, barriers settle, calls return |
| `param_sets` | 2 pictures of 2 slices, 6 stored sets, one ALF id, 2 contents; between slices a PPS and an LMCS APS, each at most once | live pointers, no slice with an outdated PPS or LMCS APS |
| `api` | 6 pictures (2 copied, 1 that is refused or throws in `xAddPicture`), 2 NAL units in an access unit, 2 exceptions of DecLib | frames in order, what EOF means, locks, flush ends |

Nearly every guard looks one task to the left and right and one line up and down, which two lines of
two tasks have on all sides between them.  INTER also looks two tasks to the left, and ALF at all
eight neighbours: for them the ordering properties rest on their proofs for every size (section 5).
That the guards do not block each other there was checked with the same module, 2 x 3 tasks with
exceptions (1.7 million states) and 3 x 3 of an intra picture without; these take too long to be runs
that are repeated.  The queue grows in the pool run, where main finds all slots taken.

The layouts of `parse` are raster slices, one of which goes over the end of a line, and slices in
tile columns: in them a slice has a neighbour in the slice before it and in an earlier one.  Two
faults are needed for one to hide the other.  An ALF APS between slices is not in `param_sets`: a
conforming stream has none there (`DecLibParser.cpp:389`), the check that should refuse it does not
(below), and `PointersAlive` depends on it, since the picture then shares the new object only.  One
repetition of the PPS between slices is the bound there for the same reason.

The streams of `declib` are: a long one with two levels of reordering, in which buffers are reused;
one with an IDR picture in the middle; one in which a picture is lost that a later one refers to,
with and without `ERR_HANDLING_TRY_CONTINUE`; one in which the lost picture is only kept in the
lists, so that the slice header fails; and one that begins before its random access point, has a
leading picture and an end of sequence.  The buffer is
as small as the streams allow (`MaxDecPicBuffering` 3), `MAX_OUT_OF_ORDER_PICS` is 1 instead of 3,
so that a picture passed over reaches the limit; seven `Picture`
objects are enough for these runs (an eighth would be an error of the run).  `ParseFrameDelay` 1 keeps two pictures in the parse list, the least with which one can
overtake another.

Most modules end (the picture is decoded, the pool is joined, the stream is over), so deadlock
checking is off there and termination is stated as a liveness property instead; `api` checks it.

Three runs expect a violation; each shows a disagreement of the code with its own comments or
assertions:

* `recon_parse_fails`: the parse task throws while tasks are being added; the clean-up waits for a
  task whose neighbour was never added (`DecLibRecon.cpp:617`, `:724`).
* `single_thread_stuck`: a task throws when it is run directly, and the next one finds the exception
  in the counter; its slot stays PREPARING, `processTasksOnMainThread` returns
  false for ever and the loop at `DecLibParser.cpp:1010` spins.  This needs a decoder that goes on
  after the error (tuning in, or `ERR_HANDLING_TRY_CONTINUE`).
* `declib_recon_fails`: the error path of `finishPicture` calls `fillGrey`, whose last statement
  opens `reconDone` and rethrows the exception in it; the lines after it, which finish the picture
  and clear the exception "so we can use it as reference picture", are not reached
  (`DecLib.cpp:359`, `:372`).  The picture stays `reconstructed` and blocks the output of all
  pictures behind it, also of later sequences, until the decoder is closed.

What the models also showed (where constants and a property are named, TLC finds it with them):

* *Lost slice.*  If the last slice of a picture is missing, the tasks of its lines wait for barriers
  nobody opens, and `cleanupOnException` waits for the tasks (`DecLibRecon.cpp:700`, action
  `SliceMissing`).  `ReleasedWhenParsed` therefore assumes that the slices arrive.
* *Negative count.*  Without workers a task that throws directly is counted down without having been
  counted up (`ThreadPool.cpp:407`); `single_thread` has errors in the last picture only, and
  `QueueCounted` speaks of tasks without errors.
* *Broken slice header.*  An exception between `getNewPicBuffer` and the parse list leaves a picture
  at `init` in the DPB, never finished; pictures after it are not output (`Stuck` in
  `WithheldOnlyBehindStuck`).
* *Reference without a header.*  Such a header may fail since an entry of its lists that is not
  active was lost (`Slice.cpp:490`), which the generation of lost pictures does not look at.  The
  picture stays among the reference pictures, marked, with progress `init`.  With
  `ERR_HANDLING_TRY_CONTINUE` the next picture may refer to it, finds its POC, is parsed, and in
  `borderExtPic` the CHECK_FATAL "Slice parsing should have started, so all structures are there"
  fails (`DecLibRecon.cpp:242`): `<<Idr, Ref(8, {0}, {0, 4}), Ref(9, {8}, {8})>>` and `ChecksHold`.
  `declib` checks all the other CHECKs, and that a picture that was not begun when another refers to
  it had such a header (`BufferChecksHold`); that the CHECK needs one is proved
  (`ChecksHoldWithHeaders`).
* *Equal POCs.*  After an end of sequence a CRA picture with the POC of a picture that is still
  marked fails "duplicate POC in DPB" and stays behind in the same way.
* *Reuse of a picture nobody waits for.*  A picture that is neither a reference nor output can be
  reused as soon as it is `reconstructed`, while its DecLibRecon object still has it; `reconPicture`
  then fails with "(Reused) Picture structure is still in progress".  A header has no output flag for
  pictures that nobody refers to, they are output; only NoOutputOfPriorPics, GDR recovery and RASL
  handling, which are not modelled, could take it from them.  `ReuseSafe` and `BufferChecksHold`
  assume that it is there (`unit.isRef \/ unit.output`).
* *Output range.*  The range of pictures of which the lowest POC is output ends at IDR pictures only,
  the comment says "random access point" (`PicListManager.cpp:296`, `:314`).  After an end of
  sequence a CRA picture starts a sequence too, and its pictures are sorted among those before it.
  `KeepsOrder` is checked for streams without that.
* *Slice without a task.*  A check fails after `allocateNewSlice`; the slice stays in the picture
  without a task, the next one's task waits for its barrier, and `waitForAllTasks` for that task
  (`DecLibParser.cpp:1111`, `:996`).  `CallsReturn` of `PictureParse` names the case (`LeftBehind`).
* *Number of slices.*  The index starts anew with a header, the picture only later; when the slice
  fails in between, CHECK_FATAL "Invalid number of slices" fails with the slice after it
  (`DecLibParser.cpp:425`, `:1112`, action `TooManySlices`).
* *Two exceptions of a picture.*  `exceptionThrownOut` is set for the header of one slice; when the
  task of an earlier one fails after that, CHECK_FATAL "The exception shouldn't have been thrown out
  already" fails (`DecLib.cpp:338`, `check = "exception thrown out"` in `Sanitize`).
* *Lost first slice.*  With the end of a picture and the beginning of the next one lost, the next
  one's slices go to the first, with a warning (`DecLibParser.cpp:588`); hence `OnePicture` in
  `LineMeansLine`.
* *Exceptions seen early.*  `operator++` of `m_divTasksCounter` throws the exception of a parse task
  when the next slice is added, so that the parser sees it with threads too
  (`DecLibParser.cpp:171`, action `SliceWithoutTask`).
* *New ALF APS.*  The check asks the object the manager has by now, whose flag is never set
  (`DecLibParser.cpp:1127`; `StoredInPicture` with the ALF id).
* *Repeated PPS.*  A PPS that is repeated and then changed between two slices is not noticed, the flag
  is in the repetition (`ParameterSetManager.h:80`, `DecLibParser.cpp:1124`; `MaxInPicture = 2`,
  `DecodedAsSent`).
* *API.*  decode with an empty payload flushes and returns EOF although pictures may be left; decode
  after a flush drops the remaining pictures and takes back frames the application still holds;
  after an exception `reset` does not empty `DecLib`, so pictures of the old stream may come out in
  the new one; an exception inside `reset` is told to nobody; a picture that `xAddPicture` refuses,
  or in which it throws, stays locked.  After an exception flush may say EOF with pictures left in
  `DecLib`, since `flushPic` gives nothing while one that is never finished is before them
  (`DecLib.cpp:287`, the run `declib_recon_fails`).  The properties of `VVDecImpl` are stated so that
  they hold with that: numbers restart with a reset, `LocksMatch` and `EofIsTheEnd` name the refused
  pictures, and `EofIsTheEnd` the pictures left behind a stuck one.

The definitions marked `fault:` are not part of a specification.  Each is a plausible mistake in the
definition after it; put in its place it makes TLC report the property named in `PROJECT.json`.

## 4. Fairness

* `CtuWavefront`, `DecLibRecon`: weak fairness of the whole next-state relation.  Some enabled step
  is always taken: the workers look for ready tasks round robin and never sleep while one is ready
  (`NoLostWakeup`).  No fairness between tasks is needed, the work of a picture is finite.
* `ThreadPool`: weak fairness of the adding thread (not of `Close`, its free choice) and of every
  worker, the operating system's part of the bargain; a mutex that stays free is obtained.  Spurious
  wake-ups are possible, only finitely many of them: a condition variable that returned spuriously
  all the time could keep the mutex from the adding thread.
* `SingleThreadPool`: weak fairness of the only thread.
* `DecLib`: weak fairness of the main thread inside a call and of the tasks taken together, since
  their number is finite.  The application need not call at all.
* `PictureParse`: weak fairness of the main thread inside a call and of every parse task: they are
  never rescheduled by others, a worker finds a ready task (`NoLostWakeup`, `PoolComesToRest`), and
  its work is finite.  The stream need not go on.
* `VVDecImpl`: weak fairness of what runs inside a decode call, and of flushing while the state is
  FLUSHING: `FlushEnds` speaks of an application that repeats the flush call as the documentation of
  `vvdec_flush` asks it to.

## 5. What is proved

All safety invariants that the passing runs check are theorems, and some more, for every value of the
constants; so are the action property of the picture buffer, and that `DecLibRecon` implements
`PictureRecon`.

`DecLibRecon_proofs`, the wavefront alone: for every number of lines, tasks, CTUs in a task and workers, with or without
ALF, errors and intra pictures, from `SizeAssumption` alone:

* `TypeCorrect`: `Spec => []TypeOK`.
* `MotionSourcesComplete`: `Spec => []MotionSources`.  Motion is derived from complete motion.
* `IntraSourcesAlwaysIntact`: `Spec => []IntraSourcesIntact`.  While a CTU is intra predicted, the
  CTUs to the left and above are reconstructed and not yet taken by the inverse reshaper.
* `DeblockInOrder`: `Spec => []DeblockOrder`.
* `SaoCopyAlwaysIntact`: `Spec => []SaoCopyIntact`.
* `AlfSourcesAlwaysFinal`: `Spec => []AlfSourcesFinal`.

These properties are not inductive: they speak of a task that is inside a stage, while what keeps
them true are the guards seen when the task, or its neighbour, entered the stage.  The invariant
`IndInv` adds, for every task, how its stage, its loop item and its place in the pool go together
(`TaskInv`), that the guard of every stage the task has entered is still true (`GuardInv`), and that
the states published inside a loop tell how far the loop is (`LoopInv`).  `StepShape` reduces the
actions to what they do to the progress of one task; since states only grow (`Growth`) the guards
are stable (`GuardsStable`).  The step from `IndInv` to each property is arithmetic on the stages of
neighbouring tasks (`Seen`, `UpperRight`, `AroundIntra`, `CopiedBelow`).

`DecLibRecon_proofs`, the picture: for every one, with failures of kernels, references and parser and with
lost slices, from `SizeAssumption` alone:

* `DecodesByWavefront`: `PicSpec => Spec`.  Every step of the picture is a step of the wavefront or
  leaves it alone, so that all the theorems above hold of the picture too.
* `LinesAlwaysParsedFirst`: `PicSpec => []OnlyParsedLines`.
* `ReleasedAlwaysClean`: `PicSpec => []ReleasedClean`.
* `ErrorsAlwaysReported`: `PicSpec => []ErrorsAreReported`.
* `PromiseAlwaysKept`: `PicSpec => KeepsPromise`, the refinement of `PictureRecon`.

The invariant `PicInv` is that of the wavefront's tasks with three facts about the picture: the main
thread has added exactly the tasks before its position in the scan (`ScanInv`, for which the
zig-zag order is shown to number the tasks without gaps, `ScanPositions`); a task that has left the
pool unfinished has left an exception (`GoneInv`); and what each state of the finish task, of
`reconDone` and of the main thread says of the tasks (`OutcomeInv`).  Without `ScanInv` the finish
task could find the counter at zero while tasks are still to be added.

`TaskSchedule_proofs`, for every picture size and number of threads, from `BoundAssumption` alone:

* `LineAlwaysPartitioned`: `Spec => []LinePartitioned`.  Division with remainder.
* `EachTaskAlwaysOnce`: `Spec => []EachTaskOnce`.
* `SourcesAlwaysAddedFirst`: `Spec => []SourcesAddedFirst`.  Both by `AddedInv`: the tasks that were
  added are those the scan has passed on its diagonals.

`ThreadPool_proofs`, for any number of workers and tasks, any chunk size, any barriers, polls and
exceptions of the tasks, with or without spurious wake-ups and a shutdown at any time, from
`PoolAssumption` alone:

* `PoolTypeCorrect`: `PoolSpec => []PoolTypeOK`.
* `SlotsStayExclusive`: `PoolSpec => []SlotExclusive`.
* `CounterAlwaysExact`: `PoolSpec => []CounterExact`.
* `WaitAlwaysMeansCleared`: `PoolSpec => []WaitMeansCleared`.
* `NothingEverRunsEarly`: `PoolSpec => []NothingRunsEarly`.
* `NoWakeupLost`: `PoolSpec => []NoLostWakeup`.

The steps of a worker are sorted by what they do to the queue (`WorkerSteps`: calm, takes a slot,
keeps it, gives it back), those of the adding thread likewise (`MainSteps`); the invariants of the
queue are shown for these few effects.  `SlotExclusive` is inductive together with the types
(`Shape`).  With it, `CountInv` (the counted slots as a finite set that grows and shrinks by one)
and `TaskInv` (every added task has one slot until its done barrier is told, and a done barrier is
told once) are inductive, and the last fact is what keeps an open barrier open for
`NothingRunsEarly`.  `WaitMeansCleared` follows: a counter of zero means that no counted slot, hence
no pending task, is left.

`NoLostWakeup` needs `SleepInv`, about the one thread that pauses: it owns the idle lock, so all
the others stand before that lock; while it searches it owns the pause mutex, so that nothing is
published behind its back; hence the slots it has passed (`Passed`, in the circular order of the
search) stay hopeless until it sleeps, and then until somebody notifies it.

`SingleThreadPool_proofs`, for any number of tasks and pictures and any dependencies, for pictures in
which no task throws, from `SingleThreadAssumption` alone:

* `QueueAlwaysCounted`: `StpSpec => []QueueCounted`.
* `FinishAlwaysLast`: `StpSpec => [](MayThrow = {} => FinishLast)`.

`AddedInv` says which tasks have been added wherever the caller stands, in particular while
`bypassTaskQueue` processes older tasks before it tries the new one.  With errors, and in a second
picture after them, the counter can be negative (section 3), and then neither holds.

* `EveryPictureAlwaysDone`: `ASSUME \A g \in Scenarios : Acyclic(g) PROVE StpSpec => []EveryPictureDone`.
  `Acyclic` says it with sets instead of an order: whichever tasks have not begun and whichever are not
  done, one of them is free to go on.  With a cycle a picture can never be done; the graphs of the
  run are exactly the acyclic ones of their shape, since `MCGraphs` asks for `Acyclic`.  `OverInv` adds
  that at the end of a picture no queued task is ready.

`VVDecImpl_proofs`, for any number of pictures, NAL units and exceptions, with any pictures copied
or refused, from `ApiAssumption` alone:

* `ApiTypeCorrect`: `Spec => []TypeOK`.
* `FramesInOrder`: `Spec => []InOrder`.  The inductive part, `ListInv`, says that the list
  holds every number from the next one on, where `frameNext` points (the first
  that was not handed out, or nowhere if all were), and how `seqNumOutput` follows the last frame
  handed out, which is what `xAddPicture` looks for when the iterator had run out.
* `EofMeansEnd`: `Spec => []EofIsTheEnd`, by `EofInv`, which says of the last step of a flush call
  what is known when it returns: that something is in the list, or that nothing comes from `DecLib`
  any more, as it is empty or an exception may have left a stuck picture in it.
* `LocksFollowFrames`: `Spec => []LocksMatch`, by `LockInv`, which adds that frames and pictures
  correspond one to one.

`DecLib_proofs`, for every stream of access units and marks, with or without
`ERR_HANDLING_TRY_CONTINUE`, any numbers of `Picture` and `DecLibRecon` objects, any delays, and any
errors, flushes and pictures held by the application, from `DpbAssumption` and `DecLibAssumption`:

* `TypeCorrect`: `Spec => []TypeInv`, and `Inductive`: `Spec => []IInv`.
* `ReuseAlwaysSafe`: `Spec => ReuseSafe`.
* `BufferChecksAlwaysHold`: `Spec => []BufferChecksHold`, half of which is
  `AlwaysStartsAfterReferences`: `Spec => []StartsAfterReferences`.
* `ChecksHoldWithHeaders`: `Spec /\ [][~ParseBroken]_vars => []ChecksHold`.  Without the second
  conjunct it is false (*Reference without a header* in section 3).
* `ErrorsAlwaysReportedOnce`: `Spec => []ErrorsReportedOnce`.
* `WithheldOnlyThen`: `Spec => []WithheldOnlyBehindStuck`.

`ReuseSafe` speaks of five flags of a `Picture` and says nothing of how they come about.  `IInv`
follows the object from hand to hand instead.  Somebody *owns* a picture in progress: the parse list, the main
thread, one `DecLibRecon` object, or the main thread again when it has taken the picture out of one
(`PlaceInv`: one of them at a time).  Where a picture is says how far it is, what its two barriers and
tasks are, and that nothing was reported about it; when nobody owns it, it is finished, was generated,
never got a header, or failed in its reconstruction (`LifeInv`).  So `Reusable`, which asks for the progress and four
flags, excludes an owner once a picture in progress is always referenced or to be output (`UseInv`,
which is where the output flag of pictures nobody refers to is needed).  What a picture in progress
refers to keeps `stillReferenced` and is before it in the parse list (`RefInv`), which
`MarkUnusedPicturesReusable` preserves since it asks all pictures in progress.  `DpbInv` is about
`m_dpbReferencePics`: an unmarked picture in it is the one the parser has just added, and that one is
not output before the parser cleans the list again (`Kept`), so that "reused picture shouldn't be in
decoded picture buffer" does not fail.  `AuInv` ties access units, pictures and exceptions together, `CallInv`
and `DrainInv` say what the main thread knows at each point of a call.  Each action is first reduced
to its effect (`StepMoves`): pictures go on, one picture is taken for a new access unit, or a
CHECK fails; the theorems after `Inductive` are about these effects.

`PictureParse_proofs`, for pictures of every size, any layouts of slices in which CTU 0 is the first
of the first slice and only there, and any number of pictures and faults, from `ParseAssumption`:

* `ChecksAlwaysWork`: `Spec => []ChecksWork`.  `OrderInv` is the comment in the code made precise: when
  a slice has begun all slices before it have ended without an error, so that one CTU is in work.
* `NeverHoles`: `Spec => []NoHoles`.  `DataInv` says that there is data for the whole rectangle above
  and to the left of a CTU with data (`UpTo`), so that the last CTU speaks for all of them.
* `ErrorsAlwaysReported`: `Spec => []ErrorsReported`.  `ErrorInv` says where the exception of a broken
  picture is between the task that throws it and DecLib: in a task, on `parseDone`, or told.
* `LinesMeanLines`: `ASSUME Disjoint PROVE Spec => []LineMeansLine`.  No CTU is in two slices of a
  layout, as in every conforming stream and in the layouts of the run.  `NumberInv` (the slices of a
  picture come with growing numbers) then says that no CTU is parsed twice, which keeps an open barrier
  true; `PlaceInv` keeps the barriers of a picture that never came into the parse list out of it.

`ParameterSets_proofs`, for any number of pictures, slices, stored sets, ids and contents, from
`ParameterSetsAssumption` and what each theorem assumes of the stream:

* `PointersStayAlive`: `ASSUME NoApsBetween PROVE Spec => []PointersAlive`.  No ALF APS comes between
  the slices of a picture.  `AlfInv` says that the ALF APSs a picture shares are then the newest as
  long as it is parsed, so that those of a later slice are the same objects.
* `AlwaysDecodedAsSent`: `ASSUME StoredOnce PROVE Spec => []DecodedAsSent`.  Each set is stored at
  most once between the slices of a picture.  `ToldInv` says that the object the picture has either
  says what the newest one says, or its flag tells that they differ; a second replacement would put
  the flag into an object that nobody looks at.

Both rest on `BaseInv`: what an object says never changes (`Preserved`), slices share the PPS and the
LMCS APS of their picture (`SharesInv`).  The two assumptions are those the model needs: without
them TLC shows both properties violated (section 3).

Only model-checked: that `DecLib` refines `OutputOrder`, what `SingleThreadPool` does with errors, and
all liveness (fairness and ENABLED are outside of TLAPS here).

## 6. What is not modelled

Sample arithmetic, bit parsing, CABAC, film grain, SIMD, the application and vendored code, which are
most of the lines of the repository: see the notes in `PROJECT.json`.  What the kernels read and
write is in the properties of `CtuWavefront`, taken from the kernels' code.  The atomics are
sequentially consistent in all models; the code uses relaxed loads only where a stale value costs
one more turn.  `checkAndThrowThreadPoolException` is left out: only an exception outside of every
task could set it.

`DecLib` leaves out: several slices in a picture (`PictureParse` has them, without the DPB and the
reconstruction), mixed NAL unit types, layers, GDR, NoOutputOfPriorPics, long-term references, single-threaded decoding, picture hashes, changes of the
picture size, the user allocator.  `VVDecImpl` leaves out: frame storage and film grain content, SEI
lookup, the split into NAL units, and refused calls, which change nothing.  `PictureParse`
leaves out that the first slice of a picture may fail between the new buffer and its slice, with the
picture left behind as `DecLib` has it.  `ParameterSets` leaves out VPS, DCI, scaling lists and
failing activations.

## 7. What could follow

GDR and NoOutputOfPriorPics in `OutputOrder`; a proof that `DecLib` implements `OutputOrder` for
streams that respect the size of the picture buffer and the reordering of their SPS; the
reuse of a picture whose parse task has not returned yet.
