---------------------------- MODULE DecLibRecon ----------------------------
(***************************************************************************)
(* One picture in a DecLibRecon object: the main thread (decompressPicture *)
(* and waitForPrevDecompressedPic, called from DecLib::reconPicture) adds  *)
(* the CTU tasks and the task that finishes the picture, the parse task    *)
(* opens the CTU lines one after the other, and the workers run the tasks  *)
(* of CtuWavefront.  Exceptions travel from the parse task and the CTU     *)
(* tasks over the barriers and counters of the picture to the main thread. *)
(***************************************************************************)
EXTENDS CtuWavefront

CONSTANTS
  ParseMayFail,   \* the parse task can throw
  SliceMayBeLost  \* the last slices of the picture can be missing

ASSUME InputAssumption == ParseMayFail \in BOOLEAN /\ SliceMayBeLost \in BOOLEAN

VARIABLES
  main,       \* schedule, decoding (object holds m_currDecompPic), cleanup, released
  next,       \* position of decompressPicture in the zig-zag scan
  received,   \* CTU lines the received slices cover
  parsed,     \* lines whose ctuParsedBarrier is unlocked
  parseTask,  \* running, gone
  parseDone,  \* Picture::parseDone: locked, unlocked, error
  finishPic,  \* the finishReconTask: absent, queued, returned, gone
  reconDone,  \* Picture::reconDone: locked, unlocked, error
  picError,   \* Picture::error
  progress    \* reconstructing, reconstructed

picVars == <<main, next, received, parsed, parseTask, parseDone, finishPic, reconDone,
             picError, progress>>
vars == <<wfVars, picVars>>

InPool(l, c)  == pool[l][c] \in {"queued", "waiting", "running"}
NoCtuTask     == \A l \in Lines, c \in Cols : ~InPool(l, c)     \* m_ctuTaskCounter is 0
NoOtherTask   == parseTask = "gone" /\ finishPic \in {"absent", "gone"}

PicInit ==
  /\ Init
  /\ main = "schedule" /\ next = 0
  /\ received \in IF SliceMayBeLost THEN 1..HeightInCtus ELSE {HeightInCtus}
  /\ parsed \in 0..received
  /\ parseTask = "running"
  /\ parseDone = "locked"
  /\ finishPic = "absent"
  /\ reconDone = "locked"
  /\ picError = FALSE
  /\ progress = "reconstructing"

-----------------------------------------------------------------------------
(* Main thread.  Tasks are added diagonal by diagonal, each from the top   *)
(* right to the bottom left.                                               *)

Before(t, u) == t[1] + t[2] < u[1] + u[2] \/ (t[1] + t[2] = u[1] + u[2] /\ t[1] < u[1])

ZigZag(l, c) == Cardinality({t \in Lines \X Cols : Before(t, <<l, c>>)})

(* An exception out of decompressPicture is caught in reconPicture.        *)
GiveUp ==
  /\ main' = "decoding"
  /\ reconDone' = "error"
  /\ picError' = TRUE
  /\ UNCHANGED <<wfVars, next, received, parsed, parseTask, parseDone, finishPic, progress>>

Schedule(l, c) ==
  /\ main = "schedule" /\ next = ZigZag(l, c)
  /\ parseDone # "error"               \* parseDone.isBlocked() rethrows
  /\ AddTask(l, c)
  /\ next' = next + 1
  /\ UNCHANGED <<main, received, parsed, parseTask, parseDone, finishPic, reconDone,
                 picError, progress>>

ScheduleFinish ==
  /\ main = "schedule" /\ next = HeightInCtus * NumTasksPerLine
  /\ parseDone # "error"               \* then m_divTasksCounter has the exception
  /\ finishPic' = "queued"
  /\ main' = "decoding"
  /\ UNCHANGED <<wfVars, next, received, parsed, parseTask, parseDone, reconDone,
                 picError, progress>>

ScheduleFails ==
  /\ main = "schedule"
  /\ parseDone = "error" \/ (exc /\ next < HeightInCtus * NumTasksPerLine)
  /\ GiveUp

(* waitForPrevDecompressedPic, when the object is needed again. *)
SliceMissing ==
  /\ main = "decoding"
  /\ received < HeightInCtus            \* CHECK( lastSliceLastCtuIdx ... )
  /\ picError' = TRUE
  /\ reconDone' = "error"
  /\ main' = "cleanup"
  /\ UNCHANGED <<wfVars, next, received, parsed, parseTask, parseDone, finishPic, progress>>

PictureDone ==
  /\ main = "decoding"
  /\ received = HeightInCtus
  /\ reconDone = "unlocked" /\ ~picError
  /\ main' = "released"
  /\ UNCHANGED <<wfVars, next, received, parsed, parseTask, parseDone, finishPic, reconDone,
                 picError, progress>>

PictureFailed ==
  /\ main = "decoding"
  /\ received = HeightInCtus
  /\ reconDone = "error" \/ (reconDone = "unlocked" /\ picError)
  /\ picError' = TRUE
  /\ main' = "cleanup"
  /\ UNCHANGED <<wfVars, next, received, parsed, parseTask, parseDone, finishPic, reconDone,
                 progress>>

(* cleanupOnException: both counters of the picture have come to zero. *)
CleanedUpFault ==                                     \* fault: m_ctuTaskCounter is not waited for
  /\ main = "cleanup"
  /\ NoOtherTask
  /\ main' = "released"
  /\ UNCHANGED <<wfVars, next, received, parsed, parseTask, parseDone, finishPic, reconDone,
                 picError, progress>>

CleanedUp ==
  /\ main = "cleanup"
  /\ NoCtuTask /\ NoOtherTask
  /\ main' = "released"
  /\ UNCHANGED <<wfVars, next, received, parsed, parseTask, parseDone, finishPic, reconDone,
                 picError, progress>>

-----------------------------------------------------------------------------
(* The parse task. *)

ParseLine ==
  /\ parseTask = "running"
  /\ parsed < received
  /\ parsed' = parsed + 1
  /\ UNCHANGED <<wfVars, main, next, received, parseTask, parseDone, finishPic, reconDone,
                 picError, progress>>

ParseEnds ==
  /\ parseTask = "running"
  /\ parsed = received
  /\ parseTask' = "gone"
  /\ parseDone' = IF parsed = HeightInCtus THEN "unlocked" ELSE parseDone
  /\ UNCHANGED <<wfVars, main, next, received, parsed, finishPic, reconDone, picError, progress>>

ParseFails ==
  /\ ParseMayFail
  /\ parseTask = "running"
  /\ parsed < received
  /\ parseTask' = "gone"
  /\ parseDone' = "error"              \* and every ctuParsedBarrier, and m_divTasksCounter
  /\ picError' = TRUE
  /\ UNCHANGED <<wfVars, main, next, received, parsed, finishPic, reconDone, progress>>

-----------------------------------------------------------------------------
(* The tasks in the pool. *)

LineParsed(l, c) == parseDone # "error" /\ parsed > l /\ Unblock(l, c)
LineFails(l, c)  == parseDone = "error" /\ BarrierFails(l, c)

CtuStep(l, c) ==
  /\ LineParsed(l, c) \/ LineFails(l, c) \/ TaskStep(l, c)
  /\ UNCHANGED picVars

(* finishReconTask, waiting for m_ctuTaskCounter, and the unlock of its    *)
(* done barrier by the worker.                                             *)
FinishTaskIgnoresError ==                             \* fault: the barrier hides the exception
  /\ finishPic = "queued"
  /\ NoCtuTask
  /\ progress' = "reconstructed"
  /\ finishPic' = "returned"
  /\ UNCHANGED <<wfVars, main, next, received, parsed, parseTask, parseDone, reconDone, picError>>

FinishTask ==
  /\ finishPic = "queued"
  /\ ~exc /\ NoCtuTask
  /\ progress' = "reconstructed"
  /\ finishPic' = "returned"
  /\ UNCHANGED <<wfVars, main, next, received, parsed, parseTask, parseDone, reconDone, picError>>

FinishUnlocks ==
  /\ finishPic = "returned"
  /\ finishPic' = "gone"
  /\ reconDone' = IF reconDone = "error" THEN "error" ELSE "unlocked"
  /\ UNCHANGED <<wfVars, main, next, received, parsed, parseTask, parseDone, picError, progress>>

FinishFailsFault ==                                   \* fault: reconDone gets no exception
  /\ finishPic = "queued"
  /\ exc
  /\ finishPic' = "gone"
  /\ UNCHANGED <<wfVars, main, next, received, parsed, parseTask, parseDone, reconDone, picError,
                 progress>>

FinishFails ==
  /\ finishPic = "queued"
  /\ exc
  /\ finishPic' = "gone"
  /\ reconDone' = "error"
  /\ UNCHANGED <<wfVars, main, next, received, parsed, parseTask, parseDone, picError, progress>>

RefExt == (RefExtDone \/ RefExtFails) /\ UNCHANGED picVars

PicNext ==
  \/ \E l \in Lines, c \in Cols : Schedule(l, c) \/ CtuStep(l, c)
  \/ ScheduleFinish \/ ScheduleFails
  \/ SliceMissing \/ PictureDone \/ PictureFailed \/ CleanedUp
  \/ ParseLine \/ ParseEnds \/ ParseFails
  \/ FinishTask \/ FinishUnlocks \/ FinishFails
  \/ RefExt

PicSpec == PicInit /\ [][PicNext]_vars

(* Main thread and workers keep running, and the reference pictures are    *)
(* finished by tasks of their own; no step is ever repeated.               *)
PicFairSpec == PicSpec /\ WF_vars(PicNext)

-----------------------------------------------------------------------------
(* A task starts on a line only when the line is parsed: its coding units  *)
(* are complete (ctuParsedBarrier, DecSlice::parseSlice).                  *)
OnlyParsedLines ==
  \A l \in Lines, c \in Cols :
    pool[l][c] \in {"waiting", "running"} \/ ctuState[l][c] > MIDER => parsed > l

(* The object is given back only when nothing in the pool can touch the    *)
(* picture, commonTaskParam or m_fltBuf, and a picture without an error is *)
(* complete: the next picture reuses all of it (waitForPrevDecompressedPic,*)
(* "Wrong CTU state", "some CTUs of previous pic not done").               *)
ReleasedClean ==
  main = "released" =>
    /\ NoCtuTask
    /\ ~picError => /\ progress = "reconstructed" /\ parsed = HeightInCtus
                    /\ \A l \in Lines, c \in Cols : ctuState[l][c] = DONE

(* An exception of a kernel or of the parser reaches the caller: the       *)
(* picture is never released as good after one (handleTaskException,       *)
(* waitForPrevDecompressedPic).                                            *)
ErrorsAreReported ==
  main = "released" /\ (exc \/ parseDone = "error") => picError

(* The specification of the object as its caller sees it. *)
Promise == INSTANCE PictureRecon WITH
  Tasks    <- Lines \X Cols,
  active   <- {t \in Lines \X Cols : InPool(t[1], t[2])},
  final    <- {t \in Lines \X Cols : ctuState[t[1]][t[2]] = DONE},
  outcome  <- IF reconDone = "error" THEN "error"
              ELSE IF reconDone = "unlocked" THEN "reconstructed" ELSE "pending",
  released <- main = "released"

KeepsPromise == Promise!RSpec

(* The main thread gets the object back when the parser has done its part, *)
(* whatever the kernels do: a failing task takes all the others with it    *)
(* and no clean-up waits for one that cannot end.                          *)
ReleasedWhenParsed ==
  <>(main = "released") \/ <>(parseDone = "error" \/ received < HeightInCtus)

(* The main thread always gets the object back, also when the parse task   *)
(* throws or a slice is lost: "we need to wait for all tasks to be cleared *)
(* from the thread pool" (cleanupOnException) comes to an end.             *)
AlwaysReleased == <>(main = "released")
=============================================================================
