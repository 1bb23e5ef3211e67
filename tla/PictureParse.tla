---------------------------- MODULE PictureParse ----------------------------
(***************************************************************************)
(* Pictures of several slices on their way through DecLibParser, with      *)
(* parse threads.  Every slice NAL unit adds a slice to a picture and a    *)
(* task to the thread pool; the tasks of a picture run one after the other *)
(* because each waits for the parseDone barrier of the slice before it.    *)
(* NAL units may be lost, headers and slice data may be broken.            *)
(*                                                                         *)
(* An exception of a parse task lies on the barriers of its picture until  *)
(* DecLib takes the picture from the parse list.  What happens to a        *)
(* picture without errors from there on is DecLibRecon's.                  *)
(***************************************************************************)
EXTENDS Integers, SequencesExt

CONSTANTS
  WidthInCtus, HeightInCtus,
  SliceMaps,        \* for every picture layout the CTU addresses of each slice
  NumPictures,      \* bound: pictures in the stream
  ParseFrameDelay,  \* m_parseFrameDelay
  Faults,           \* what may go wrong: lost, header, late, data
  MaxFaults         \* bound: how often

NumCtus == WidthInCtus * HeightInCtus
Ctus    == 0..(NumCtus - 1)
Pics    == 1..NumPictures
MaxSlices == NumPictures * Max({Len(map) : map \in SliceMaps})

ASSUME ParseAssumption ==
  /\ WidthInCtus \in Nat \ {0} /\ HeightInCtus \in Nat \ {0}
  /\ NumPictures \in Nat /\ ParseFrameDelay \in Nat /\ MaxFaults \in Nat
  /\ Faults \subseteq {"lost", "header", "late", "data"}
  /\ \A map \in SliceMaps :
       /\ map \in Seq(Seq(Ctus)) /\ Len(map) > 0
       /\ \A k \in 1..Len(map) : Len(map[k]) > 0 /\ \A n \in 1..Len(map[k]) : map[k][n] = 0 <=> k = 1 /\ n = 1

VARIABLES
  sliceMap,        \* the slice map of the active PPS
  nal,             \* the next slice NAL unit: number of its picture and of its slice
  parsePic,        \* m_pcParsePic, 0 for none
  segment,         \* m_uiSliceSegmentIdx
  slices,          \* slices of each picture: poc, number in the slice map, state of the parse task,
                   \* parseDone, number of parsed CTUs, whether it is inside a CTU
  ctuData,         \* CtuData::slice: old, none (nullptr), parsing, parsed
  ctuParsed,       \* ctuParsedBarrier
  parseDone,       \* Picture::parseDone
  pic,             \* error, exceptionThrownOut, an exception in m_divTasksCounter, place
  parseFrameList,  \* m_parseFrameList
  main,            \* the main thread: pc, its picture, the exception it has seen
  faults,          \* faults used
  check            \* the CHECK_FATAL that failed, "none"

parserVars == <<sliceMap, nal, parsePic, segment>>
taskVars   == <<slices, ctuData, ctuParsed, parseDone>>
vars == <<parserVars, taskVars, pic, parseFrameList, main, faults, check>>

Slice(p, i) == slices[p][i]
InPool(s)   == s.task \notin {"none", "gone"}

(* A Picture as it was left by its last use.                               *)
NewPic == [error |-> FALSE, exceptionThrownOut |-> FALSE, failed |-> FALSE, place |-> "none"]

In(pc) == [pc |-> pc, pic |-> 0, exc |-> FALSE]

Init ==
  /\ sliceMap \in SliceMaps
  /\ nal = [pic |-> 1, slice |-> 1] /\ parsePic = 0 /\ segment = 0
  /\ slices = [p \in Pics |-> <<>>]
  /\ ctuData = [p \in Pics |-> [c \in Ctus |-> "old"]]
  /\ ctuParsed = [p \in Pics |-> [c \in Ctus |-> "unlocked"]]
  /\ parseDone = [p \in Pics |-> "unlocked"]
  /\ pic = [p \in Pics |-> NewPic]
  /\ parseFrameList = <<>>
  /\ main = In("app")
  /\ faults = 0 /\ check = "none"

Fault(kind) == kind \in Faults /\ faults < MaxFaults /\ faults' = faults + 1

-----------------------------------------------------------------------------
(* DecLibParser::parse of a slice NAL unit.                                *)
LastSliceOfPicPresent(p) ==
  slices[p] # <<>> /\ Last(sliceMap[Last(slices[p]).id]) = NumCtus - 1

IsFirst == nal.slice = 1
ParsePic == IF parsePic # 0 /\ LastSliceOfPicPresent(parsePic) THEN 0 ELSE parsePic
Segment  == IF IsFirst THEN 0 ELSE segment + 1
Target   == IF IsFirst THEN nal.pic ELSE ParsePic

Arrives ==
  /\ main.pc = "app" /\ nal.pic <= NumPictures
  /\ nal' = IF nal.slice < Len(sliceMap) THEN [nal EXCEPT !.slice = @ + 1]
            ELSE [pic |-> nal.pic + 1, slice |-> 1]
  /\ UNCHANGED <<sliceMap, ctuData>>

(* The catch in parse: it marks m_pcParsePic, whatever that is by now, and *)
(* takes off its parseDone barrier the exception of a parse task.          *)
CaughtIn(q) ==
  /\ pic' = IF q = 0 THEN pic ELSE [pic EXCEPT ![q].error = TRUE, ![q].exceptionThrownOut = TRUE]
  /\ parseDone' = IF q # 0 /\ parseDone[q] = "error" THEN [parseDone EXCEPT ![q] = "locked"] ELSE parseDone
  /\ UNCHANGED <<parseFrameList, main, ctuParsed, check>>

SliceLost ==
  /\ Arrives /\ Fault("lost")
  /\ UNCHANGED <<parsePic, segment, slices, ctuParsed, parseDone, pic, parseFrameList, main, check>>

(* The first pass over the header throws: not even the segment is counted. *)
HeaderUnreadable ==
  /\ Arrives /\ Fault("header")
  /\ parsePic' = ParsePic /\ CaughtIn(ParsePic)
  /\ UNCHANGED <<segment, slices>>

(* "m_pcParsePic should be initialized", "can't access previous slice"     *)
NoPreviousSlice ==
  ~IsFirst /\ (ParsePic = 0 \/ (ParsePic # 0 /\ Len(slices[ParsePic]) <= Segment - 1))

HeaderRejected ==
  /\ Arrives /\ NoPreviousSlice
  /\ parsePic' = ParsePic /\ segment' = Segment /\ CaughtIn(ParsePic)
  /\ UNCHANGED <<slices, faults>>

HeaderFails ==                                \* before a slice or a picture is allocated
  /\ Arrives /\ ~NoPreviousSlice /\ Fault("header")
  /\ parsePic' = ParsePic /\ segment' = Segment /\ CaughtIn(ParsePic)
  /\ UNCHANGED slices

-----------------------------------------------------------------------------
(* xActivateParameterSets allocates the slice: for the first one with a    *)
(* new picture, finalInit of which locks parseDone.                        *)
NewSlice ==
  [poc |-> nal.pic, id |-> nal.slice, task |-> "none", parseDone |-> "locked", ctuIdx |-> 0, inCtu |-> FALSE]

Allocated == IF IsFirst THEN <<NewSlice>> ELSE Append(slices[Target], NewSlice)

Allocates ==
  /\ Arrives /\ ~NoPreviousSlice
  /\ parsePic' = Target /\ segment' = Segment
InvalidNumberOfSlices == Len(Allocated) # Segment + 1

TooManySlices ==                              \* CHECK_FATAL "Invalid number of slices"
  /\ Allocates /\ InvalidNumberOfSlices
  /\ slices' = [slices EXCEPT ![Target] = Allocated]
  /\ check' = "number of slices" /\ main' = In("stopped")
  /\ UNCHANGED <<ctuParsed, parseDone, pic, parseFrameList, faults>>

(* A check fails after that, or the counter of the picture's tasks throws  *)
(* the exception of another one: the slice is there, but no task for it.   *)
SliceWithoutTask ==
  /\ Allocates /\ ~InvalidNumberOfSlices
  /\ slices' = [slices EXCEPT ![Target] = Allocated]
  /\ \/ Fault("late") \/ (~IsFirst /\ pic[Target].failed /\ UNCHANGED faults)
  /\ IF IsFirst
     THEN /\ pic' = [pic EXCEPT ![Target] = [NewPic EXCEPT !.error = TRUE, !.exceptionThrownOut = TRUE]]
          /\ parseDone' = [parseDone EXCEPT ![Target] = "locked"]
          /\ UNCHANGED <<parseFrameList, main, ctuParsed, check>>
     ELSE CaughtIn(Target)

LockedFault(p) == ctuParsed[p]                \* fault: the barriers are as the last picture left them
Locked(p) == [c \in Ctus |-> "locked"]

(* xDecodeSliceMain up to its end; whether the picture is complete is told *)
(* by the address of the last CTU alone.                                   *)
AddSlice ==
  /\ Allocates /\ ~InvalidNumberOfSlices /\ ~pic[Target].failed
  /\ slices' = [slices EXCEPT ![Target] = [Allocated EXCEPT ![Segment + 1].task = "waiting"]]
  /\ IF IsFirst
     THEN /\ ctuParsed' = [ctuParsed EXCEPT ![Target] = Locked(Target)]
          /\ parseDone' = [parseDone EXCEPT ![Target] = "locked"]
          /\ pic' = [pic EXCEPT ![Target] = [NewPic EXCEPT !.place = "list"]]
          /\ parseFrameList' = Append(parseFrameList, Target)
     ELSE UNCHANGED <<ctuParsed, parseDone, pic, parseFrameList>>
  /\ main' = IF Last(sliceMap[nal.slice]) = NumCtus - 1 /\ Len(parseFrameList') > ParseFrameDelay
             THEN In("choose") ELSE main
  /\ UNCHANGED <<faults, check>>

-----------------------------------------------------------------------------
(* The parse task of slice i of picture p, and the thread pool around it.  *)
SetSlice(p, i, s) == slices' = [slices EXCEPT ![p][i] = s]
TaskOnly == UNCHANGED <<parserVars, parseFrameList, main, check>>

BeforeFault(p, i) == "unlocked"               \* fault: no barrier between slices
Before(p, i) == IF i = 1 THEN "unlocked" ELSE Slice(p, i - 1).parseDone

TaskStarts(p, i) ==
  /\ Slice(p, i).task = "waiting" /\ Before(p, i) = "unlocked"
  /\ SetSlice(p, i, [Slice(p, i) EXCEPT !.task = "running"])
  /\ ctuData' = IF sliceMap[Slice(p, i).id][1] = 0    \* initStructData
                THEN [ctuData EXCEPT ![p] = [c \in Ctus |-> "none"]] ELSE ctuData
  /\ TaskOnly /\ UNCHANGED <<ctuParsed, parseDone, pic, faults>>

(* handleTaskException                                                     *)
GoneFault(p, i) ==                            \* fault: the task's own barrier stays locked
  /\ SetSlice(p, i, [Slice(p, i) EXCEPT !.task = "gone"])
  /\ pic' = [pic EXCEPT ![p].failed = TRUE]
  /\ TaskOnly /\ UNCHANGED <<ctuData, ctuParsed, parseDone, faults>>

Gone(p, i) ==
  /\ SetSlice(p, i, [Slice(p, i) EXCEPT !.task = "gone", !.parseDone = "error"])
  /\ pic' = [pic EXCEPT ![p].failed = TRUE]
  /\ TaskOnly /\ UNCHANGED <<ctuData, ctuParsed, parseDone, faults>>

TaskPoisoned(p, i) == Slice(p, i).task = "waiting" /\ Before(p, i) = "error" /\ Gone(p, i)

Address(p, i)  == sliceMap[Slice(p, i).id][Slice(p, i).ctuIdx + 1]
AtCtu(p, i)    == Slice(p, i).task = "running" /\ ~Slice(p, i).inCtu /\ Slice(p, i).ctuIdx < Len(sliceMap[Slice(p, i).id])
Neighbours(c)  == {n \in Ctus : (n = c - 1 /\ c % WidthInCtus > 0) \/ n = c - WidthInCtus}

MissingFault(p, c) == {n \in Ctus : n = c - 1 /\ c % WidthInCtus > 0 /\ ctuData[p][n] = "none"}
                                              \* fault: the CTU above is not asked for
Missing(p, c) == {n \in Neighbours(c) : ctuData[p][n] = "none"}

BeginCtu(p, i) ==
  /\ AtCtu(p, i) /\ Missing(p, Address(p, i)) = {}
  /\ SetSlice(p, i, [Slice(p, i) EXCEPT !.inCtu = TRUE])
  /\ ctuData' = [ctuData EXCEPT ![p][Address(p, i)] = "parsing"]
  /\ TaskOnly /\ UNCHANGED <<ctuParsed, parseDone, pic, faults>>

(* ctuParsedBarrier, and with the last CTU of the picture parseDone        *)
EndCtu(p, i) ==
  /\ Slice(p, i).task = "running" /\ Slice(p, i).inCtu
  /\ SetSlice(p, i, [Slice(p, i) EXCEPT !.inCtu = FALSE, !.ctuIdx = @ + 1])
  /\ ctuData' = [ctuData EXCEPT ![p][Address(p, i)] = "parsed"]
  /\ ctuParsed' = [ctuParsed EXCEPT ![p][Address(p, i)] = "unlocked"]
  /\ parseDone' = IF Address(p, i) = NumCtus - 1 THEN [parseDone EXCEPT ![p] = "unlocked"] ELSE parseDone
  /\ TaskOnly /\ UNCHANGED <<pic, faults>>

TaskEnds(p, i) ==
  /\ Slice(p, i).task = "running" /\ ~AtCtu(p, i) /\ ~Slice(p, i).inCtu
  /\ SetSlice(p, i, [Slice(p, i) EXCEPT !.task = "gone", !.parseDone = "unlocked"])
  /\ TaskOnly /\ UNCHANGED <<ctuData, ctuParsed, parseDone, pic, faults>>

(* "CTU left not available", "CTU above not available", broken slice data: *)
(* the catch in the task marks the picture, then its barriers.             *)
TaskThrows(p, i) ==
  /\ \/ AtCtu(p, i) /\ Missing(p, Address(p, i)) # {} /\ UNCHANGED faults
     \/ Slice(p, i).task = "running" /\ Slice(p, i).inCtu /\ Fault("data")
  /\ SetSlice(p, i, [Slice(p, i) EXCEPT !.task = "throwing"])
  /\ pic' = [pic EXCEPT ![p].error = TRUE]
  /\ TaskOnly /\ UNCHANGED <<ctuData, ctuParsed, parseDone>>

ExceptionSetFault(p, i) ==                    \* fault: the barriers of the CTUs are forgotten
  /\ Slice(p, i).task = "throwing"
  /\ SetSlice(p, i, [Slice(p, i) EXCEPT !.task = "thrown"])
  /\ parseDone' = [parseDone EXCEPT ![p] = "error"]
  /\ TaskOnly /\ UNCHANGED <<ctuData, ctuParsed, pic, faults>>

ExceptionSet(p, i) ==
  /\ Slice(p, i).task = "throwing"
  /\ SetSlice(p, i, [Slice(p, i) EXCEPT !.task = "thrown"])
  /\ parseDone' = [parseDone EXCEPT ![p] = "error"]
  /\ ctuParsed' = [ctuParsed EXCEPT ![p] = [c \in Ctus |-> "error"]]
  /\ TaskOnly /\ UNCHANGED <<ctuData, pic, faults>>

TaskFails(p, i) == Slice(p, i).task = "thrown" /\ Gone(p, i)

Task(p, i) ==
  \/ TaskStarts(p, i) \/ TaskPoisoned(p, i) \/ BeginCtu(p, i) \/ EndCtu(p, i) \/ TaskEnds(p, i)
  \/ TaskThrows(p, i) \/ ExceptionSet(p, i) \/ TaskFails(p, i)

-----------------------------------------------------------------------------
(* DecLib takes pictures from the parse list, at the end of the stream all *)
(* of them: getNextDecodablePicture and the loop in decode.                *)
Decodable(p) == parseDone[p] = "unlocked" /\ ~pic[p].error

NextDecodable ==
  LET i == SelectInSeq(parseFrameList, Decodable)
  IN  IF ParseFrameDelay = 0 \/ pic[Head(parseFrameList)].error \/ i = 0 THEN 1 ELSE i

Flush ==
  /\ main.pc = "app" /\ nal.pic > NumPictures /\ parseFrameList # <<>>
  /\ main' = In("choose")
  /\ UNCHANGED <<parserVars, taskVars, pic, parseFrameList, faults, check>>

ChooseNone ==
  /\ main.pc = "choose" /\ parseFrameList = <<>>
  /\ main' = In("app")
  /\ UNCHANGED <<parserVars, taskVars, pic, parseFrameList, faults, check>>

Choose ==
  /\ main.pc = "choose" /\ parseFrameList # <<>>
  /\ LET p == parseFrameList[NextDecodable]
     IN  IF pic[p].error \/ parseDone[p] = "error"
         THEN /\ main' = [pc |-> "sanitize", pic |-> p, exc |-> parseDone[p] = "error"]
              /\ UNCHANGED pic
         ELSE /\ main' = In("app")
              /\ pic' = [pic EXCEPT ![p].place = "recon"]
  /\ parseFrameList' = RemoveAt(parseFrameList, NextDecodable)
  /\ UNCHANGED <<parserVars, taskVars, faults, check>>

(* sanitizeBrokenPicture after waitForAllTasks: an exception seen before   *)
(* is taken off the picture and thrown, one that came meanwhile is thrown  *)
(* by finishPicture; both not when one has been thrown for this picture.   *)
SanitizeFault ==                              \* fault: finishPicture does not ask parseDone
  LET p == main.pic
  IN  /\ main.pc = "sanitize" /\ \A i \in 1..Len(slices[p]) : ~InPool(Slice(p, i))
      /\ parseDone' = IF main.exc THEN [parseDone EXCEPT ![p] = "locked"] ELSE parseDone
      /\ check' = IF main.exc /\ pic[p].exceptionThrownOut THEN "exception thrown out" ELSE check
      /\ pic' = [pic EXCEPT ![p].error = TRUE, ![p].place = "done",
                            ![p].exceptionThrownOut = @ \/ main.exc]
      /\ main' = In("app")
      /\ UNCHANGED <<parserVars, slices, ctuData, ctuParsed, parseFrameList, faults>>

Sanitize ==
  LET p == main.pic
      late == ~main.exc /\ parseDone[p] = "error"
  IN  /\ main.pc = "sanitize" /\ \A i \in 1..Len(slices[p]) : ~InPool(Slice(p, i))
      /\ parseDone' = IF main.exc THEN [parseDone EXCEPT ![p] = "locked"] ELSE parseDone
      /\ pic' = [pic EXCEPT ![p].error = TRUE, ![p].place = "done",
                            ![p].exceptionThrownOut = @ \/ main.exc \/ late]
      /\ IF main.exc /\ pic[p].exceptionThrownOut
         THEN check' = "exception thrown out" /\ main' = In("stopped")
         ELSE /\ UNCHANGED check
              /\ main' = In(IF main.exc \/ (late /\ ~pic[p].exceptionThrownOut) THEN "app" ELSE "choose")
      /\ UNCHANGED <<parserVars, slices, ctuData, ctuParsed, parseFrameList, faults>>

DecLib == Flush \/ ChooseNone \/ Choose \/ Sanitize

Next ==
  \/ SliceLost \/ HeaderUnreadable \/ HeaderRejected \/ HeaderFails
  \/ TooManySlices \/ SliceWithoutTask \/ AddSlice
  \/ DecLib
  \/ \E p \in Pics : \E i \in 1..Len(slices[p]) : Task(p, i)

TaskOf(p, i) == i <= Len(slices[p]) /\ Task(p, i)

Spec == Init /\ [][Next]_vars

(* The main thread comes back from a call and a worker comes to every task *)
(* that is ready; the stream need not go on.                               *)
FairSpec ==
  /\ Spec /\ WF_vars(DecLib)
  /\ \A p \in Pics : \A i \in 1..MaxSlices : WF_vars(TaskOf(p, i))

-----------------------------------------------------------------------------
(* "These checks only work, since we wait for the previous slice to finish *)
(* parsing": what the checks for the left and the upper CTU read is never  *)
(* the data of an earlier picture nor of a CTU that is being parsed.       *)
ChecksWork ==
  \A p \in Pics : \A i \in 1..Len(slices[p]) :
    AtCtu(p, i) => \A n \in Neighbours(Address(p, i)) : ctuData[p][n] \in {"none", "parsed"}

(* Once parseDone is open there is data for every CTU of the picture, even *)
(* when slices were lost on the way.                                       *)
NoHoles ==
  \A p \in Pics : slices[p] # <<>> /\ parseDone[p] = "unlocked" =>
    \A c \in Ctus : ctuData[p][c] \in {"parsing", "parsed"}

(* A picture all slices of which belong to it: no first slice was lost.    *)
OnePicture(p) == \A i \in 1..Len(slices[p]) : Slice(p, i).poc = p

(* What the tasks of DecLibRecon rely on: when the barrier of the last CTU *)
(* of a line is open, this line and all above it are parsed and stay so.   *)
LineMeansLine ==
  \A p \in Pics : pic[p].place # "none" /\ OnePicture(p) =>
    \A line \in 1..HeightInCtus : ctuParsed[p][line * WidthInCtus - 1] = "unlocked" =>
      \A c \in 0..(line * WidthInCtus - 1) : ctuData[p][c] = "parsed"

(* A broken picture that has left the parse list is grey, and an exception *)
(* has told the application: whenever the parse task threw it.             *)
ErrorsReported == \A p \in Pics : pic[p].place = "done" => pic[p].exceptionThrownOut

(* When a picture is reconstructed and its last slice is there, the        *)
(* barriers of its CTUs do not stay locked: no task of DecLibRecon waits   *)
(* for them for ever, although the parse tasks may still fail.             *)
BarriersSettle ==
  \A p \in Pics :
    (pic[p].place = "recon" /\ LastSliceOfPicPresent(p)) ~> (\A c \in Ctus : ctuParsed[p][c] # "locked")

(* A slice that has no task and will get none, while the task of the next  *)
(* one waits for its parseDone.                                            *)
LeftBehind(p) ==
  \E i \in 1..(Len(slices[p]) - 1) : Slice(p, i).task = "none" /\ Slice(p, i + 1).task = "waiting"

(* Every call to the decoder returns, with an exception perhaps, unless a  *)
(* check has failed between the allocation of a slice and its task.        *)
CallsReturn ==
  main.pc \in {"choose", "sanitize"} ~> (main.pc \in {"app", "stopped"} \/ \E p \in Pics : LeftBehind(p))
=============================================================================
