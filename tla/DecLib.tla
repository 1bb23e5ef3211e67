------------------------------- MODULE DecLib -------------------------------
(***************************************************************************)
(* DecLib with its parser, its DecLibRecon objects and the decoded picture *)
(* buffer, as the application drives it: access units go in, pictures come *)
(* out, and in between every picture is parsed by a task, waits in a list, *)
(* is reconstructed by tasks while others are parsed, and is finished by   *)
(* the main thread when its DecLibRecon object is needed again.            *)
(*                                                                         *)
(* The tasks of a picture are one parse task and one reconstruction, of    *)
(* which PictureRecon says what DecLib may rely on.  The decoder has       *)
(* threads; a picture has one slice.  Nothing is said of samples: what is  *)
(* modelled is which Picture object is used for what, and when.            *)
(***************************************************************************)
EXTENDS PicListManager, FiniteSets

CONSTANTS
  Inputs,      \* records: units, the access units and end-of-sequence marks, and
               \* tryContinue, whether ERR_HANDLING_TRY_CONTINUE is set
  MaxErrors,   \* bound: errors in parse tasks and reconstruction
  MaxFlushes,  \* bound: flushes before the end of the stream
  MaxHeld      \* bound: pictures the application holds when it calls

(* type, poc; the POCs of the active reference pictures and of all those   *)
(* in the reference picture lists; whether later pictures may refer to it, *)
(* and PicOutputFlag.  poc is what the slice header derives from LSBs.     *)
AccessUnit ==
  [type : {"IDR", "CRA", "RASL", "TRAIL"}, poc : Int, refs : SUBSET Int, keep : SUBSET Int,
   isRef : BOOLEAN, output : BOOLEAN]

EndOfSequence == [type |-> "EOS"]

NoPoc  == 1000                                \* m_pocRandomAccess = MAX_INT
AnyPoc == -1000                               \* m_pocRandomAccess = -MAX_INT

(* IDR and CRA pictures are intra pictures; the reference picture lists of *)
(* a CRA picture may keep pictures for others.  A picture header has an    *)
(* output flag only when the picture is a reference picture: others are    *)
(* output (parsePictureHeader).                                            *)
ASSUME DecLibAssumption ==
  /\ Inputs \subseteq [units : Seq(AccessUnit \cup {EndOfSequence}), tryContinue : BOOLEAN]
  /\ \A input \in Inputs : \A i \in DOMAIN input.units : LET unit == input.units[i] IN
       unit.type # "EOS" =>
         /\ unit.refs \subseteq unit.keep
         /\ unit.type \in {"IDR", "CRA"} => unit.refs = {}
         /\ unit.type = "IDR" => unit.keep = {}
         /\ unit.isRef \/ unit.output
         /\ AnyPoc < unit.poc /\ unit.poc < NoPoc
  /\ {MaxErrors, MaxFlushes, MaxHeld} \subseteq Nat

VARIABLES
  stream,            \* the input
  tryContinue,       \* ERR_HANDLING_TRY_CONTINUE is set
  nextNal,           \* number of the next access unit
  dpb,               \* m_picListManager
  pocRandomAccess,   \* m_pocRandomAccess
  dpbReferencePics,  \* m_dpbReferencePics
  parseFrameList,    \* m_parseFrameList
  decLibRecon,       \* m_decLibRecon: the picture of each object, 0 for none
  main,              \* where the main thread is: pc, call, its picture, the picture that is
                     \* done, an exception kept for later, the object it waits for
  app,               \* what the application does: decode, flush, eof, stopped; tuning in;
                     \* flushes used
  errors,            \* errors used
  output,            \* access units that were output
  thrown,            \* how often an exception about an access unit left the library
  check              \* the CHECK that failed and must not, "none"

parseVars == <<stream, tryContinue, nextNal, pocRandomAccess, dpbReferencePics>>
appVars   == <<app, output, thrown>>
vars == <<parseVars, dpb, parseFrameList, decLibRecon, main, appVars, errors, check>>

Pic(s) == dpb.pic[s]

Idle(call) == [pc |-> "app", call |-> call, pic |-> 0, done |-> 0, exc |-> FALSE, obj |-> 0]
GoTo(pc)   == main' = [main EXCEPT !.pc = pc]

Init ==
  /\ \E input \in Inputs : stream = input.units /\ tryContinue = input.tryContinue
  /\ nextNal = 1
  /\ dpb = EmptyDpb
  /\ pocRandomAccess = NoPoc /\ dpbReferencePics = {} /\ parseFrameList = <<>>
  /\ decLibRecon = [i \in 1..DecInstances |-> 0]
  /\ main = Idle("decode")
  /\ app = [state |-> "decode", tuningIn |-> TRUE, flushes |-> 0]
  /\ errors = 0 /\ output = <<>> /\ check = "none"
  /\ thrown = [i \in 1..Len(stream) |-> 0]

-----------------------------------------------------------------------------
(* How a call returns.  VVDecImpl counts every picture that comes out, and *)
(* goes on after an exception when the flag allows it or while tuning in.  *)
ThrowTo(a, call) ==
  /\ main' = Idle(call)
  /\ app' = [app EXCEPT !.state = IF tryContinue \/ (call = "decode" /\ app.tuningIn) THEN @ ELSE "stopped"]
  /\ thrown' = IF a > 0 THEN [thrown EXCEPT ![a] = @ + 1] ELSE thrown
  /\ UNCHANGED output

Return(out) ==
  /\ main' = Idle(main.call)
  /\ output' = IF out = 0 THEN output ELSE Append(output, Pic(out).au)
  /\ app' = [app EXCEPT !.tuningIn = @ /\ out = 0]
  /\ UNCHANGED thrown

Fails(c) ==                  \* a CHECK that must not fail: the model goes no further
  /\ check' = c /\ main' = Idle(main.call)
  /\ app' = [app EXCEPT !.state = "stopped"]
  /\ UNCHANGED <<output, thrown>>

-----------------------------------------------------------------------------
(* The parser: DecLibParser::parse of one access unit, by DecLib::decode.  *)
Unit == stream[nextNal]

MayCall == main.pc = "app" /\ Cardinality({s \in Pictures : Pic(s).lockedByApplication}) <= MaxHeld

CallsDecode ==
  /\ MayCall /\ app.state = "decode" /\ nextNal <= Len(stream)
  /\ UNCHANGED <<stream, tryContinue, decLibRecon, errors>>

(* isRandomAccessSkipPicture *)
RandomAccessSkip ==
  /\ Unit.type # "IDR"
  /\ IF pocRandomAccess = NoPoc THEN Unit.type # "CRA"
                                ELSE Unit.type = "RASL" /\ Unit.poc < pocRandomAccess

Available(d, refPics) == {d.pic[s].poc : s \in {r \in refPics : d.pic[r].dpbReferenceMark}}
Missing == Unit.refs \ Available(dpb, dpbReferencePics)

RandomAccessPoc ==
  CASE Unit.type = "IDR" -> AnyPoc
    [] Unit.type # "IDR" /\ pocRandomAccess = NoPoc -> Unit.poc
    [] OTHER -> pocRandomAccess

ParseEOS ==
  /\ CallsDecode /\ Unit.type = "EOS"
  /\ nextNal' = nextNal + 1
  /\ pocRandomAccess' = NoPoc
  /\ dpb' = Restart(dpb)
  /\ main' = [Idle("decode") EXCEPT !.pc = "output"]
  /\ UNCHANGED <<dpbReferencePics, parseFrameList, appVars, check>>

ParseSkipped ==
  /\ CallsDecode /\ Unit.type # "EOS" /\ RandomAccessSkip
  /\ nextNal' = nextNal + 1
  /\ UNCHANGED <<dpb, pocRandomAccess, dpbReferencePics, parseFrameList, main, appVars, check>>

ParseSliceHead ==
  /\ CallsDecode /\ Unit.type # "EOS" /\ ~RandomAccessSkip
  /\ pocRandomAccess' = RandomAccessPoc
  /\ main' = [Idle("decode") EXCEPT !.pc = "refs"]
  /\ UNCHANGED <<nextNal, dpb, dpbReferencePics, parseFrameList, appVars, check>>

(* "missing reference picture poc" *)
ParseMissingRef ==
  /\ main.pc = "refs" /\ Missing # {} /\ ~tryContinue
  /\ nextNal' = nextNal + 1
  /\ ThrowTo(nextNal, "decode")
  /\ UNCHANGED <<stream, tryContinue, pocRandomAccess, dpb, dpbReferencePics, parseFrameList,
                 decLibRecon, errors, check>>

(* prepareUnavailablePicture: a grey picture in place of a lost one        *)
Generated(poc) ==
  [Fresh EXCEPT !.au = -nextNal, !.poc = poc, !.dpbReferenceMark = TRUE, !.stillReferenced = TRUE,
                !.wasLost = TRUE, !.parseDone = "unlocked", !.reconDone = "unlocked",
                !.progress = reconstructed]

HasRoom(d) == Len(d.picList) <= MaxPictures

GenerateRef ==
  LET d == GetNewPicBuffer(dpb)
      s == Last(d.picList)
  IN  /\ main.pc = "refs" /\ tryContinue /\ HasRoom(d)
      /\ \E poc \in Missing : dpb' = [d EXCEPT !.pic[s] = Generated(poc)]
      /\ dpbReferencePics' = dpbReferencePics \cup {s}
      /\ IF s \in dpbReferencePics THEN Fails("reused picture in DPB")
                                   ELSE UNCHANGED <<main, appVars, check>>
      /\ UNCHANGED <<stream, tryContinue, nextNal, pocRandomAccess, parseFrameList, decLibRecon, errors>>

(* applyReferencePictureListBasedMarking: which marks remain               *)
StaysMarked(p) == p.dpbReferenceMark /\ Unit.type # "IDR" /\ (p.poc \in Unit.keep \/ p.poc = Unit.poc)

RefPicsLeftFault == dpbReferencePics          \* fault: unmarked pictures stay in the list

RefPicsLeft == {s \in dpbReferencePics : StaysMarked(Pic(s))}

Marked ==
  [dpb EXCEPT !.pic = [s \in Pictures |->
     [Pic(s) EXCEPT !.dpbReferenceMark = IF s \in dpbReferencePics THEN StaysMarked(Pic(s)) ELSE @]]]

(* xActivateParameterSets and xDecodeSliceHead: the picture before its     *)
(* reference picture lists are constructed                                 *)
NewPicture ==
  [Fresh EXCEPT !.au = nextNal, !.type = Unit.type, !.poc = Unit.poc,
                !.dpbReferenceMark = Unit.isRef, !.stillReferenced = Unit.isRef,
                !.neededForOutput = Unit.output]

NewBuffer == GetNewPicBuffer(Marked)
NewPic    == Last(NewBuffer.picList)

(* "duplicate POC in DPB" and "Picture pointer missing from ref pic list"  *)
ListsBroken ==
  \/ Unit.poc \in Available(Marked, RefPicsLeft)
  \/ Unit.refs # {} /\ ~(Unit.keep \subseteq Available(Marked, RefPicsLeft))

(* "reused picture shouldn't be in decoded picture buffer"                 *)
ReusedInDpb == NewPic \in RefPicsLeft

ParsesPicture ==
  /\ main.pc = "refs" /\ Missing = {} /\ HasRoom(NewBuffer)
  /\ nextNal' = nextNal + 1
  /\ dpbReferencePics' = RefPicsLeft \cup {NewPic}
  /\ UNCHANGED <<stream, tryContinue, pocRandomAccess, decLibRecon, errors>>

Parse ==
  LET refs == {s \in RefPicsLeft : Pic(s).poc \in Unit.refs}
      pic  == [NewPicture EXCEPT !.refs = refs, !.progress = parsing, !.parseTask = "runs"]
  IN  /\ ParsesPicture /\ ~ListsBroken
      /\ dpb' = [NewBuffer EXCEPT !.pic[NewPic] = pic]
      /\ parseFrameList' = Append(parseFrameList, NewPic)
      /\ IF ReusedInDpb THEN Fails("reused picture in DPB")
         ELSE /\ main' = [Idle("decode") EXCEPT !.pc = IF Len(parseFrameList) + 1 > ParseFrameDelay THEN "choose" ELSE @]
              /\ UNCHANGED <<appVars, check>>

(* An exception between getNewPicBuffer and the parse list.                *)
ParseBroken ==
  /\ ParsesPicture /\ ListsBroken
  /\ dpb' = [NewBuffer EXCEPT !.pic[NewPic] =
                [NewPicture EXCEPT !.error = TRUE, !.exceptionThrownOut = TRUE]]
  /\ IF ReusedInDpb THEN Fails("reused picture in DPB") ELSE ThrowTo(nextNal, "decode") /\ UNCHANGED check
  /\ UNCHANGED parseFrameList

-----------------------------------------------------------------------------
(* getNextDecodablePicture: the first picture, when it has been passed     *)
(* over too often, otherwise one that is parsed and has its references.    *)
Decodable(p) ==
  /\ p.parseDone = "unlocked" /\ ~p.wasLost /\ ~p.error
  /\ \A r \in p.refs : Pic(r).progress >= reconstructed

MustBeNext(p) == p.skippedDecCount >= MaxOutOfOrderPics \/ p.error

FirstDecodable ==
  LET i == SelectInSeq(parseFrameList, LAMBDA s : Decodable(Pic(s)))
  IN  IF ParseFrameDelay = 0 \/ MustBeNext(Pic(Head(parseFrameList))) \/ i = 0 THEN 1 ELSE i

Broken(p) == p.error \/ p.wasLost \/ p.parseDone = "failed"

Chosen ==
  /\ main.pc = "choose" /\ parseFrameList # <<>>
  /\ parseFrameList' = RemoveAt(parseFrameList, FirstDecodable)
  /\ dpb' = [dpb EXCEPT !.pic = [s \in Pictures |->
       IF \E i \in 1..(FirstDecodable - 1) : parseFrameList[i] = s
       THEN [Pic(s) EXCEPT !.skippedDecCount = @ + 1] ELSE Pic(s)]]
  /\ UNCHANGED <<parseVars, errors>>

ChooseNone ==
  /\ main.pc = "choose" /\ parseFrameList = <<>>
  /\ GoTo(IF main.call = "decode" THEN "output" ELSE "drain")
  /\ UNCHANGED <<parseVars, dpb, parseFrameList, decLibRecon, appVars, errors, check>>

ChooseBroken ==
  LET s == parseFrameList[FirstDecodable]
  IN  /\ Chosen /\ Broken(Pic(s))
      /\ IF Pic(s).progress >= reconstructing THEN Fails("error picture in reconstructing state")
         ELSE /\ main' = [main EXCEPT !.pc = "sanitize", !.pic = s, !.exc = Pic(s).parseDone = "failed"]
              /\ UNCHANGED <<appVars, check>>
      /\ UNCHANGED decLibRecon

(* reconPicture takes the first DecLibRecon object and moves it to the end *)
ChooseToRecon ==
  LET s == parseFrameList[FirstDecodable]
  IN  /\ Chosen /\ ~Broken(Pic(s))
      /\ IF s \in Range(decLibRecon)
         THEN Fails("picture still in progress in decLibRecon") /\ UNCHANGED decLibRecon
         ELSE /\ main' = [main EXCEPT !.pc = "wait", !.pic = s]
              /\ decLibRecon' = Append(Tail(decLibRecon), Head(decLibRecon))
              /\ UNCHANGED <<appVars, check>>

-----------------------------------------------------------------------------
NoTasks(s) == Pic(s).parseTask = "none" /\ Pic(s).reconTask = "none"

(* Picture::fillGrey opens reconDone, which throws an exception that is    *)
(* set there; then what follows the call in the code does not happen.      *)
FillGrey(p) ==
  [p EXCEPT !.progress = reconstructed, !.reconDone = IF @ = "failed" THEN @ ELSE "unlocked"]

(* finishPicture: the buffer after it, and whether it throws               *)
IsBad(p) == p.wasLost \/ p.error \/ "failed" \in {p.reconDone, p.parseDone}

FinishBad(p) ==
  IF p.reconDone = "failed" THEN FillGrey(p)
  ELSE [FillGrey(p) EXCEPT !.progress = finished,
                           !.error = @ \/ p.parseDone = "failed",
                           !.exceptionThrownOut = @ \/ p.parseDone = "failed"]

FinishThrowsFault(p) == p.reconDone = "failed"   \* fault: the parse task is not asked

FinishThrows(p) == \/ p.reconDone = "failed"
                   \/ p.parseDone = "failed" /\ ~p.exceptionThrownOut

FinishPicture(d, s) ==
  IF IsBad(d.pic[s])
  THEN [dpb |-> [d EXCEPT !.pic[s] = FinishBad(@)], throws |-> FinishThrows(d.pic[s])]
  ELSE [dpb |-> [MarkUnusedPicturesReusable(d) EXCEPT !.pic[s].progress = finished], throws |-> FALSE]

(* sanitizeBrokenPicture: an exception of the parse task that was seen     *)
(* before its end is taken off the picture and thrown afterwards.          *)
Sanitized(p) ==
  LET q == IF main.exc THEN [p EXCEPT !.error = TRUE, !.parseDone = "unlocked"] ELSE p
  IN  FillGrey(q)

Sanitize ==
  LET s == main.pic
      f == FinishPicture([dpb EXCEPT !.pic[s] = Sanitized(@)], s)
      p == f.dpb.pic[s]
  IN  /\ main.pc = "sanitize" /\ NoTasks(s)
      /\ dpb' = IF main.exc THEN [f.dpb EXCEPT !.pic[s].exceptionThrownOut = TRUE] ELSE f.dpb
      /\ IF main.exc /\ p.exceptionThrownOut THEN Fails("exception thrown out already")
         ELSE IF main.exc \/ f.throws THEN ThrowTo(p.au, main.call) /\ UNCHANGED check
         ELSE GoTo("choose") /\ UNCHANGED <<appVars, check>>
      /\ UNCHANGED <<parseVars, parseFrameList, decLibRecon, errors>>

-----------------------------------------------------------------------------
(* waitForPrevDecompressedPic of object i: after an error not before all   *)
(* tasks of the picture are gone                                           *)
PrevIsDoneFault(i) ==                         \* fault: waits for a progress that errors prevent
  decLibRecon[i] # 0 => Pic(decLibRecon[i]).progress >= reconstructed

PrevIsDone(i) ==
  LET p == Pic(decLibRecon[i])
  IN  decLibRecon[i] # 0 =>
        /\ p.reconDone # "locked"
        /\ p.error \/ p.reconDone = "failed" => NoTasks(decLibRecon[i])

Released(d, s) ==
  IF s = 0 THEN d ELSE [d EXCEPT !.pic[s].error = @ \/ d.pic[s].reconDone = "failed"]

(* ... and decompressPicture takes the object for the new picture.         *)
WaitForPrev ==
  /\ main.pc = "wait" /\ PrevIsDone(DecInstances)
  /\ main' = [main EXCEPT !.pc = "start", !.done = decLibRecon[DecInstances]]
  /\ decLibRecon' = [decLibRecon EXCEPT ![DecInstances] = main.pic]
  /\ dpb' = [Released(dpb, decLibRecon[DecInstances]) EXCEPT !.pic[main.pic].progress = reconstructing]
  /\ UNCHANGED <<parseVars, parseFrameList, appVars, errors, check>>

(* borderExtPic waits for the reference pictures, cleans up after those    *)
(* that failed, and adds the CTU tasks.  They cannot be added when the     *)
(* parse task has failed already, and they fail when a reference picture   *)
(* still has its exception.                                                *)
CleanRef(p) ==
  IF p.progress < reconstructed
  THEN [p EXCEPT !.error = TRUE, !.reconDone = "unlocked", !.parseDone = "failed",
                 !.progress = reconstructed]
  ELSE p

RefsOf(s) == Pic(s).refs

StartFails(s) ==
  Pic(s).parseDone = "failed" \/ \E r \in RefsOf(s) : Pic(r).progress >= reconstructed /\ Pic(r).reconDone = "failed"

DecompressPicture ==
  LET s == main.pic
      cleaned == [dpb EXCEPT !.pic = [r \in Pictures |-> IF r \in RefsOf(s) THEN CleanRef(Pic(r)) ELSE Pic(r)]]
  IN  /\ main.pc = "start" /\ \A r \in RefsOf(s) : NoTasks(r)
      /\ dpb' = IF StartFails(s)
                THEN [cleaned EXCEPT !.pic[s].reconDone = "failed", !.pic[s].error = TRUE]
                ELSE [cleaned EXCEPT !.pic[s].reconTask = "runs"]
      /\ IF \E r \in RefsOf(s) : Pic(r).progress < parsing
         THEN Fails("slice parsing should have started")
         ELSE GoTo("finish") /\ UNCHANGED <<appVars, check>>
      /\ UNCHANGED <<parseVars, parseFrameList, decLibRecon, errors>>

AfterRecon == IF main.call = "decode" THEN "output" ELSE "flushOutput"

FinishDone ==
  LET f == FinishPicture(dpb, main.done)
  IN  /\ main.pc = "finish"
      /\ IF main.done = 0 THEN GoTo(AfterRecon) /\ UNCHANGED <<dpb, appVars>>
         ELSE /\ dpb' = f.dpb
              /\ IF f.throws THEN ThrowTo(Pic(main.done).au, main.call)
                             ELSE GoTo(AfterRecon) /\ UNCHANGED appVars
      /\ UNCHANGED <<parseVars, parseFrameList, decLibRecon, errors, check>>

-----------------------------------------------------------------------------
(* The end of decode and the loop of flushPic.                             *)
Output(flush) ==
  LET o == GetNextOutputPic(dpb, flush)
  IN  /\ dpb' = o.dpb /\ Return(o.pic)
      /\ UNCHANGED <<parseVars, parseFrameList, decLibRecon, errors, check>>

NoOutput(pc) ==
  /\ GetNextOutputPic(dpb, FALSE).pic = 0
  /\ dpb' = GetNextOutputPic(dpb, FALSE).dpb
  /\ main' = [main EXCEPT !.pc = pc, !.obj = 1]
  /\ UNCHANGED <<parseVars, parseFrameList, decLibRecon, appVars, errors, check>>

DecodeOutput == main.pc = "output" /\ Output(FALSE)

FlushFinds  == /\ main.pc \in {"flushOutput", "drain", "drained"}
               /\ GetNextOutputPic(dpb, FALSE).pic # 0 /\ Output(FALSE)
FlushGoesOn == main.pc = "flushOutput" /\ NoOutput("choose")
Drain       == main.pc = "drain" /\ NoOutput("block")
DrainAgain  == main.pc = "drained" /\ NoOutput("last")

(* blockAndFinishPictures *)
Block ==
  LET s == decLibRecon[main.obj]
      f == FinishPicture(Released(dpb, s), s)
  IN  /\ main.pc = "block" /\ main.obj <= DecInstances /\ PrevIsDone(main.obj)
      /\ decLibRecon' = [decLibRecon EXCEPT ![main.obj] = 0]
      /\ dpb' = IF s = 0 THEN dpb ELSE f.dpb
      /\ IF s # 0 /\ f.throws THEN ThrowTo(Pic(s).au, main.call)
                              ELSE main' = [main EXCEPT !.obj = @ + 1] /\ UNCHANGED appVars
      /\ UNCHANGED <<parseVars, parseFrameList, errors, check>>

BlockedFault ==                               \* fault: leaves the last object out
  /\ main.pc = "block" /\ main.obj >= DecInstances
  /\ GoTo("drained")
  /\ UNCHANGED <<parseVars, dpb, parseFrameList, decLibRecon, appVars, errors, check>>

Blocked ==
  /\ main.pc = "block" /\ main.obj > DecInstances
  /\ GoTo("drained")
  /\ UNCHANGED <<parseVars, dpb, parseFrameList, decLibRecon, appVars, errors, check>>

FlushLast == main.pc = "last" /\ GetNextOutputPic(dpb, TRUE).pic # 0 /\ Output(TRUE)

(* Nothing is left: the parser state is reset, and the call returns null.  *)
FlushEnds ==
  /\ main.pc = "last" /\ GetNextOutputPic(dpb, TRUE).pic = 0
  /\ dpb' = Restart(dpb) /\ pocRandomAccess' = NoPoc
  /\ main' = Idle("flush")
  /\ app' = [app EXCEPT !.state = "eof"]
  /\ UNCHANGED <<stream, tryContinue, nextNal, dpbReferencePics, parseFrameList, decLibRecon, output, thrown, errors, check>>

-----------------------------------------------------------------------------
(* The application.  It flushes at the end of the stream, or earlier, and  *)
(* calls flush until nothing comes any more.                               *)
Flush ==
  /\ MayCall
  /\ \/ app.state = "flush" /\ UNCHANGED app
     \/ /\ app.state = "decode" /\ nextNal > 1
        /\ nextNal > Len(stream) \/ app.flushes < MaxFlushes
        /\ app' = [app EXCEPT !.state = "flush",
                              !.flushes = IF nextNal > Len(stream) THEN @ ELSE @ + 1]
  /\ main' = [Idle("flush") EXCEPT !.pc = "choose"]
  /\ UNCHANGED <<parseVars, dpb, parseFrameList, decLibRecon, output, thrown, errors, check>>

Release ==
  /\ main.pc = "app"
  /\ \E s \in Range(dpb.picList) :
       Pic(s).lockedByApplication /\ dpb' = ReleasePicture(dpb, s)
  /\ UNCHANGED <<parseVars, parseFrameList, decLibRecon, main, appVars, errors, check>>

(* Decoding goes on after a flush: VVDecImpl::reset releases all pictures. *)
GoOn ==
  /\ main.pc = "app" /\ app.state = "eof" /\ nextNal <= Len(stream)
  /\ app' = [app EXCEPT !.state = "decode", !.tuningIn = TRUE]
  /\ dpb' = [dpb EXCEPT !.pic = [s \in Pictures |-> [Pic(s) EXCEPT !.lockedByApplication = FALSE]]]
  /\ UNCHANGED <<parseVars, parseFrameList, decLibRecon, main, output, thrown, errors, check>>

-----------------------------------------------------------------------------
(* The tasks.  A reconstruction goes on while its picture is parsed.       *)
ParseEnds(s) ==
  /\ Pic(s).parseTask = "runs"
  /\ dpb' = [dpb EXCEPT !.pic[s].parseTask = "none", !.pic[s].parseDone = "unlocked",
                        !.pic[s].progress = IF @ = parsing THEN parsed ELSE @]
  /\ UNCHANGED errors

ParseThrows(s) ==
  /\ Pic(s).parseTask = "runs" /\ errors < MaxErrors
  /\ dpb' = [dpb EXCEPT !.pic[s].parseTask = "throws", !.pic[s].error = TRUE]
  /\ errors' = errors + 1

ParseFailed(s) ==
  /\ Pic(s).parseTask = "throws"
  /\ dpb' = [dpb EXCEPT !.pic[s].parseTask = "none", !.pic[s].parseDone = "failed"]
  /\ UNCHANGED errors

ReconEnds(s) ==
  /\ Pic(s).reconTask = "runs" /\ Pic(s).parseDone = "unlocked"
  /\ dpb' = [dpb EXCEPT !.pic[s].reconTask = "ends", !.pic[s].progress = reconstructed]
  /\ UNCHANGED errors

ReconDone(s) ==
  /\ Pic(s).reconTask = "ends"
  /\ dpb' = [dpb EXCEPT !.pic[s].reconTask = "none", !.pic[s].reconDone = "unlocked"]
  /\ UNCHANGED errors

ReconFails(s) ==
  /\ Pic(s).reconTask = "runs"
  /\ \/ Pic(s).parseDone = "failed" /\ UNCHANGED errors
     \/ errors < MaxErrors /\ errors' = errors + 1
  /\ dpb' = [dpb EXCEPT !.pic[s].reconTask = "none", !.pic[s].reconDone = "failed"]

Task(s) ==
  /\ \/ ParseEnds(s) \/ ParseThrows(s) \/ ParseFailed(s)
     \/ ReconEnds(s) \/ ReconDone(s) \/ ReconFails(s)
  /\ UNCHANGED <<parseVars, parseFrameList, decLibRecon, main, appVars, check>>

Call == Flush \/ Release \/ GoOn \/ ParseEOS \/ ParseSkipped \/ ParseSliceHead

Main ==
  \/ ParseMissingRef \/ GenerateRef \/ Parse \/ ParseBroken
  \/ ChooseNone \/ ChooseBroken \/ ChooseToRecon \/ Sanitize
  \/ WaitForPrev \/ DecompressPicture \/ FinishDone
  \/ DecodeOutput \/ FlushFinds \/ FlushGoesOn \/ Drain \/ Block \/ Blocked \/ DrainAgain
  \/ FlushLast \/ FlushEnds

Tasks == \E s \in Pictures : Task(s)

Next == Call \/ Main \/ Tasks

(* A call that can go on does, and as long as there are tasks one of them  *)
(* goes on: that is what the thread pool gives.  The application is free.  *)
Spec == Init /\ [][Next]_vars /\ WF_vars(Main) /\ WF_vars(Tasks)

-----------------------------------------------------------------------------
(* A picture is started after the pictures it refers to have left the      *)
(* parse list, however pictures overtake each other there: their tasks are *)
(* there to be waited for.  They have been begun, but for those whose      *)
(* slice header failed.                                                    *)
StartsAfterReferences ==
  main.pc = "start" =>
    \A r \in RefsOf(main.pic) :
      /\ r \notin Range(parseFrameList)
      /\ Pic(r).progress < parsing => Pic(r).progress = init /\ Pic(r).error

(* None of the CHECKs fails with which the code guards the life of its     *)
(* Picture objects.  They are: a picture that is reused is in no           *)
(* DecLibRecon object and not in the reference buffer, a picture that is   *)
(* reconstructed was not begun before, no error is handled twice.  Only    *)
(* the one about the header of a reference picture may, for a broken one.  *)
BufferChecksHold ==
  /\ check \in {"none", "slice parsing should have started"}
  /\ StartsAfterReferences

(* That one does not fail either: what is referred to has been parsed.     *)
ChecksHold == check = "none"

(* An exception about an access unit leaves the library at most once, and  *)
(* at the end of the stream every picture with an error has been reported. *)
ErrorsReportedOnce ==
  /\ \A a \in DOMAIN thrown : thrown[a] <= 1
  /\ app.state = "eof" =>
       \A s \in Range(dpb.picList) : Pic(s).error /\ Pic(s).au > 0 => thrown[Pic(s).au] = 1

(* When flush reports the end of the stream every picture has been output. *)
Drained == app.state = "eof" => \A s \in Range(dpb.picList) : ~Pic(s).neededForOutput

(* What is left then waits behind a picture that never was finished: one   *)
(* whose slice header failed, or whose reconstruction failed.              *)
Stuck(p) == p.error /\ p.progress < finished /\ (p.progress = init \/ p.reconDone = "failed")

WithheldOnlyBehindStuck ==
  app.state = "eof" =>
    \A i \in DOMAIN dpb.picList :
      Pic(dpb.picList[i]).neededForOutput => \E j \in 1..i : Stuck(Pic(dpb.picList[j]))

(* A Picture object gets a new access unit only when nobody works on the   *)
(* old one, refers to it, still has to output it, or shows it.             *)
Reads(t) == \/ Pic(t).progress \in parsing..reconstructing
            \/ Pic(t).parseTask # "none" \/ Pic(t).reconTask = "runs"

InUse(s) ==
  \/ ~NoTasks(s) \/ s \in Range(decLibRecon) \cup Range(parseFrameList)
  \/ Pic(s).lockedByApplication \/ Pic(s).neededForOutput
  \/ \E t \in Range(dpb.picList) : s \in Pic(t).refs /\ Reads(t)

ReuseSafe ==
  [][\A s \in Range(dpb.picList) : dpb'.pic[s].au # Pic(s).au => ~InUse(s)]_vars

(* The pictures that come out are access units of the input, each of them  *)
(* once and in display order, whatever order they are finished in.         *)
Player == INSTANCE OutputOrder WITH units <- stream, delivered <- output
KeepsOrder == Player!OSpec

(* Every call returns, also those that wait for a broken picture.          *)
CallsReturn == main.pc # "app" ~> main.pc = "app"
=============================================================================
