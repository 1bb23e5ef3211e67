----------------------------- MODULE VVDecImpl -----------------------------
(***************************************************************************)
(* The API object behind vvdec_decode, vvdec_flush and vvdec_frame_unref:  *)
(* its state machine, and the list of frames between DecLib, which locks a *)
(* Picture for every frame, and the application, which gives frames back   *)
(* in any order.  Calls do not overlap.                                    *)
(*                                                                         *)
(* DecLib is what VVDecImpl can tell of it: it holds pictures, gives out   *)
(* at most one per NAL unit and one per flushPic, and may throw.  After an *)
(* exception it may keep a picture that is never finished and that holds   *)
(* back those behind it (WithheldOnlyBehindStuck of DecLib).               *)
(***************************************************************************)
EXTENDS Integers, Sequences

CONSTANTS
  MaxPictures,    \* bound: pictures in the input
  MaxNals,        \* bound: NAL units in an access unit
  MaxErrors,      \* bound: exceptions
  TryContinue,    \* ERR_HANDLING_TRY_CONTINUE
  CopiedPictures, \* pictures that are copied, as they have 8 bits or get film grain
  BadPictures     \* pictures that cannot be added, as xAddPicture fails or throws

ASSUME ApiAssumption ==
  /\ {MaxPictures, MaxNals, MaxErrors} \subseteq Nat
  /\ TryContinue \in BOOLEAN
  /\ CopiedPictures \subseteq 1..MaxPictures /\ BadPictures \subseteq 1..MaxPictures

VARIABLES
  state,        \* m_eState
  frameList,    \* m_rcFrameList, in the order of the sequence numbers
  frameNext,    \* m_pcFrameNext: a sequence number in the list, or End
  seqNumber,    \* m_uiSeqNumber
  seqNumOutput, \* m_uiSeqNumOutput
  call,         \* the call that runs: pc, its remaining NAL units, an error of xAddPicture,
                \* and its result
  fed,          \* pictures that were put into DecLib
  given,        \* pictures that DecLib has given out, the last of them has this number
  locked,       \* lockedByApplication: pictures that DecLib may not reuse
  errors,       \* exceptions of DecLib so far
  stuck,        \* one of them may have left a picture in DecLib that is never finished
  handedOut,    \* sequence numbers handed out since the last reset
  held          \* those the application has not given back

decLibVars == <<fed, given, locked, errors, stuck>>
listVars   == <<frameList, frameNext, seqNumber, seqNumOutput>>
appVars    == <<handedOut, held>>
vars == <<state, listVars, call, decLibVars, appVars>>

States == {"UNINITIALIZED", "INITIALIZED", "TUNING_IN", "DECODING", "FLUSHING", "FINALIZED",
           "RESTART_REQUIRED", "NOT_SUPPORTED"}

End == -1

Numbers == {f.num : f \in frameList}
Smallest(S) == CHOOSE n \in S : \A m \in S : n <= m
FirstAfter(S, n) == IF \E m \in S : m > n THEN Smallest({m \in S : m > n}) ELSE End

Idle(ret) == [pc |-> "app", nals |-> 0, failed |-> FALSE, ret |-> ret]
GoTo(pc)  == call' = [call EXCEPT !.pc = pc]
Returns(ret) == call' = Idle(ret)

Init ==
  /\ state = "UNINITIALIZED"
  /\ frameList = {} /\ frameNext = End /\ seqNumber = 0 /\ seqNumOutput = 0
  /\ call = Idle("OK")
  /\ fed = 0 /\ given = 0 /\ locked = {} /\ errors = 0 /\ stuck = FALSE
  /\ handedOut = <<>> /\ held = {}

-----------------------------------------------------------------------------
Open ==
  /\ call.pc = "app" /\ state = "UNINITIALIZED"
  /\ state' = "INITIALIZED" /\ seqNumber' = 0 /\ seqNumOutput' = 0
  /\ Returns("OK")
  /\ UNCHANGED <<frameList, frameNext, decLibVars, appVars>>

(* reset frees all frames, also those the application holds.               *)
ClearFrames ==
  /\ frameList' = {} /\ frameNext' = End /\ seqNumber' = 0 /\ seqNumOutput' = 0
  /\ handedOut' = <<>> /\ held' = {}

(* flushPic gives no picture.                                              *)
NothingComes == given = fed \/ stuck

(* Before, reset flushes DecLib, if the state allows it: until nothing     *)
(* comes, or until an exception, which is told to nobody, or a call of     *)
(* flush in which a picture cannot be added.                               *)
ResetFlushes ==
  IF state \in {"TUNING_IN", "DECODING", "FLUSHING"}
  THEN /\ given' \in given..fed
       /\ \/ (given' = fed \/ stuck) /\ UNCHANGED <<errors, stuck>>
          \/ errors < MaxErrors /\ errors' = errors + 1 /\ stuck' \in {stuck, TRUE}
          \/ BadPictures \cap (given + 1)..given' # {} /\ UNCHANGED <<errors, stuck>>
  ELSE UNCHANGED <<given, errors, stuck>>

Reset ==
  /\ ClearFrames /\ ResetFlushes
  /\ locked' = (locked \ {f.pic : f \in frameList}) \cup (BadPictures \cap (given + 1)..given')
  /\ UNCHANGED fed

(* uninit destroys DecLib with the pictures in it.                         *)
Close ==
  /\ call.pc = "app" /\ state # "UNINITIALIZED"
  /\ ClearFrames
  /\ given' = fed /\ locked' = {} /\ stuck' = FALSE /\ UNCHANGED <<fed, errors>>
  /\ state' = "UNINITIALIZED" /\ Returns("OK")

-----------------------------------------------------------------------------
(* xAddPicture                                                             *)
Entry(p) == [num |-> seqNumber, pic |-> IF p \in CopiedPictures THEN 0 ELSE p]

NextAfterAddFault(list) ==                    \* fault: may find what was handed out already
  IF frameNext # End THEN frameNext
  ELSE IF seqNumber = 0 THEN Smallest({f.num : f \in list})
  ELSE FirstAfter({f.num : f \in list}, seqNumOutput - 1)

NextAfterAdd(list) ==
  IF frameNext # End THEN frameNext
  ELSE IF seqNumber = 0 THEN Smallest({f.num : f \in list})
  ELSE FirstAfter({f.num : f \in list}, seqNumOutput)

AddPicture(p) ==
  IF p \in BadPictures
  THEN /\ locked' = locked \cup {p} /\ UNCHANGED listVars
  ELSE /\ frameList' = frameList \cup {Entry(p)}
       /\ frameNext' = NextAfterAdd(frameList')
       /\ seqNumber' = seqNumber + 1 /\ UNCHANGED seqNumOutput
       /\ locked' = IF p \in CopiedPictures THEN locked ELSE locked \cup {p}

(* xHandleOutput of the next picture                                       *)
HandleOutput ==
  /\ given' = given + 1
  /\ AddPicture(given + 1)
  /\ state' = IF state = "TUNING_IN" THEN "DECODING" ELSE state

NoPicture == UNCHANGED <<given, locked, listVars, state>>

(* What is handed out to the application: the next frame of the list.      *)
HandOut ==
  /\ seqNumOutput' = frameNext
  /\ frameNext' = FirstAfter(Numbers, frameNext)
  /\ handedOut' = Append(handedOut, frameNext) /\ held' = held \cup {frameNext}
  /\ UNCHANGED <<frameList, seqNumber>>

(* An exception of DecLib that leaves decode or flush: one that decoding   *)
(* may survive and does, any other, and one for a feature that is not      *)
(* supported.  It may leave a picture in DecLib that is never finished.    *)
Throws(goOn) ==
  /\ errors < MaxErrors /\ errors' = errors + 1 /\ stuck' \in {stuck, TRUE}
  /\ \/ goOn /\ Returns("ERR_DEC_INPUT") /\ UNCHANGED state
     \/ Returns("ERR_RESTART_REQUIRED") /\ state' = "RESTART_REQUIRED"
     \/ Returns("ERR_NOT_SUPPORTED") /\ state' = "NOT_SUPPORTED"
  /\ UNCHANGED <<listVars, given, locked, appVars>>

-----------------------------------------------------------------------------
MayDecode == call.pc = "app" /\ state \notin {"UNINITIALIZED", "RESTART_REQUIRED", "NOT_SUPPORTED"}

(* A call of decode: with wrong arguments, with NAL units, or an empty one *)
DecodeCall ==
  /\ MayDecode
  /\ state' = IF state \in {"FLUSHING", "FINALIZED", "INITIALIZED"} THEN "TUNING_IN" ELSE state
  /\ \/ Returns("ERR_DEC_INPUT")
     \/ \E n \in 1..MaxNals : call' = [Idle("OK") EXCEPT !.pc = "decode", !.nals = n]
     \/ call' = [Idle("OK") EXCEPT !.pc = "decodeEmpty"]
  /\ IF state \in {"FLUSHING", "FINALIZED"}
     THEN Reset
     ELSE UNCHANGED <<listVars, decLibVars, appVars>>

(* A NAL unit may be that of a new picture.                                *)
Feeds == fed' \in {fed, fed + 1} /\ fed' <= MaxPictures

DecodeNal ==
  /\ call.pc = "decode" /\ call.nals > 0
  /\ \/ NoPicture /\ Returns("ERR_UNSPECIFIED")          \* the NAL unit cannot be read
        /\ UNCHANGED fed
     \/ /\ Feeds /\ given < fed' /\ HandleOutput
        /\ IF given + 1 \in BadPictures THEN Returns("ERR_UNSPECIFIED")
                                        ELSE call' = [call EXCEPT !.nals = @ - 1]
     \/ /\ Feeds /\ NoPicture /\ call' = [call EXCEPT !.nals = @ - 1]
  /\ UNCHANGED <<errors, stuck, appVars>>

DecodeThrows ==
  /\ \/ call.pc = "decode" /\ call.nals > 0 /\ Feeds
     \/ call.pc = "decodeEmpty" /\ UNCHANGED fed
  /\ Throws(state = "TUNING_IN" \/ TryContinue)

DecodeReturns ==
  /\ call.pc = "decode" /\ call.nals = 0
  /\ IF frameNext = End
     THEN /\ UNCHANGED <<listVars, appVars>>
          /\ Returns("TRY_AGAIN") \/ Returns("OK")      \* OK if no NAL unit was of a slice
     ELSE HandOut /\ Returns("OK")
  /\ UNCHANGED <<state, decLibVars>>

(* An empty access unit flushes DecLib, and says EOF in any case.          *)
DecodeEmpty ==
  /\ call.pc = "decodeEmpty"
  /\ \/ given < fed /\ HandleOutput /\ GoTo("emptyReturns")
     \/ NothingComes /\ NoPicture /\ Returns("EOF")
  /\ UNCHANGED <<fed, errors, stuck, appVars>>

EmptyReturns ==
  /\ call.pc = "emptyReturns"
  /\ Returns("EOF")
  /\ IF frameNext = End THEN UNCHANGED <<listVars, appVars>> ELSE HandOut
  /\ UNCHANGED <<state, decLibVars>>

-----------------------------------------------------------------------------
FlushCall ==
  /\ call.pc = "app" /\ state \in {"TUNING_IN", "DECODING", "FLUSHING"}
  /\ state' = "FLUSHING" /\ call' = [Idle("OK") EXCEPT !.pc = "flush"]
  /\ UNCHANGED <<listVars, decLibVars, appVars>>

(* flushPic until something is in the list or nothing comes from DecLib    *)
FlushPic ==
  /\ call.pc = "flush"
  /\ \/ /\ given < fed /\ HandleOutput
        /\ call' = [call EXCEPT !.pc = IF frameList' = {} THEN "flush" ELSE "flushReturns",
                                !.failed = @ \/ given + 1 \in BadPictures]
     \/ NothingComes /\ NoPicture /\ GoTo("flushReturns")
  /\ UNCHANGED <<fed, errors, stuck, appVars>>

FlushThrows == call.pc = "flush" /\ Throws(TryContinue) /\ UNCHANGED fed

(* An exception inside xAddPicture: the picture has come out of DecLib and *)
(* no frame is made of it.                                                 *)
AddThrows ==
  /\ \/ call.pc = "decode" /\ call.nals > 0 /\ Feeds
     \/ call.pc \in {"decodeEmpty", "flush"} /\ UNCHANGED fed
  /\ given < fed' /\ given' = given + 1 /\ given' \in BadPictures
  /\ locked' = locked \cup {given'}
  /\ \/ /\ TryContinue /\ Returns("ERR_DEC_INPUT")
        /\ state' = IF state = "TUNING_IN" THEN "DECODING" ELSE state
     \/ Returns("ERR_RESTART_REQUIRED") /\ state' = "RESTART_REQUIRED"
  /\ UNCHANGED <<listVars, errors, stuck, appVars>>

FlushReturnsFault ==                          \* fault: the last frame ends the stream
  /\ call.pc = "flushReturns"
  /\ IF frameNext = End THEN UNCHANGED <<listVars, appVars>> ELSE HandOut
  /\ IF frameNext = End \/ call.failed \/ frameNext = seqNumber - 1
     THEN state' = "FINALIZED" /\ Returns("EOF")
     ELSE UNCHANGED state /\ Returns("OK")
  /\ UNCHANGED decLibVars

NeverEofFault ==                              \* fault: no EOF while the application holds a frame
  /\ call.pc = "flushReturns"
  /\ IF frameNext = End THEN UNCHANGED <<listVars, appVars>> ELSE HandOut
  /\ IF frameList = {} \/ call.failed
     THEN state' = "FINALIZED" /\ Returns("EOF")
     ELSE UNCHANGED state /\ Returns("OK")
  /\ UNCHANGED decLibVars

FlushReturns ==
  /\ call.pc = "flushReturns"
  /\ IF frameNext = End THEN UNCHANGED <<listVars, appVars>> ELSE HandOut
  /\ IF frameNext = End \/ call.failed
     THEN state' = "FINALIZED" /\ Returns("EOF")
     ELSE UNCHANGED state /\ Returns("OK")
  /\ UNCHANGED decLibVars

(* objectUnref of a frame that was handed out                              *)
UnrefFault ==                                 \* fault: the picture stays locked
  /\ call.pc = "app" /\ state # "UNINITIALIZED"
  /\ \E f \in frameList :
       /\ f.num \in held
       /\ frameList' = frameList \ {f} /\ held' = held \ {f.num}
  /\ Returns("OK")
  /\ UNCHANGED <<state, frameNext, seqNumber, seqNumOutput, decLibVars, handedOut>>

Unref ==
  /\ call.pc = "app" /\ state # "UNINITIALIZED"
  /\ \E f \in frameList :
       /\ f.num \in held
       /\ frameList' = frameList \ {f} /\ held' = held \ {f.num}
       /\ locked' = locked \ {f.pic}
  /\ Returns("OK")
  /\ UNCHANGED <<state, frameNext, seqNumber, seqNumOutput, fed, given, errors, stuck, handedOut>>

Flushes == FlushCall \/ FlushPic \/ FlushThrows \/ FlushReturns

Runs == DecodeNal \/ DecodeThrows \/ DecodeReturns \/ DecodeEmpty \/ EmptyReturns

Next == Open \/ Close \/ DecodeCall \/ Runs \/ Flushes \/ AddThrows \/ Unref

(* Calls return; an application that has begun to flush goes on until EOF. *)
Spec == Init /\ [][Next]_vars /\ WF_vars(Runs) /\ WF_vars(Flushes /\ state = "FLUSHING")
-----------------------------------------------------------------------------
Calls ==
  [pc : {"app", "decode", "decodeEmpty", "emptyReturns", "flush", "flushReturns"},
   nals : 0..MaxNals, failed : BOOLEAN,
   ret : {"OK", "TRY_AGAIN", "EOF", "ERR_DEC_INPUT", "ERR_UNSPECIFIED", "ERR_RESTART_REQUIRED",
          "ERR_NOT_SUPPORTED"}]

TypeOK ==
  /\ state \in States
  /\ \A f \in frameList : f.num \in Nat /\ f.pic \in 0..MaxPictures
  /\ frameNext \in Nat \cup {End} /\ seqNumber \in Nat /\ seqNumOutput \in Nat
  /\ call \in Calls
  /\ fed \in 0..MaxPictures /\ given \in 0..fed /\ locked \subseteq 1..MaxPictures
  /\ errors \in 0..MaxErrors /\ stuck \in BOOLEAN
  /\ handedOut \in Seq(Nat) /\ held \subseteq Nat

(* Whatever calls the application mixes and whatever fails, every frame is *)
(* handed out once and in order: m_pcFrameNext, which is found again from  *)
(* m_uiSeqNumOutput when the list had run out, neither skips a frame nor   *)
(* comes back to one that the application still holds.                     *)
InOrder == \A i \in 1..Len(handedOut) : handedOut[i] = i - 1

(* When flush says EOF every frame was handed out, and every picture has   *)
(* come out of DecLib or waits there for one that an exception has left    *)
(* unfinished.  A call in which a picture cannot be added says EOF early.  *)
EofIsTheEnd ==
  state = "FINALIZED" /\ BadPictures \cap 1..given = {}
    => (given = fed \/ stuck) /\ Len(handedOut) = seqNumber

(* The pictures DecLib may not reuse are those of the frames in the list:  *)
(* no buffer of a frame can be overwritten and none is lost, except that a *)
(* picture that could not be added stays locked.                           *)
LocksMatch == locked \ BadPictures = {f.pic : f \in frameList} \ {0}

(* An application that calls flush until it says EOF comes to an end, even *)
(* if it gives no frame back before.                                       *)
FlushEnds == state = "FLUSHING" ~> state # "FLUSHING"
=============================================================================
