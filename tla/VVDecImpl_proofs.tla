-------------------------- MODULE VVDecImpl_proofs --------------------------
(***************************************************************************)
(* Proofs about VVDecImpl, for streams of any length and any distribution  *)
(* of errors: frames are handed out once and in order, and EOF of flush    *)
(* leaves none behind that can come.                                       *)
(*                                                                         *)
(* The argument: frames from m_pcFrameNext on are all in the list, as only *)
(* frames that were handed out can be given back; and m_pcFrameNext is the *)
(* end of the list only when every number has been handed out, so that a   *)
(* frame that is added then is the only one after m_uiSeqNumOutput.        *)
(***************************************************************************)
EXTENDS VVDecImpl, SequenceTheorems, TLAPS

Out == Len(handedOut)

ListInv ==
  /\ Numbers \subseteq 0..(seqNumber - 1)
  /\ IF frameNext = End
     THEN Out = seqNumber
     ELSE frameNext = Out /\ Out < seqNumber /\ Out..(seqNumber - 1) \subseteq Numbers
  /\ Out > 0 => seqNumOutput = Out - 1
  /\ held \subseteq 0..(Out - 1)
  /\ state = "UNINITIALIZED" => seqNumber = 0

(* TypeOK in two parts: the list of frames, and the rest.                  *)
ListType ==
  /\ \A f \in frameList : f.num \in Nat /\ f.pic \in 0..MaxPictures
  /\ frameNext \in Nat \cup {End} /\ seqNumber \in Nat /\ seqNumOutput \in Nat
  /\ handedOut \in Seq(Nat) /\ held \subseteq Nat

CallsType ==
  /\ state \in States /\ call \in Calls
  /\ fed \in 0..MaxPictures /\ given \in 0..fed /\ locked \subseteq 1..MaxPictures
  /\ errors \in 0..MaxErrors /\ stuck \in BOOLEAN

EofInv ==
  /\ call.failed => BadPictures \cap 1..given # {}
  /\ call.pc = "flush" => state = "FLUSHING"
  /\ call.pc = "flushReturns" => state = "FLUSHING" /\ (frameNext # End \/ call.failed \/ NothingComes)
  /\ call.pc \in {"decode", "decodeEmpty", "emptyReturns"} => state \in {"TUNING_IN", "DECODING"}

IndInv == TypeOK /\ ListInv /\ InOrder /\ EofInv /\ EofIsTheEnd

-----------------------------------------------------------------------------
(* What the search for the next frame finds.                               *)
LEMMA SmallestIs ==
  ASSUME NEW S \in SUBSET Int, NEW n \in S, \A m \in S : n <= m
  PROVE  Smallest(S) = n
<1>1. PICK c \in S : c = Smallest(S) /\ \A m \in S : c <= m
  BY DEF Smallest
<1>2. n \in Int /\ c \in Int
  OBVIOUS
<1>3. c <= n /\ n <= c
  BY <1>1
<1>4. c = n
  BY <1>2, <1>3
<1> QED BY <1>1, <1>4

LEMMA FirstAfterIs ==
  ASSUME NEW S \in SUBSET Int, NEW n \in Int
  PROVE  /\ n + 1 \in S => FirstAfter(S, n) = n + 1
         /\ (\A m \in S : m <= n) => FirstAfter(S, n) = End
<1> DEFINE T == {m \in S : m > n}
<1>1. ASSUME n + 1 \in S PROVE FirstAfter(S, n) = n + 1
  <2>1. \A m \in T : m \in Int /\ n + 1 <= m
    OBVIOUS
  <2>2. n + 1 \in T
    BY <1>1
  <2>3. FirstAfter(S, n) = Smallest(T)
    BY <2>2 DEF FirstAfter
  <2> HIDE DEF T
  <2> QED BY <2>1, <2>2, <2>3, SmallestIs
<1>2. ASSUME \A m \in S : m <= n PROVE FirstAfter(S, n) = End
  <2>1. ~ \E m \in S : m > n
    BY <1>2
  <2> QED BY <2>1 DEF FirstAfter
<1> QED BY <1>1, <1>2

-----------------------------------------------------------------------------
(* A frame that is added becomes the next one if all were handed out.      *)
LEMMA AddKeeps ==
  ASSUME IndInv, NEW p \in 1..MaxPictures, AddPicture(p), UNCHANGED appVars,
         state # "UNINITIALIZED", state' # "UNINITIALIZED"
  PROVE  /\ ListInv' /\ InOrder' /\ ListType'
         /\ locked' \subseteq locked \cup {p}
         /\ p \notin BadPictures => frameNext' # End
<1> USE DEF IndInv, TypeOK, ListType, listVars, appVars
<1>1. CASE p \in BadPictures
  BY <1>1 DEF AddPicture, ListInv, InOrder, Numbers, Out
<1>2. CASE p \notin BadPictures
  <2>1. /\ frameList' = frameList \cup {Entry(p)}
        /\ seqNumber' = seqNumber + 1 /\ UNCHANGED <<seqNumOutput, handedOut, held>>
        /\ frameNext' = NextAfterAdd(frameList') /\ locked' \subseteq locked \cup {p}
    BY <1>2 DEF AddPicture
  <2>2. Numbers' = Numbers \cup {seqNumber} /\ Numbers' = {f.num : f \in frameList'}
    <3>1. Entry(p).num = seqNumber
      BY DEF Entry
    <3> QED BY <2>1, <3>1 DEF Numbers
  <2>3. Numbers \subseteq 0..(seqNumber - 1) /\ Out \in Nat
    BY DEF ListInv, Out
  <2>4. frameNext' = Out /\ Out..seqNumber \subseteq Numbers'
    <3>1. CASE frameNext # End
      BY <3>1, <2>1, <2>2, <2>3 DEF NextAfterAdd, ListInv
    <3>2. CASE frameNext = End /\ seqNumber = 0
      <4>1. Numbers' = {0} /\ Out = 0
        <5>1. 0..(seqNumber - 1) = {}
          BY <3>2
        <5>2. Numbers = {}
          BY <5>1, <2>3
        <5> QED BY <5>2, <3>2, <2>2 DEF ListInv
      <4>2. Smallest({0}) = 0
        <5>1. {0} \in SUBSET Int /\ 0 \in {0} /\ \A m \in {0} : 0 <= m
          OBVIOUS
        <5> QED BY <5>1, SmallestIs
      <4>3. frameNext' = Smallest(Numbers')
        BY <3>2, <2>1, <2>2 DEF NextAfterAdd
      <4> QED BY <4>1, <4>2, <4>3, <3>2
    <3>3. CASE frameNext = End /\ seqNumber # 0
      <4>1. Out = seqNumber /\ seqNumOutput = seqNumber - 1
        BY <3>3 DEF ListInv
      <4>2. frameNext' = FirstAfter(Numbers', seqNumber - 1)
        BY <3>3, <4>1, <2>1, <2>2 DEF NextAfterAdd
      <4>3. Numbers' \in SUBSET Int /\ (seqNumber - 1) + 1 \in Numbers'
        BY <2>2, <2>3
      <4>4. frameNext' = (seqNumber - 1) + 1
        BY <4>2, <4>3, FirstAfterIs
      <4> QED BY <4>1, <4>4, <2>2
    <3> QED BY <3>1, <3>2, <3>3
  <2>5. Out <= seqNumber /\ (Out > 0 => seqNumOutput = Out - 1) /\ held \subseteq 0..(Out - 1)
    BY <2>3 DEF ListInv
  <2>6. Out' = Out /\ InOrder'
    BY <2>1 DEF Out, InOrder
  <2>7. ListInv'
    BY <2>1, <2>2, <2>3, <2>4, <2>5, <2>6 DEF ListInv, End
  <2>8. \A f \in frameList' : f.num \in Nat /\ f.pic \in 0..MaxPictures
    <3>1. Entry(p).num \in Nat /\ Entry(p).pic \in 0..MaxPictures
      <4>1. MaxPictures \in Nat
        BY ApiAssumption
      <4>2. Entry(p).num = seqNumber /\ Entry(p).pic = IF p \in CopiedPictures THEN 0 ELSE p
        BY DEF Entry
      <4> QED BY <4>1, <4>2
    <3>2. \A f \in frameList' : f \in frameList \/ f = Entry(p)
      BY <2>1
    <3> QED BY <3>1, <3>2
  <2> QED BY <2>1, <2>3, <2>4, <2>6, <2>7, <2>8 DEF End
<1> QED BY <1>1, <1>2

(* Handing out the next frame leaves the next but one to be the next.      *)
LEMMA HandOutKeeps ==
  ASSUME IndInv, HandOut, frameNext # End, state # "UNINITIALIZED", state' # "UNINITIALIZED"
  PROVE  ListInv' /\ InOrder' /\ ListType'
<1> USE DEF IndInv, TypeOK
<1>1. /\ frameNext = Out /\ Out \in Nat /\ Out < seqNumber /\ seqNumber \in Nat
      /\ Out..(seqNumber - 1) \subseteq Numbers /\ Numbers \subseteq 0..(seqNumber - 1)
  BY DEF ListInv, Out
<1>2. /\ Numbers' = Numbers /\ seqNumber' = seqNumber
      /\ frameNext' = FirstAfter(Numbers, Out) /\ seqNumOutput' = Out
      /\ handedOut' = Append(handedOut, Out) /\ held' = held \cup {Out}
  BY <1>1 DEF HandOut, Numbers
<1>3. Out' = Out + 1 /\ handedOut' \in Seq(Nat) /\ handedOut'[Out + 1] = Out
      /\ \A i \in 1..Out : handedOut'[i] = handedOut[i]
  BY <1>1, <1>2 DEF Out
<1>4. InOrder'
  <2>1. \A i \in 1..Out : handedOut[i] = i - 1
    BY DEF InOrder, Out
  <2>2. \A i \in 1..(Out + 1) : i \in 1..Out \/ i = Out + 1
    BY <1>1
  <2>3. \A i \in 1..(Out + 1) : handedOut'[i] = i - 1
    <3>1. TAKE i \in 1..(Out + 1)
    <3>2. CASE i \in 1..Out
      BY <3>2, <1>3, <2>1
    <3>3. CASE i = Out + 1
      BY <3>3, <1>1, <1>3
    <3> QED BY <3>2, <3>3, <2>2
  <2> QED BY <1>3, <2>3 DEF InOrder, Out
<1>5. IF Out + 1 = seqNumber THEN frameNext' = End
                             ELSE frameNext' = Out + 1 /\ Out + 1 < seqNumber
  BY <1>1, <1>2, FirstAfterIs
<1>6. held \subseteq 0..(Out - 1)
  BY DEF ListInv
<1>7. ListInv'
  BY <1>1, <1>2, <1>3, <1>5, <1>6 DEF ListInv, End
<1>8. ListType'
  BY <1>1, <1>2, <1>3, <1>5 DEF HandOut, ListType, End
<1> QED BY <1>4, <1>7, <1>8

LEMMA ClearKeeps ==
  ASSUME ClearFrames
  PROVE  ListInv' /\ InOrder' /\ ListType'
<1>1. /\ frameList' = {} /\ frameNext' = End /\ seqNumber' = 0 /\ seqNumOutput' = 0
      /\ handedOut' = <<>> /\ held' = {}
  BY DEF ClearFrames
<1>2. Numbers' = {} /\ Out' = 0
  BY <1>1 DEF Numbers, Out
<1> QED BY <1>1, <1>2 DEF ListInv, InOrder, ListType, Out, End

-----------------------------------------------------------------------------
LEMMA IdleType ==
  ASSUME NEW r \in {"OK", "TRY_AGAIN", "EOF", "ERR_DEC_INPUT", "ERR_UNSPECIFIED",
                    "ERR_RESTART_REQUIRED", "ERR_NOT_SUPPORTED"}
  PROVE  Idle(r) \in Calls /\ Idle(r).pc = "app" /\ Idle(r).failed = FALSE
<1>1. 0 \in 0..MaxNals
  BY ApiAssumption
<1> QED BY <1>1 DEF Idle, Calls

LEMMA IdleIs ==
  ASSUME NEW r \in {"OK", "TRY_AGAIN", "EOF", "ERR_DEC_INPUT", "ERR_UNSPECIFIED",
                    "ERR_RESTART_REQUIRED", "ERR_NOT_SUPPORTED"}, Returns(r)
  PROVE  call' \in Calls /\ call'.pc = "app" /\ call'.failed = FALSE
BY IdleType DEF Returns

LEMMA InitInd == Init => IndInv
<1> SUFFICES ASSUME Init PROVE IndInv
  OBVIOUS
<1>1. call \in Calls /\ call.pc = "app" /\ call.failed = FALSE
  BY ApiAssumption DEF Init, Idle, Calls
<1>2. TypeOK
  <2>1. stuck \in BOOLEAN
    BY Zenon DEF Init
  <2> QED BY <1>1, <2>1, ApiAssumption DEF Init, TypeOK, States, End
<1>3. ListInv /\ InOrder
  BY DEF Init, ListInv, InOrder, Numbers, Out, End
<1>4. EofInv /\ EofIsTheEnd
  BY <1>1 DEF Init, EofInv, EofIsTheEnd
<1> QED BY <1>2, <1>3, <1>4 DEF IndInv

(* What an exception leaves behind.                                        *)
LEMMA StuckIs ==
  ASSUME stuck \in BOOLEAN, stuck' \in {stuck, TRUE}
  PROVE  stuck' \in BOOLEAN
BY Zenon

(* What the list and the frames depend on is left alone.                   *)
LEMMA ListRests ==
  ASSUME IndInv, UNCHANGED <<listVars, appVars>>,
         state = "UNINITIALIZED" \/ state' # "UNINITIALIZED"
  PROVE  ListInv' /\ InOrder' /\ ListType'
<1>1. ListType' /\ Numbers' = Numbers /\ Out' = Out
  BY DEF IndInv, TypeOK, ListType, Numbers, Out, listVars, appVars
<1>2. InOrder'
  BY DEF IndInv, InOrder, listVars, appVars
<1>3. ListInv'
  BY <1>1 DEF IndInv, ListInv, listVars, appVars
<1> QED BY <1>1, <1>2, <1>3

(* A picture from DecLib.                                                  *)
LEMMA OutputKeeps ==
  ASSUME IndInv, HandleOutput, UNCHANGED appVars, given < fed', fed' \in fed..MaxPictures,
         state # "UNINITIALIZED"
  PROVE  /\ ListInv' /\ InOrder' /\ ListType'
         /\ given' = given + 1 /\ given' \in 0..fed' /\ locked' \subseteq 1..MaxPictures
         /\ state' = (IF state = "TUNING_IN" THEN "DECODING" ELSE state)
         /\ given + 1 \notin BadPictures => frameNext' # End
<1>1. given \in Nat /\ given + 1 \in 1..MaxPictures /\ locked \subseteq 1..MaxPictures
  BY ApiAssumption DEF IndInv, TypeOK
<1>2. /\ given' = given + 1 /\ AddPicture(given + 1)
      /\ state' = (IF state = "TUNING_IN" THEN "DECODING" ELSE state)
  BY DEF HandleOutput
<1>3. /\ ListInv' /\ InOrder' /\ ListType' /\ locked' \subseteq locked \cup {given + 1}
      /\ given + 1 \notin BadPictures => frameNext' # End
  BY <1>1, <1>2, AddKeeps
<1>4. given' \in 0..fed'
  BY <1>1, <1>2
<1> QED BY <1>1, <1>2, <1>3, <1>4

LEMMA NalCall ==
  ASSUME TypeOK, DecodeNal
  PROVE  /\ call' \in Calls /\ call'.pc \in {"app", "decode"}
         /\ call'.failed => call.failed
<1>1. \/ Returns("ERR_UNSPECIFIED")
      \/ call' = [call EXCEPT !.nals = @ - 1]
  BY DEF DecodeNal
<1>2. CASE Returns("ERR_UNSPECIFIED")
  BY <1>2, IdleIs
<1>3. CASE call' = [call EXCEPT !.nals = @ - 1]
  <2>1. call \in Calls /\ call.pc = "decode" /\ call.nals > 0
    BY DEF DecodeNal, TypeOK
  <2>2. call.nals - 1 \in 0..MaxNals
    BY <2>1, ApiAssumption DEF Calls
  <2> QED BY <1>3, <2>1, <2>2 DEF Calls
<1> QED BY <1>1, <1>2, <1>3

(* Every action of decode keeps the invariant.                             *)
LEMMA DecodeInd ==
  ASSUME IndInv, DecodeNal \/ DecodeThrows \/ DecodeReturns \/ DecodeEmpty \/ EmptyReturns
  PROVE  IndInv'
<1> USE DEF IndInv
<1>0. state \in {"TUNING_IN", "DECODING"} /\ TypeOK
  BY DEF EofInv, DecodeNal, DecodeThrows, DecodeReturns, DecodeEmpty, EmptyReturns
<1>a. SUFFICES /\ ListInv' /\ InOrder' /\ ListType' /\ CallsType'
               /\ EofInv' /\ EofIsTheEnd'
  BY DEF TypeOK, ListType, CallsType
<1>1. ASSUME DecodeNal, ~ UNCHANGED given
      PROVE  /\ ListInv' /\ InOrder' /\ ListType' /\ CallsType' /\ EofInv' /\ EofIsTheEnd'
  <2>1. /\ HandleOutput /\ UNCHANGED appVars /\ given < fed' /\ fed' \in fed..MaxPictures
        /\ UNCHANGED <<errors, stuck>>
    BY <1>0, <1>1, ApiAssumption DEF DecodeNal, Feeds, NoPicture, TypeOK
  <2>2. /\ ListInv' /\ InOrder' /\ ListType' /\ given' = given + 1
        /\ given' \in 0..fed' /\ locked' \subseteq 1..MaxPictures /\ state' = "DECODING"
    BY <1>0, <2>1, OutputKeeps
  <2>3. /\ call' \in Calls /\ call'.pc \in {"app", "decode"}
        /\ call'.failed => call.failed
    BY <1>0, <1>1, NalCall
  <2>4. CallsType'
    BY <1>0, <2>1, <2>2, <2>3, ApiAssumption DEF CallsType, TypeOK, States
  <2>5. EofInv' /\ EofIsTheEnd'
    BY <1>0, <2>2, <2>3 DEF EofInv, EofIsTheEnd, TypeOK
  <2> QED BY <2>2, <2>4, <2>5
<1>2. ASSUME DecodeNal, UNCHANGED given
      PROVE  /\ ListInv' /\ InOrder' /\ ListType' /\ CallsType' /\ EofInv' /\ EofIsTheEnd'
  <2>1. /\ UNCHANGED <<listVars, appVars, state, locked, errors, stuck>> /\ fed' \in fed..MaxPictures
    BY <1>0, <1>2, ApiAssumption DEF DecodeNal, Feeds, NoPicture, TypeOK, HandleOutput
  <2>2. ListInv' /\ InOrder' /\ ListType'
    BY <1>0, <2>1, ListRests
  <2>3. /\ call' \in Calls /\ call'.pc \in {"app", "decode"}
        /\ call'.failed => call.failed
    BY <1>0, <1>2, NalCall
  <2>4. CallsType'
    BY <1>0, <1>2, <2>1, <2>3, ApiAssumption DEF CallsType, TypeOK
  <2>5. EofInv' /\ EofIsTheEnd'
    BY <1>0, <1>2, <2>1, <2>3 DEF EofInv, EofIsTheEnd
  <2> QED BY <2>2, <2>4, <2>5
<1>3. ASSUME DecodeThrows
      PROVE  /\ ListInv' /\ InOrder' /\ ListType' /\ CallsType' /\ EofInv' /\ EofIsTheEnd'
  <2>1. /\ UNCHANGED <<listVars, appVars, given, locked>> /\ fed' \in fed..MaxPictures
        /\ errors' \in 0..MaxErrors
        /\ state' \in {state, "RESTART_REQUIRED", "NOT_SUPPORTED"}
    BY <1>0, <1>3, ApiAssumption DEF DecodeThrows, Feeds, Throws, TypeOK
  <2>0. stuck' \in BOOLEAN
    BY <1>0, <1>3, StuckIs, Zenon DEF DecodeThrows, Throws, TypeOK
  <2>2. ListInv' /\ InOrder' /\ ListType'
    BY <1>0, <2>1, ListRests
  <2>3. call' \in Calls /\ call'.pc = "app" /\ call'.failed = FALSE
    BY <1>3, IdleIs DEF DecodeThrows, Throws
  <2>4. CallsType'
    BY <1>0, <2>0, <2>1, <2>3 DEF CallsType, TypeOK, States
  <2>5. EofInv' /\ EofIsTheEnd'
    BY <1>0, <2>1, <2>3 DEF EofInv, EofIsTheEnd
  <2> QED BY <2>2, <2>4, <2>5
<1>4. ASSUME DecodeReturns \/ EmptyReturns
      PROVE  /\ ListInv' /\ InOrder' /\ ListType' /\ CallsType' /\ EofInv' /\ EofIsTheEnd'
  <2>1. UNCHANGED <<state, decLibVars>>
    BY <1>4 DEF DecodeReturns, EmptyReturns
  <2>2. ListInv' /\ InOrder' /\ ListType'
    <3>1. CASE UNCHANGED <<listVars, appVars>>
      BY <1>0, <2>1, <3>1, ListRests
    <3>2. CASE HandOut /\ frameNext # End
      BY <1>0, <2>1, <3>2, HandOutKeeps
    <3> QED BY <1>4, <3>1, <3>2 DEF DecodeReturns, EmptyReturns
  <2>3. call' \in Calls /\ call'.pc = "app" /\ call'.failed = FALSE
    BY <1>4, IdleIs DEF DecodeReturns, EmptyReturns
  <2>4. CallsType'
    BY <2>1, <2>3 DEF CallsType, TypeOK, decLibVars
  <2>5. EofInv' /\ EofIsTheEnd'
    BY <1>0, <2>1, <2>3 DEF EofInv, EofIsTheEnd, decLibVars
  <2> QED BY <2>2, <2>4, <2>5
<1>5. ASSUME DecodeEmpty
      PROVE  /\ ListInv' /\ InOrder' /\ ListType' /\ CallsType' /\ EofInv' /\ EofIsTheEnd'
  <2>1. /\ UNCHANGED <<fed, errors, stuck, appVars>> /\ fed \in fed..MaxPictures
        /\ fed \in 0..MaxPictures /\ fed' = fed
    BY <1>5, ApiAssumption DEF DecodeEmpty, TypeOK
  <2>2. CASE given < fed /\ HandleOutput /\ GoTo("emptyReturns")
    <3>1. /\ ListInv' /\ InOrder' /\ ListType' /\ given' = given + 1
          /\ given' \in 0..fed' /\ locked' \subseteq 1..MaxPictures /\ state' = "DECODING"
      BY <1>0, <2>1, <2>2, OutputKeeps
    <3>2. call' \in Calls /\ call'.pc = "emptyReturns" /\ call'.failed = call.failed
      BY <2>2 DEF GoTo, Calls, TypeOK
    <3>3. CallsType'
      BY <2>1, <3>1, <3>2 DEF CallsType, TypeOK, States
    <3>4. EofInv' /\ EofIsTheEnd'
      BY <2>1, <3>1, <3>2 DEF EofInv, EofIsTheEnd, TypeOK
    <3> QED BY <3>1, <3>3, <3>4
  <2>3. CASE NoPicture /\ Returns("EOF")
    <3>1. ListInv' /\ InOrder' /\ ListType'
      BY <1>0, <2>1, <2>3, ListRests DEF NoPicture
    <3>2. call' \in Calls /\ call'.pc = "app" /\ call'.failed = FALSE
      BY <2>3, IdleIs
    <3>3. CallsType'
      BY <2>1, <2>3, <3>2 DEF CallsType, TypeOK, NoPicture
    <3>4. EofInv' /\ EofIsTheEnd'
      BY <1>0, <2>1, <2>3, <3>2 DEF EofInv, EofIsTheEnd, NoPicture
    <3> QED BY <3>1, <3>3, <3>4
  <2> QED BY <1>5, <2>2, <2>3 DEF DecodeEmpty
<1> QED BY <1>1, <1>2, <1>3, <1>4, <1>5

(* Every action of flush keeps the invariant.                              *)
LEMMA FlushInd ==
  ASSUME IndInv, FlushCall \/ FlushPic \/ FlushThrows \/ FlushReturns
  PROVE  IndInv'
<1> USE DEF IndInv
<1>0. state \in {"TUNING_IN", "DECODING", "FLUSHING"} /\ TypeOK
  BY DEF EofInv, FlushCall, FlushPic, FlushThrows, FlushReturns
<1>a. SUFFICES /\ ListInv' /\ InOrder' /\ ListType' /\ CallsType'
               /\ EofInv' /\ EofIsTheEnd'
  BY DEF TypeOK, ListType, CallsType
<1>1. ASSUME FlushCall
      PROVE  /\ ListInv' /\ InOrder' /\ ListType' /\ CallsType' /\ EofInv' /\ EofIsTheEnd'
  <2>1. UNCHANGED <<listVars, decLibVars, appVars>> /\ state' = "FLUSHING"
    BY <1>1 DEF FlushCall
  <2>2. call' \in Calls /\ call'.pc = "flush" /\ call'.failed = FALSE
    <3>1. call' = [Idle("OK") EXCEPT !.pc = "flush"]
      BY <1>1 DEF FlushCall
    <3>2. Idle("OK") \in Calls /\ Idle("OK").failed = FALSE
      BY IdleType
    <3> QED BY <3>1, <3>2 DEF Calls
  <2>3. ListInv' /\ InOrder' /\ ListType'
    BY <2>1, ListRests
  <2>4. CallsType'
    BY <2>1, <2>2 DEF CallsType, TypeOK, States, decLibVars
  <2>5. EofInv' /\ EofIsTheEnd'
    BY <2>1, <2>2 DEF EofInv, EofIsTheEnd
  <2> QED BY <2>3, <2>4, <2>5
<1>2. ASSUME FlushPic
      PROVE  /\ ListInv' /\ InOrder' /\ ListType' /\ CallsType' /\ EofInv' /\ EofIsTheEnd'
  <2>1. /\ UNCHANGED <<fed, errors, stuck, appVars>> /\ fed' = fed /\ fed \in fed..MaxPictures
        /\ fed \in 0..MaxPictures /\ state = "FLUSHING"
    BY <1>2, ApiAssumption DEF FlushPic, TypeOK, EofInv
  <2>2. CASE given < fed /\ HandleOutput
    <3>1. /\ ListInv' /\ InOrder' /\ ListType' /\ given' = given + 1
          /\ given' \in 0..fed' /\ locked' \subseteq 1..MaxPictures /\ state' = "FLUSHING"
          /\ given + 1 \notin BadPictures => frameNext' # End
      BY <1>0, <2>1, <2>2, OutputKeeps
    <3>2. given \in Nat
      BY DEF TypeOK
    <3>3. /\ call' = [call EXCEPT !.pc = IF frameList' = {} THEN "flush" ELSE "flushReturns",
                                  !.failed = @ \/ given + 1 \in BadPictures]
      BY <1>2, <2>2, <3>1, <3>2 DEF FlushPic, NoPicture
    <3>4. /\ call' \in Calls /\ call'.pc \in {"flush", "flushReturns"}
          /\ call'.failed = (call.failed \/ given + 1 \in BadPictures)
      BY <3>3 DEF Calls, TypeOK
    <3>5. CallsType'
      BY <2>1, <3>1, <3>4 DEF CallsType, TypeOK, States
    <3>6. call'.failed => BadPictures \cap 1..given' # {}
      <4>1. CASE call.failed
        <5>1. PICK bad \in BadPictures : bad \in 1..given
          BY <4>1 DEF EofInv
        <5>2. bad \in 1..given'
          BY <5>1, <3>1, <3>2
        <5> QED BY <5>2
      <4>2. CASE given + 1 \in BadPictures
        <5>1. given + 1 \in 1..given'
          BY <3>1, <3>2
        <5> QED BY <4>2, <5>1
      <4> QED BY <3>4, <4>1, <4>2
    <3>7. EofInv' /\ EofIsTheEnd'
      BY <3>1, <3>4, <3>6 DEF EofInv, EofIsTheEnd
    <3> QED BY <3>1, <3>5, <3>7
  <2>3. CASE NothingComes /\ NoPicture /\ GoTo("flushReturns")
    <3>1. ListInv' /\ InOrder' /\ ListType'
      BY <1>0, <2>1, <2>3, ListRests DEF NoPicture
    <3>2. call' \in Calls /\ call'.pc = "flushReturns" /\ call'.failed = call.failed
      BY <2>3 DEF GoTo, Calls, TypeOK
    <3>3. CallsType'
      BY <2>1, <2>3, <3>2 DEF CallsType, TypeOK, NoPicture
    <3>4. EofInv' /\ EofIsTheEnd'
      BY <2>1, <2>3, <3>2 DEF EofInv, EofIsTheEnd, NoPicture, NothingComes
    <3> QED BY <3>1, <3>3, <3>4
  <2> QED BY <1>2, <2>2, <2>3 DEF FlushPic
<1>3. ASSUME FlushThrows
      PROVE  /\ ListInv' /\ InOrder' /\ ListType' /\ CallsType' /\ EofInv' /\ EofIsTheEnd'
  <2>1. /\ UNCHANGED <<listVars, appVars, fed, given, locked>>
        /\ errors' \in 0..MaxErrors
        /\ state' \in {state, "RESTART_REQUIRED", "NOT_SUPPORTED"}
    BY <1>0, <1>3, ApiAssumption DEF FlushThrows, Throws, TypeOK
  <2>0. stuck' \in BOOLEAN
    BY <1>0, <1>3, StuckIs, Zenon DEF FlushThrows, Throws, TypeOK
  <2>2. ListInv' /\ InOrder' /\ ListType'
    BY <1>0, <2>1, ListRests
  <2>3. call' \in Calls /\ call'.pc = "app" /\ call'.failed = FALSE
    BY <1>3, IdleIs DEF FlushThrows, Throws
  <2>4. CallsType'
    BY <1>0, <2>0, <2>1, <2>3 DEF CallsType, TypeOK, States
  <2>5. EofInv' /\ EofIsTheEnd'
    BY <1>0, <2>1, <2>3 DEF EofInv, EofIsTheEnd
  <2> QED BY <2>2, <2>4, <2>5
<1>4. ASSUME FlushReturns
      PROVE  /\ ListInv' /\ InOrder' /\ ListType' /\ CallsType' /\ EofInv' /\ EofIsTheEnd'
  <2>1. /\ UNCHANGED decLibVars /\ state = "FLUSHING"
        /\ state' \in {"FLUSHING", "FINALIZED"}
        /\ state' = "FINALIZED" => frameNext = End \/ call.failed
        /\ IF frameNext = End THEN UNCHANGED <<listVars, appVars>> ELSE HandOut
    BY <1>4 DEF FlushReturns, EofInv
  <2>2. ListInv' /\ InOrder' /\ ListType'
    BY <1>0, <2>1, ListRests, HandOutKeeps
  <2>3. call' \in Calls /\ call'.pc = "app" /\ call'.failed = FALSE
    BY <1>4, IdleIs DEF FlushReturns
  <2>4. CallsType'
    BY <2>1, <2>3 DEF CallsType, TypeOK, States, decLibVars
  <2>5. EofInv'
    BY <2>1, <2>3 DEF EofInv
  <2>6. EofIsTheEnd'
    <3>1. SUFFICES ASSUME state' = "FINALIZED", BadPictures \cap 1..given = {}
                   PROVE  ((given = fed \/ stuck) /\ Len(handedOut) = seqNumber)'
      BY <2>1 DEF EofIsTheEnd, decLibVars
    <3>2. frameNext = End /\ (given = fed \/ stuck)
      BY <1>4, <2>1, <3>1 DEF EofInv, FlushReturns, NothingComes
    <3> QED BY <2>1, <3>2 DEF ListInv, Out, decLibVars, listVars, appVars
  <2> QED BY <2>2, <2>4, <2>5, <2>6
<1> QED BY <1>1, <1>2, <1>3, <1>4

(* An exception inside xAddPicture leaves the list alone.                  *)
LEMMA AddThrowsInd ==
  ASSUME IndInv, AddThrows
  PROVE  IndInv'
<1> USE DEF IndInv
<1>1. TypeOK /\ state \in {"TUNING_IN", "DECODING", "FLUSHING"}
  BY DEF EofInv, AddThrows
<1>2. /\ UNCHANGED <<listVars, appVars, errors, stuck>>
      /\ state' \in {"DECODING", "FLUSHING", "RESTART_REQUIRED"}
  BY <1>1 DEF AddThrows
<1>3. ListInv' /\ InOrder' /\ ListType'
  BY <1>1, <1>2, ListRests
<1>4. call' \in Calls /\ call'.pc = "app" /\ call'.failed = FALSE
  BY IdleIs DEF AddThrows
<1>5. /\ fed' \in 0..MaxPictures /\ given' \in 0..fed'
      /\ locked' = locked \cup {given'} /\ given' \in 1..MaxPictures
  BY <1>1, ApiAssumption DEF AddThrows, Feeds, TypeOK
<1>6. CallsType'
  BY <1>1, <1>2, <1>4, <1>5 DEF CallsType, TypeOK, States
<1>7. EofInv' /\ EofIsTheEnd'
  BY <1>2, <1>4 DEF EofInv, EofIsTheEnd
<1> QED BY <1>3, <1>6, <1>7 DEF TypeOK, ListType, CallsType

(* Every action of the application, and of reset, keeps the invariant.     *)
LEMMA AppInd ==
  ASSUME IndInv, Open \/ Close \/ DecodeCall \/ Unref
  PROVE  IndInv'
<1> USE DEF IndInv
<1>0. TypeOK
  OBVIOUS
<1>a. SUFFICES /\ ListInv' /\ InOrder' /\ ListType' /\ CallsType'
               /\ EofInv' /\ EofIsTheEnd'
  BY DEF TypeOK, ListType, CallsType
<1>1. ASSUME Open
      PROVE  /\ ListInv' /\ InOrder' /\ ListType' /\ CallsType' /\ EofInv' /\ EofIsTheEnd'
  <2>1. seqNumber = 0 /\ state' = "INITIALIZED" /\ UNCHANGED decLibVars
    BY <1>1 DEF Open, ListInv
  <2>2. ListInv' /\ InOrder' /\ ListType'
    <3>1. Numbers' = Numbers /\ Out' = Out /\ Out \in Nat
      BY <1>1 DEF Open, Numbers, Out, appVars, TypeOK
    <3>2. Out = 0 /\ frameNext = End /\ seqNumber' = 0 /\ seqNumOutput' = 0
      BY <1>1, <2>1, <3>1 DEF Open, ListInv
    <3> QED BY <1>1, <2>1, <3>1, <3>2 DEF Open, ListInv, InOrder, ListType, TypeOK, appVars
  <2>3. call' \in Calls /\ call'.pc = "app" /\ call'.failed = FALSE
    BY <1>1, IdleIs DEF Open
  <2> QED BY <2>1, <2>2, <2>3 DEF CallsType, TypeOK, States, decLibVars, EofInv, EofIsTheEnd
<1>2. ASSUME Close
      PROVE  /\ ListInv' /\ InOrder' /\ ListType' /\ CallsType' /\ EofInv' /\ EofIsTheEnd'
  <2>1. ListInv' /\ InOrder' /\ ListType'
    BY <1>2, ClearKeeps DEF Close
  <2>2. call' \in Calls /\ call'.pc = "app" /\ call'.failed = FALSE
    BY <1>2, IdleIs DEF Close
  <2>3. /\ state' = "UNINITIALIZED" /\ given' = fed /\ fed' = fed /\ locked' = {}
        /\ errors' = errors /\ fed \in 0..MaxPictures /\ fed \in Nat
    BY <1>2 DEF Close, TypeOK
  <2>4. CallsType'
    <3>1. stuck' \in BOOLEAN
      BY <1>2, Zenon DEF Close
    <3> QED BY <2>2, <2>3, <3>1 DEF CallsType, TypeOK, States
  <2> QED BY <2>1, <2>2, <2>3, <2>4 DEF EofInv, EofIsTheEnd
<1>3. ASSUME DecodeCall
      PROVE  /\ ListInv' /\ InOrder' /\ ListType' /\ CallsType' /\ EofInv' /\ EofIsTheEnd'
  <2>1. /\ state # "UNINITIALIZED" /\ state' \in {"TUNING_IN", "DECODING"}
    BY <1>3 DEF DecodeCall, MayDecode, TypeOK, States
  <2>2. /\ call' \in Calls /\ call'.pc \in {"app", "decode", "decodeEmpty"}
        /\ call'.failed = FALSE
    <3>1. Idle("OK") \in Calls /\ Idle("OK").failed = FALSE
      BY IdleType
    <3>2. CASE Returns("ERR_DEC_INPUT")
      BY <3>2, IdleIs
    <3>3. CASE \E n \in 1..MaxNals : call' = [Idle("OK") EXCEPT !.pc = "decode", !.nals = n]
      <4>1. PICK n \in 1..MaxNals : call' = [Idle("OK") EXCEPT !.pc = "decode", !.nals = n]
        BY <3>3
      <4>2. n \in 0..MaxNals
        OBVIOUS
      <4> QED BY <3>1, <4>1, <4>2 DEF Calls
    <3>4. CASE call' = [Idle("OK") EXCEPT !.pc = "decodeEmpty"]
      BY <3>1, <3>4 DEF Calls
    <3> QED BY <1>3, <3>2, <3>3, <3>4 DEF DecodeCall
  <2>3. CASE state \in {"FLUSHING", "FINALIZED"}
    <3>1. Reset
      BY <1>3, <2>3 DEF DecodeCall
    <3>2. ListInv' /\ InOrder' /\ ListType'
      BY <3>1, ClearKeeps DEF Reset
    <3>0. stuck' \in BOOLEAN
      <4>1. stuck' \in {stuck, TRUE}
        BY <3>1, Zenon DEF Reset, ResetFlushes
      <4>2. stuck \in BOOLEAN
        BY DEF TypeOK
      <4> QED BY <4>1, <4>2, StuckIs, Zenon
    <3>3. given' \in 0..fed' /\ errors' \in 0..MaxErrors /\ fed' = fed
      <4>1. given \in Nat /\ fed \in Nat /\ given <= fed /\ errors \in Nat /\ MaxErrors \in Nat
        BY ApiAssumption DEF TypeOK
      <4>2. given' \in given..fed /\ fed' = fed
        <5>1. state \in {"TUNING_IN", "DECODING", "FLUSHING"} => given' \in given..fed
          BY <3>1, Zenon DEF Reset, ResetFlushes
        <5>2. state \notin {"TUNING_IN", "DECODING", "FLUSHING"} => given' = given
          BY <3>1, Zenon DEF Reset, ResetFlushes
        <5>3. fed' = fed
          BY <3>1, Zenon DEF Reset
        <5> QED BY <4>1, <5>1, <5>2, <5>3
      <4>3. errors' = errors \/ (errors < MaxErrors /\ errors' = errors + 1)
        BY <3>1, Zenon DEF Reset, ResetFlushes
      <4>4. errors <= MaxErrors
        BY DEF TypeOK
      <4> QED BY <4>1, <4>2, <4>3, <4>4
    <3>4. locked' \subseteq 1..MaxPictures
      BY <3>1, ApiAssumption DEF Reset, TypeOK
    <3>5. CallsType'
      BY <2>1, <2>2, <3>0, <3>3, <3>4 DEF CallsType, TypeOK, States
    <3> QED BY <2>1, <2>2, <3>2, <3>5 DEF EofInv, EofIsTheEnd
  <2>4. CASE state \notin {"FLUSHING", "FINALIZED"}
    <3>1. UNCHANGED <<listVars, decLibVars, appVars>>
      BY <1>3, <2>4 DEF DecodeCall
    <3>2. ListInv' /\ InOrder' /\ ListType'
      BY <2>1, <3>1, ListRests
    <3>3. CallsType'
      BY <2>1, <2>2, <3>1 DEF CallsType, TypeOK, States, decLibVars
    <3> QED BY <2>1, <2>2, <3>2, <3>3 DEF EofInv, EofIsTheEnd
  <2> QED BY <2>3, <2>4
<1>4. ASSUME Unref
      PROVE  /\ ListInv' /\ InOrder' /\ ListType' /\ CallsType' /\ EofInv' /\ EofIsTheEnd'
  <2>1. PICK f \in frameList :
          /\ f.num \in held /\ frameList' = frameList \ {f}
          /\ held' = held \ {f.num} /\ locked' = locked \ {f.pic}
    BY <1>4 DEF Unref
  <2>2. /\ UNCHANGED <<state, frameNext, seqNumber, seqNumOutput, fed, given, errors, stuck, handedOut>>
        /\ state # "UNINITIALIZED"
    BY <1>4 DEF Unref
  <2>3. call' \in Calls /\ call'.pc = "app" /\ call'.failed = FALSE
    BY <1>4, IdleIs DEF Unref
  <2>4. Out' = Out /\ Out \in Nat /\ f.num < Out
    BY <2>1, <2>2 DEF Out, TypeOK, ListInv
  <2>5. Numbers' \subseteq Numbers /\ Numbers \ {f.num} \subseteq Numbers'
    BY <2>1 DEF Numbers
  <2>6. ListInv'
    <3>1. ASSUME frameNext # End PROVE Out..(seqNumber - 1) \subseteq Numbers'
      <4>1. f.num \notin Out..(seqNumber - 1)
        BY <2>1, <2>4 DEF TypeOK
      <4> QED BY <3>1, <4>1, <2>5 DEF ListInv
    <3>2. Numbers' \subseteq 0..(seqNumber - 1) /\ held' \subseteq 0..(Out - 1)
      BY <2>1, <2>5 DEF ListInv
    <3> QED BY <2>2, <2>4, <3>1, <3>2 DEF ListInv
  <2>7. InOrder' /\ ListType' /\ CallsType'
    BY <2>1, <2>2, <2>3 DEF InOrder, ListType, CallsType, TypeOK
  <2>8. EofInv' /\ EofIsTheEnd'
    BY <2>2, <2>3 DEF EofInv, EofIsTheEnd
  <2> QED BY <2>6, <2>7, <2>8
<1> QED BY <1>1, <1>2, <1>3, <1>4

LEMMA NextInd == IndInv /\ [Next]_vars => IndInv'
<1> SUFFICES ASSUME IndInv, [Next]_vars PROVE IndInv'
  OBVIOUS
<1>1. CASE Next
  BY <1>1, DecodeInd, FlushInd, AddThrowsInd, AppInd DEF Next, Runs, Flushes
<1>2. CASE UNCHANGED vars
  <2>1. ListInv' = ListInv /\ InOrder' = InOrder
    BY <1>2 DEF vars, listVars, appVars, ListInv, InOrder, Numbers, Out
  <2>2. TypeOK' = TypeOK /\ EofInv' = EofInv /\ EofIsTheEnd' = EofIsTheEnd
    BY <1>2 DEF vars, listVars, appVars, decLibVars, TypeOK, EofInv, EofIsTheEnd, NothingComes
  <2> QED BY <2>1, <2>2 DEF IndInv
<1> QED BY <1>1, <1>2

-----------------------------------------------------------------------------
LEMMA Inductive == Spec => []IndInv
BY InitInd, NextInd, PTL DEF Spec

(* The variables keep their types, for streams of any length.              *)
THEOREM ApiTypeCorrect == Spec => []TypeOK
BY Inductive, PTL DEF IndInv

(* However the application mixes its calls, whatever DecLib throws and     *)
(* however long the stream is, frames are handed out once and in order.    *)
THEOREM FramesInOrder == Spec => []InOrder
BY Inductive, PTL DEF IndInv

(* EOF of flush means that every frame was handed out and that every       *)
(* picture has left DecLib or is held back there behind one that an        *)
(* exception has left unfinished.                                          *)
THEOREM EofMeansEnd == Spec => []EofIsTheEnd
BY Inductive, PTL DEF IndInv

-----------------------------------------------------------------------------
(* The locks: a picture has at most one frame in the list.                 *)
LockInv ==
  /\ LocksMatch
  /\ \A f \in frameList : f.pic <= given /\ f.pic \notin BadPictures
  /\ \A f, g \in frameList : f.pic = g.pic /\ f.pic # 0 => f = g

LEMMA AddLocks ==
  ASSUME TypeOK, LockInv, given < fed', fed' \in fed..MaxPictures, HandleOutput
  PROVE  LockInv'
<1> DEFINE p == given + 1
<1>1. /\ given \in Nat /\ p \in 1..MaxPictures /\ given' = p /\ AddPicture(p)
      /\ \A f \in frameList : f.pic \in Nat /\ f.pic < p
  BY ApiAssumption DEF HandleOutput, TypeOK, LockInv
<1> HIDE DEF p
<1>2. CASE p \in BadPictures
  BY <1>1, <1>2 DEF AddPicture, LockInv, LocksMatch, listVars
<1>3. CASE p \notin BadPictures
  <2>1. /\ frameList' = frameList \cup {Entry(p)}
        /\ locked' = IF p \in CopiedPictures THEN locked ELSE locked \cup {p}
    BY <1>1, <1>3 DEF AddPicture
  <2>2. Entry(p).pic = (IF p \in CopiedPictures THEN 0 ELSE p) /\ 0 \notin BadPictures /\ p # 0
    BY <1>1, ApiAssumption DEF Entry
  <2>3. {f.pic : f \in frameList'} = {f.pic : f \in frameList} \cup {Entry(p).pic}
    BY <2>1
  <2>4. LocksMatch'
    BY <1>3, <2>1, <2>2, <2>3 DEF LockInv, LocksMatch
  <2>5. \A f \in frameList' : f.pic <= given' /\ f.pic \notin BadPictures
    BY <1>1, <1>3, <2>1, <2>2 DEF LockInv
  <2>6. \A f, g \in frameList' : f.pic = g.pic /\ f.pic # 0 => f = g
    BY <1>1, <2>1, <2>2 DEF LockInv
  <2> QED BY <2>4, <2>5, <2>6 DEF LockInv
<1> QED BY <1>2, <1>3

LEMMA LockRests ==
  ASSUME LockInv, UNCHANGED <<frameList, locked>>, given \in Nat, given' \in Nat, given <= given',
         \A f \in frameList : f.pic \in Nat
  PROVE  LockInv'
BY DEF LockInv, LocksMatch

LEMMA LockInd ==
  ASSUME TypeOK, EofInv, LockInv, Next
  PROVE  LockInv'
<1>1. given \in Nat /\ fed \in Nat /\ \A f \in frameList : f.pic \in Nat
  BY DEF TypeOK
<1>2. CASE Open \/ DecodeThrows \/ DecodeReturns \/ EmptyReturns \/ FlushCall \/ FlushThrows
           \/ FlushReturns
  <2>1. UNCHANGED <<frameList, locked, given>>
    BY <1>2 DEF Open, DecodeThrows, DecodeReturns, EmptyReturns, FlushCall, FlushThrows,
                FlushReturns, Throws, HandOut, listVars, decLibVars
  <2> QED BY <1>1, <2>1, LockRests
<1>3. CASE Close
  BY <1>3 DEF Close, ClearFrames, LockInv, LocksMatch
<1>4. CASE DecodeCall
  <2>1. CASE Reset
    <3>1. frameList' = {} /\ locked' \subseteq (locked \ {f.pic : f \in frameList}) \cup BadPictures
      BY <2>1 DEF Reset, ClearFrames
    <3>2. 0 \notin locked
      BY DEF TypeOK
    <3> QED BY <3>1, <3>2 DEF LockInv, LocksMatch
  <2>2. CASE UNCHANGED <<listVars, decLibVars, appVars>>
    BY <1>1, <2>2, LockRests DEF listVars, decLibVars
  <2> QED BY <1>4, <2>1, <2>2 DEF DecodeCall
<1>5. CASE DecodeNal \/ DecodeEmpty \/ FlushPic
  <2>1. CASE HandleOutput
    <3>1. given < fed' /\ fed' \in fed..MaxPictures
      BY <1>1, <1>5, <2>1, ApiAssumption
      DEF DecodeNal, Feeds, DecodeEmpty, FlushPic, HandleOutput, NoPicture, TypeOK
    <3> QED BY <2>1, <3>1, AddLocks
  <2>2. CASE NoPicture
    BY <1>1, <2>2, LockRests DEF NoPicture, listVars
  <2> QED BY <1>5, <2>1, <2>2 DEF DecodeNal, DecodeEmpty, FlushPic
<1>6. CASE Unref
  <2>1. PICK f \in frameList :
          frameList' = frameList \ {f} /\ locked' = locked \ {f.pic} /\ given' = given
    BY <1>6 DEF Unref
  <2>2. {g.pic : g \in frameList'} \ {0} = ({g.pic : g \in frameList} \ {0}) \ {f.pic}
    BY <2>1 DEF LockInv
  <2> QED BY <2>1, <2>2 DEF LockInv, LocksMatch
<1>7. CASE AddThrows
  <2>1. /\ locked' \ BadPictures = locked \ BadPictures /\ frameList' = frameList
        /\ given' = given + 1
    BY <1>7 DEF AddThrows, listVars
  <2>2. \A f \in frameList : f.pic <= given + 1
    BY <1>1 DEF LockInv
  <2> QED BY <2>1, <2>2 DEF LockInv, LocksMatch
<1> QED BY <1>2, <1>3, <1>4, <1>5, <1>6, <1>7 DEF Next, Runs, Flushes

(* DecLib may reuse every picture but those of the frames in the list: no  *)
(* frame that the application still has is overwritten, and no buffer is   *)
(* lost but those of pictures that could not be added.                     *)
THEOREM LocksFollowFrames == Spec => []LocksMatch
<1>1. Init => LockInv
  BY DEF Init, LockInv, LocksMatch
<1>2. IndInv /\ LockInv /\ [Next]_vars => LockInv'
  <2>1. ASSUME UNCHANGED vars, LockInv PROVE LockInv'
    BY <2>1 DEF vars, listVars, decLibVars, LockInv, LocksMatch
  <2> QED BY <2>1, LockInd DEF IndInv
<1>3. LockInv => LocksMatch
  BY DEF LockInv
<1> QED BY <1>1, <1>2, <1>3, Inductive, PTL DEF Spec

=============================================================================
