---------------------------- MODULE PictureRecon ----------------------------
(***************************************************************************)
(* What DecLib relies on when it hands a picture to a DecLibRecon object   *)
(* and gets it back from waitForPrevDecompressedPic: the picture is called *)
(* reconstructed only when every task has made its samples final, and the  *)
(* object is released, good or bad, when no task can touch the picture or  *)
(* the buffers of the object any more.                                     *)
(***************************************************************************)
CONSTANT Tasks

VARIABLES
  active,   \* tasks that are in the pool and may touch the picture
  final,    \* tasks whose samples are final
  outcome,  \* pending, reconstructed or error
  released  \* the object may be used for the next picture

rVars == <<active, final, outcome, released>>

RInit ==
  /\ active = {} /\ final = {}
  /\ outcome = "pending"
  /\ released = FALSE

RStart(t) ==
  /\ ~released /\ t \notin active \cup final
  /\ active' = active \cup {t}
  /\ UNCHANGED <<final, outcome, released>>

RFinalize(t) ==
  /\ t \in active /\ t \notin final
  /\ final' = final \cup {t}
  /\ UNCHANGED <<active, outcome, released>>

(* with or without its samples *)
RLeave(t) ==
  /\ t \in active
  /\ active' = active \ {t}
  /\ UNCHANGED <<final, outcome, released>>

RReconstructed ==
  /\ outcome = "pending"
  /\ active = {} /\ final = Tasks
  /\ outcome' = "reconstructed"
  /\ UNCHANGED <<active, final, released>>

RError ==
  /\ outcome = "pending"
  /\ outcome' = "error"
  /\ UNCHANGED <<active, final, released>>

RRelease ==
  /\ ~released
  /\ outcome # "pending" /\ active = {}
  /\ released' = TRUE
  /\ UNCHANGED <<active, final, outcome>>

RNext ==
  \/ \E t \in Tasks : RStart(t) \/ RFinalize(t) \/ RLeave(t)
  \/ RReconstructed \/ RError \/ RRelease

RSpec == RInit /\ [][RNext]_rVars
=============================================================================
