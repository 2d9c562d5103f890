--------------------------- MODULE OpenVinoPlugin ---------------------------
(***************************************************************************)
(* The IHV plugin over OpenVINO GenAI (CIL/IHV/NativeOpenVINO).  The       *)
(* scenario decides which of two objects it holds, one for text and one    *)
(* for images.  Pipelines are in unique pointers.                          *)
(***************************************************************************)
EXTENDS VendorPlugin

VARIABLE scenario  \* what inference_ points to: "text" or "image"

Init == VendorInit /\ scenario \in {"text", "image"}

\* It takes the plugins' file, an Intel device of the type and the device that was
\* asked for.
BaseInference == inference' \in BOOLEAN

API_IHV_Setup ==
  \/ SetupObject(BaseInference) /\ scenario' \in {"text", "image"}
  \/ SetupRefused /\ UNCHANGED scenario

------------------------------------------------------------------------------
(* LLMInference.                                                           *)

\* The settings cannot be used, or not with this device.
Unusable == Report /\ KeepPointers

\* The old pipeline goes before the new one is made.
Replaces(made) ==
  /\ owned' = made
  /\ message' = (made = {})
  /\ UNCHANGED <<dangling, history>>

LLMInference_Init ==
  /\ IF message THEN UNCHANGED message /\ KeepPointers
     ELSE Unusable \/ Replaces({}) \/ Replaces({"pipeline"})
  /\ KeepRun /\ UNCHANGED initialized

LLMInference_Run ==
  /\ Report \/ ("pipeline" \in owned /\ message' = FALSE)
  /\ KeepRun /\ KeepPointers /\ UNCHANGED initialized

\* The message of a failed run survives the unloading.
LLMInference_Deinit_KeepsMessage ==
  /\ owned' = {}
  /\ KeepRun /\ UNCHANGED <<initialized, message, dangling, history>>

LLMInference_Deinit ==
  /\ owned' = {} /\ message' = FALSE
  /\ KeepRun /\ UNCHANGED <<initialized, dangling, history>>

------------------------------------------------------------------------------
(* ImageInference: it neither looks at the message nor clears it.          *)

ImageInference_Init ==
  /\ \/ owned' = {} /\ Report
     \/ owned' = {"pipeline"} /\ UNCHANGED message
  /\ KeepRun /\ UNCHANGED <<initialized, dangling, history>>

ImageInference_Prepare ==
  output' = {} /\ UNCHANGED <<initialized, message, dirty>> /\ KeepPointers

\* A pipeline that fails, or answers in a shape that is not expected, leaves no
\* image of an earlier run.
ImageInference_Run ==
  /\ \/ Report /\ output' = IF owned = {} THEN output ELSE {}
     \/ owned # {} /\ UNCHANGED message /\ output' = {"this"}
  /\ KeepPointers /\ UNCHANGED <<initialized, dirty>>

ImageInference_Deinit ==
  /\ owned' = {} /\ output' = {}
  /\ UNCHANGED <<initialized, message, dangling, dirty, history>>

------------------------------------------------------------------------------
(* The handler.                                                            *)

OfScenario(Text, Image) ==
  \/ scenario = "text" /\ Text
  \/ scenario = "image" /\ Image

API_IHV_Init == Handle("init", OfScenario(LLMInference_Init, ImageInference_Init))

API_IHV_Prepare ==
  Handle("prepare", OfScenario(UNCHANGED <<object, history>>, ImageInference_Prepare))

API_IHV_Infer == Handle("infer", OfScenario(LLMInference_Run, ImageInference_Run))

API_IHV_Reset == Handle("reset", UNCHANGED <<object, history>>)

API_IHV_Deinit == Handle("deinit", OfScenario(LLMInference_Deinit, ImageInference_Deinit))

NotHandled == \E kind \in {"init", "prepare", "infer", "reset", "deinit"} : Unhandled(kind)

\* What the object holds goes with it.
API_IHV_Release == ReleaseObject({}) /\ UNCHANGED reused

Next ==
  \/ API_IHV_Setup
  \/ /\ \/ API_IHV_Init \/ API_IHV_Prepare \/ API_IHV_Infer \/ API_IHV_Reset
        \/ API_IHV_Deinit \/ API_IHV_Release \/ NotHandled
     /\ UNCHANGED scenario

------------------------------------------------------------------------------

\* A model that is reported as loaded has its pipeline and one that was unloaded
\* has none; nothing is lost.  An unloading mends a text session; in an image
\* session nothing does: after any failure each call fails, though the model is
\* loaded again and again.
Serves ==
  /\ ServesRuns({"pipeline"})
  /\ plugin = "idle" => owned = {} /\ output = {}
  /\ plugin = "idle" /\ scenario = "text" => ~message
  /\ scenario = "image" /\ message => plugin \in {"idle", "broken", "ran"}
  /\ lost = {} /\ dangling = {} /\ reused = {}
=============================================================================
