------------------------------ MODULE MlxPlugin ------------------------------
(***************************************************************************)
(* The IHV plugin over Apple's MLX (CIL/IHV/MLX): C++ objects for text and *)
(* for images that hold raw pointers to retained objects of a library in   *)
(* Swift.  A pointer that is null makes the library's functions answer     *)
(* null or -1; what they do with one to a released object is anything.     *)
(***************************************************************************)
EXTENDS VendorPlugin

VARIABLE scenario  \* what inference_ points to: "text" or "image"

Init == VendorInit /\ scenario \in {"text", "image"}

\* Either constructor leaves no message.
Constructed == inference' = TRUE

API_IHV_Setup ==
  \/ SetupObject(Constructed) /\ scenario' \in {"text", "image"}
  \/ SetupRefused /\ UNCHANGED scenario

------------------------------------------------------------------------------
(* LLMInference: a model and, from Prepare to Reset, a cache.              *)

ConfigRefused == Report /\ KeepPointers

\* Whether there is a model afterwards, nobody asks.
llm_create ==
  /\ \E made \in {{}, {"model"}} : owned' = (owned \ {"model"}) \cup made
  /\ lost' = lost \cup (owned \cap {"model"})
  /\ dangling' = {}
  /\ UNCHANGED <<message, reused>>

LLMInference_Init ==
  /\ ConfigRefused \/ llm_create
  /\ KeepRun /\ UNCHANGED initialized

\* The model makes a cache, which takes the place of one that was not freed.
llm_create_kvcache ==
  /\ \/ "model" \in owned /\ Assigned({"cache"})
     \/ "model" \in dangling /\ \E made \in {{}, {"cache"}} :
          owned' = (owned \ {"cache"}) \cup made /\ UNCHANGED <<dangling, lost>>
     \/ "model" \notin owned \cup dangling
          /\ owned' = owned \ {"cache"} /\ UNCHANGED <<dangling, lost>>
  /\ reused' = reused \cup dangling

LLMInference_Prepare_KeepsOutput ==
  /\ llm_create_kvcache
  /\ dirty' = FALSE
  /\ UNCHANGED <<initialized, message, output>>

LLMInference_Prepare ==
  /\ llm_create_kvcache
  /\ output' = {} /\ dirty' = FALSE
  /\ UNCHANGED <<initialized, message>>

\* Too many tokens, or a search that is not greedy.
InputRefused == Report /\ KeepRun

\* A token could not be predicted: without a model, the first one.
PredictFails ==
  /\ Report
  /\ output' \in {output, Appended}
  /\ dirty' = ("cache" \in owned)

PredictsAll ==
  /\ {"model", "cache"} \subseteq owned
  /\ message' = FALSE /\ output' = Appended /\ dirty' = TRUE

LLMInference_Run ==
  /\ InputRefused \/ PredictFails \/ PredictsAll
  /\ KeepPointers /\ UNCHANGED initialized

LLMInference_Reset ==
  /\ owned' = owned \ {"cache"} /\ dirty' = FALSE
  /\ UNCHANGED <<initialized, message, dangling, output, history>>

\* The pointer to the model is not cleared.
LLMInference_Deinit ==
  /\ owned' = {} /\ message' = FALSE /\ dirty' = FALSE
  /\ dangling' = dangling \cup (owned \cap {"model"})
  /\ reused' = reused \cup dangling
  /\ UNCHANGED <<initialized, output, lost>>

------------------------------------------------------------------------------
(* ImageInference.  Nothing clears its message.                            *)

ImageInference_Init ==
  /\ \/ owned' = {} /\ Report
     \/ owned' = {"pipeline"} /\ UNCHANGED message
  /\ lost' = lost \cup owned
  /\ KeepRun /\ UNCHANGED <<initialized, dangling, reused>>

Cleared == output' = {} /\ UNCHANGED <<initialized, message, dirty>> /\ KeepPointers

\* The images before the one that fails stay.
ImageInference_Run ==
  /\ \/ Report /\ output' \in IF owned = {} THEN {output} ELSE {{}, {"this"}}
     \/ owned # {} /\ UNCHANGED message /\ output' = {"this"}
  /\ KeepPointers /\ UNCHANGED <<initialized, dirty>>

ImageInference_Deinit ==
  /\ owned' = {} /\ output' = {}
  /\ UNCHANGED <<initialized, message, dangling, dirty, history>>

------------------------------------------------------------------------------
(* The handler.                                                            *)

OfScenario(Text, Image) ==
  \/ scenario = "text" /\ Text
  \/ scenario = "image" /\ Image

API_IHV_Init == Handle("init", OfScenario(LLMInference_Init, ImageInference_Init))

API_IHV_Prepare == Handle("prepare", OfScenario(LLMInference_Prepare, Cleared))

API_IHV_Infer == Handle("infer", OfScenario(LLMInference_Run, ImageInference_Run))

API_IHV_Reset == Handle("reset", OfScenario(LLMInference_Reset, Cleared))

API_IHV_Deinit == Handle("deinit", OfScenario(LLMInference_Deinit, ImageInference_Deinit))

NotHandled == \E kind \in {"init", "prepare", "infer", "reset", "deinit"} : Unhandled(kind)

\* Only the object for images has a destructor.
API_IHV_Release ==
  ReleaseObject(IF scenario = "text" THEN owned ELSE {}) /\ UNCHANGED reused

Next ==
  \/ API_IHV_Setup
  \/ /\ \/ API_IHV_Init \/ API_IHV_Prepare \/ API_IHV_Infer \/ API_IHV_Reset
        \/ API_IHV_Deinit \/ API_IHV_Release \/ NotHandled
     /\ UNCHANGED scenario

------------------------------------------------------------------------------

\* A text model may be reported as loaded and not be there: then each of its runs
\* fails.  A run that succeeds hands out its own tokens.  The pointer to a
\* released model is used again only once another Init has failed, and caches
\* are lost only where calls failed.
Serves ==
  /\ ServesRuns(IF scenario = "image" THEN {"pipeline"} ELSE {})
  /\ plugin = "ran" /\ ~message => IF scenario = "image" THEN "pipeline" \in owned
                                   ELSE {"model", "cache"} \subseteq owned
  /\ Running => dangling = {}
  /\ plugin = "idle" => owned = {}
  /\ plugin = "idle" /\ scenario = "text" => ~message
  /\ reused # {} => failedInit
  /\ plugin \notin Released => lost \subseteq IF scenario = "text" THEN {"cache"} ELSE {}
=============================================================================
