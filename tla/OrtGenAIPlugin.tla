--------------------------- MODULE OrtGenAIPlugin ---------------------------
(***************************************************************************)
(* The IHV plugins over ONNX Runtime GenAI: OrtGenAI for DirectML          *)
(* (CIL/IHV/OrtGenAI) and OrtGenAI-RyzenAI.  Their handlers are the same;  *)
(* one makes a generator for each run, the other keeps one and replaces it *)
(* at the end of a run.  Both change the model's genai_config.json for the *)
(* device and put the file back when the model is unloaded.  No write is   *)
(* looked after: the file may stay as it is, or end up torn.               *)
(***************************************************************************)
EXTENDS Sequences, Integers, VendorPlugin

VARIABLES
  config,     \* the genai_config.json: "shipped", "adapted" to a device, or "torn"
  keptConfig, \* backup_genai_config: "none", or the file as it was kept
  spoiled     \* history: in some session an Init failed, or the file was not put back

files == <<config, keptConfig, spoiled>>

Init == VendorInit /\ config = "shipped" /\ keptConfig = "none" /\ spoiled = FALSE

\* That there is no device is found out by Init.
BaseInference == inference' = TRUE

API_IHV_Setup == (SetupObject(BaseInference) \/ SetupRefused) /\ UNCHANGED files

------------------------------------------------------------------------------
(* LLMInference::Init.                                                     *)

\* No such device, no configuration, or one that does not parse.
NotConfigured == Report /\ KeepPointers /\ UNCHANGED <<initialized, config, keptConfig>>

Configures_KeepsChanged ==
  \/ config' \in {"adapted", "torn", config} /\ keptConfig' = "adapted"
  \/ UNCHANGED <<config, keptConfig>>

\* What was read is kept before it is changed; a configuration without an entry
\* for this provider stays as it is.
Configures ==
  \/ config' \in {"adapted", "torn", config} /\ keptConfig' = config
  \/ UNCHANGED <<config, keptConfig>>

SetupGenaiConfigForDirectML == Configures

SetupGenaiConfigForRyzenAI == Configures

\* One after the other, until one cannot be made; none over a torn file.
Makes(sequence) ==
  \/ /\ \E n \in 0 .. Len(sequence) :
          /\ config' = "torn" => n = 0
          /\ Assigned({sequence[i] : i \in 1 .. n})
     /\ Report /\ UNCHANGED initialized
  \/ /\ config' # "torn"
     /\ Assigned({sequence[i] : i \in DOMAIN sequence})
     /\ initialized' = TRUE
     /\ UNCHANGED message

Loads(Configure, sequence) ==
  /\ IF message THEN UNCHANGED <<initialized, message, owned, dangling, lost, config, keptConfig>>
     ELSE NotConfigured \/ (config # "torn" /\ Configure /\ Makes(sequence))
  /\ spoiled' = (spoiled \/ message')
  /\ KeepRun /\ UNCHANGED reused

LLMInference_Init == Loads(SetupGenaiConfigForDirectML, <<"model", "params">>)

\* The generator and its sequences are made here already.
LLMInference_Init_RyzenAI ==
  Loads(SetupGenaiConfigForRyzenAI, <<"model", "params", "generator", "sequences">>)

------------------------------------------------------------------------------
(* LLMInference::Run.                                                      *)

\* Without tokens nothing is run, and what an earlier run left is answered with.
NothingRun == Report /\ KeepRun /\ KeepPointers

\* The sequences and the generator are made for this run; when something is
\* thrown they stay, and the output is emptied.
RunsAnew ==
  \/ /\ \E made \in {{}, {"sequences"}, {"sequences", "generator"}} : Assigned(made)
     /\ Report /\ output' = {}
  \/ /\ lost' = lost \cup (owned \cap {"sequences", "generator"})
     /\ owned' = owned \ {"sequences", "generator"}
     /\ output' \in {{}, {"this"}}
     /\ UNCHANGED <<message, dangling>>

LLMInference_Run ==
  /\ NothingRun \/ (RunsAnew /\ UNCHANGED <<dirty, reused>>)
  /\ UNCHANGED <<initialized, files>>

\* A step of the run fails: the generator has its tokens.
BreaksOff == Report /\ output' = {} /\ dirty' = TRUE /\ KeepPointers

\* What is replaced is destroyed before its successor is made.
NotReplaced(gone) ==
  /\ Report /\ output' = {}
  /\ owned' = owned \ {gone} /\ dangling' = dangling \cup {gone}
  /\ dirty' = (gone = "generator")
  /\ UNCHANGED history

\* The generator goes on with the tokens it has.
RunsOn_Unreplaced ==
  /\ output' \in {{}, {"this"}} /\ dirty' = TRUE
  /\ KeepPointers /\ UNCHANGED message

RunsOn ==
  /\ output' \in {{}, {"this"}} /\ dirty' = FALSE
  /\ KeepPointers /\ UNCHANGED message

LLMInference_Run_RyzenAI ==
  /\ NothingRun \/ BreaksOff \/ NotReplaced("generator") \/ NotReplaced("sequences") \/ RunsOn
  /\ UNCHANGED <<initialized, files>>

------------------------------------------------------------------------------
(* LLMInference::Deinit and the destructor.                                *)

\* What was kept is written back, as far as that goes.
Restores ==
  /\ IF keptConfig = "none" THEN UNCHANGED config ELSE config' \in {keptConfig, config, "torn"}
  /\ spoiled' = (spoiled \/ (keptConfig # "none" /\ config' # keptConfig))

\* Every pointer that is not null is destroyed, dangling ones too.
Unload ==
  /\ owned' = {} /\ dangling' = {} /\ reused' = reused \cup dangling
  /\ dirty' = FALSE /\ output' = {} /\ initialized' = FALSE /\ message' = FALSE
  /\ Restores

LLMInference_Deinit ==
  /\ IF initialized THEN Unload
     ELSE Report /\ KeepRun /\ UNCHANGED <<initialized, owned, dangling, reused, config, spoiled>>
  /\ UNCHANGED <<lost, keptConfig>>

\* Only what is initialized is unloaded.
LLMInference_Destructor ==
  /\ IF initialized THEN Restores ELSE UNCHANGED <<config, spoiled>>
  /\ reused' = reused \cup (IF initialized THEN dangling ELSE {})
  /\ keptConfig' = "none"

\* What a process that ends within a session leaves of the file: a writing of
\* Init's or of an unloading may be done, or begun.
FilesLeft ==
  /\ \/ IF initialized THEN Restores ELSE UNCHANGED <<config, spoiled>>
     \/ /\ plugin = "idle" /\ inference /\ ~message /\ config # "torn"
        /\ config' \in {"adapted", "torn"} /\ spoiled' = TRUE
  /\ keptConfig' = "none"

------------------------------------------------------------------------------
(* The handlers.                                                           *)

API_IHV_Init == Handle("init", LLMInference_Init)

API_IHV_Prepare == Handle("prepare", UNCHANGED <<object, history, files>>)

\* The answer is whether there are tokens, of whichever run.
Answers(Run) ==
  /\ inference
  /\ Run
  /\ Reply("infer", output' # {})
  /\ UNCHANGED <<inference, failedInit>>

API_IHV_Infer == Answers(LLMInference_Run)

API_IHV_Reset == Handle("reset", UNCHANGED <<object, history, files>>)

API_IHV_Deinit == Handle("deinit", LLMInference_Deinit)

API_IHV_Init_RyzenAI == Handle("init", LLMInference_Init_RyzenAI)

API_IHV_Infer_RyzenAI == Answers(LLMInference_Run_RyzenAI)

NotHandled ==
  /\ \E kind \in {"init", "prepare", "infer", "reset", "deinit"} : Unhandled(kind)
  /\ spoiled' = (spoiled \/ plugin = "idle")
  /\ UNCHANGED <<config, keptConfig>>

API_IHV_Release ==
  LLMInference_Destructor /\ ReleaseObject(IF initialized THEN {} ELSE owned)

Common == API_IHV_Setup \/ NotHandled \/ API_IHV_Prepare \/ API_IHV_Reset \/ API_IHV_Deinit
          \/ API_IHV_Release

Next == Common \/ API_IHV_Init \/ API_IHV_Infer

NextRyzenAI == Common \/ API_IHV_Init_RyzenAI \/ API_IHV_Infer_RyzenAI

------------------------------------------------------------------------------

\* What both plugins keep: after an unloading nothing of a failed run is left and
\* the configuration is as it was shipped, but for an Init that failed, which is
\* for good: no message goes away any more, what was made is lost, and the file
\* stays changed even for later sessions.  It stays changed as well where it was
\* not put back, by a writing that failed or a process that ended before it.
ServesModel(needed) ==
  /\ ServesRuns(needed)
  /\ Running => initialized
  /\ plugin = "idle" /\ ~failedInit => ~message /\ owned = {}
  /\ plugin \in {"none", "idle"} \cup Released => spoiled \/ config = "shipped"
  /\ lost # {} => failedInit

Serves == ServesModel({"model", "params"}) /\ reused = {}

\* A run that cannot make its next generator leaves a pointer to the one it
\* destroyed, which the unloading destroys again; no other call uses it.
ServesRyzenAI ==
  /\ ServesModel({"model", "params"})
  /\ plugin = "prepared" => dangling = {} /\ {"generator", "sequences"} \subseteq owned
  /\ dangling # {} => message
=============================================================================
