--------------------------- MODULE NativeQnnPlugin ---------------------------
(***************************************************************************)
(* The IHV plugin over Qualcomm's Genie (CIL/IHV/NativeQNN): a dialog is   *)
(* made from a file of settings and libraries that are loaded for it; its  *)
(* tokens are appended to a buffer that only a Reset or an unloading       *)
(* empties.  Nothing ever clears the error message.                        *)
(***************************************************************************)
EXTENDS VendorPlugin

Init == VendorInit

\* Too little memory for the dialog leaves a message.
LlmInference == inference' \in BOOLEAN

API_IHV_Setup == SetupObject(LlmInference) \/ SetupRefused

------------------------------------------------------------------------------
(* LlmInference.                                                           *)

\* The device type has no file of settings, the file does not parse, names no
\* pattern, no file of the model matches it, or the prompt's settings do not fit
\* into it; Genie makes nothing of the empty string that is passed on then.
FillConfigString == Report /\ KeepPointers

\* The settings Genie made are freed only once the dialog has been made of them.
DialogNotMade ==
  /\ Report
  /\ \E made \in SUBSET {"modules"} : owned' = owned \cup made
  /\ lost' = lost \cup {"config"}
  /\ UNCHANGED dangling

ConfigNotFreed ==
  /\ Report
  /\ owned' = owned \cup {"modules", "dialog"}
  /\ lost' = lost \cup {"config"}
  /\ UNCHANGED dangling

DialogMade ==
  /\ owned' = owned \cup {"modules", "dialog"}
  /\ UNCHANGED <<message, dangling, lost>>

LlmInference_Init ==
  /\ IF message \/ "dialog" \in owned
     THEN UNCHANGED <<message, owned, dangling, lost>>
     ELSE FillConfigString \/ DialogNotMade \/ ConfigNotFreed \/ DialogMade
  /\ KeepRun /\ UNCHANGED <<initialized, reused>>

\* A query appends tokens, whether it fails or not.
LlmInference_Run ==
  /\ \/ output' = Appended /\ message' \in {message, TRUE}
     \/ Report /\ UNCHANGED output
  /\ dirty' = TRUE
  /\ KeepPointers /\ UNCHANGED initialized

LlmInference_Reset_KeepsOutput ==
  /\ \/ dirty' = FALSE /\ UNCHANGED <<output, message>>
     \/ Report /\ KeepRun
  /\ KeepPointers /\ UNCHANGED initialized

\* Genie forgets the conversation, and the buffer is emptied with it.
LlmInference_Reset ==
  /\ \/ dirty' = FALSE /\ output' = {} /\ UNCHANGED message
     \/ Report /\ KeepRun
  /\ KeepPointers /\ UNCHANGED initialized

\* There is no dialog, or it does not go.
DialogStays == Report /\ KeepRun /\ KeepPointers

\* The libraries go one after another, until one does not.
ModulesStay ==
  /\ "dialog" \in owned
  /\ Report /\ UNCHANGED output
  /\ owned' = {} /\ dangling' = {"modules"} /\ dirty' = FALSE
  /\ UNCHANGED history

Unloads ==
  /\ "dialog" \in owned
  /\ owned' = {} /\ dirty' = FALSE /\ output' = {}
  /\ UNCHANGED <<message, dangling, history>>

LlmInference_Deinit ==
  /\ DialogStays \/ ModulesStay \/ Unloads
  /\ UNCHANGED initialized

------------------------------------------------------------------------------
(* The handler.                                                            *)

API_IHV_Init == Handle("init", LlmInference_Init)

API_IHV_Prepare == Handle("prepare", UNCHANGED <<object, history>>)

API_IHV_Infer == Handle("infer", LlmInference_Run)

API_IHV_Reset == Handle("reset", LlmInference_Reset)

API_IHV_Deinit == Handle("deinit", LlmInference_Deinit)

NotHandled == \E kind \in {"init", "prepare", "infer", "reset", "deinit"} : Unhandled(kind)

\* There is no destructor.  The buffer goes with the library.
API_IHV_Release == ReleaseObject(owned) /\ UNCHANGED reused

Next ==
  \/ API_IHV_Setup \/ NotHandled
  \/ API_IHV_Init \/ API_IHV_Prepare \/ API_IHV_Infer \/ API_IHV_Reset
  \/ API_IHV_Deinit \/ API_IHV_Release

------------------------------------------------------------------------------

\* A dialog begins every run empty and hands out that run's tokens; a model is
\* never loaded again in a session where something failed and no freed library
\* is freed again; an unloading leaves the dialog only when it says it failed.
Serves ==
  /\ ServesRuns({"dialog", "modules"})
  /\ Running /\ plugin # "ran" => ~message
  /\ plugin = "idle" /\ ~message => owned = {} /\ output = {} /\ ~dirty
  /\ lost # {} /\ plugin \notin Released => failedInit /\ message
  /\ reused = {}
=============================================================================
