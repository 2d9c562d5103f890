------------------------------- MODULE Plugins -------------------------------
(***************************************************************************)
(* The vendors' IHV plugins behind the one interface the client has for    *)
(* them: in each behaviour the client uses one library, one session after  *)
(* another in this process or the next, and every session is any order of  *)
(* calls PluginSession allows.                                             *)
(***************************************************************************)
EXTENDS Integers, Sequences, PluginSession

CONSTANTS
  Hardware, Catalog, Models, Requests, Unset,  \* of WindowsMLPlugin
  TotalLayers, LayersWanted                    \* of LlamaCppPlugin

ASSUME PluginsAssumption ==
  /\ Hardware \in Seq([ep : STRING, type : STRING, vendor : STRING])
  /\ Catalog \in Seq(STRING)
  /\ Models \in Seq([ep : STRING, type : STRING \cup {Unset}, nested : BOOLEAN])
  /\ \A r \in Requests : r.id \in Nat /\ r.agentic \in BOOLEAN
  /\ TotalLayers \in Nat /\ LayersWanted \subseteq Nat

VARIABLES
  library,  \* the library the execution provider's name stands for
  inference, initialized, message, owned, lost, failedInit,            \* of all
  dangling, dirty, output, reused,                                     \* of VendorPlugin
  capacity, layers, config, keptConfig, spoiled, scenario, python,     \* of one vendor
  request, devices, assigned, file, backup, cookie, activated,         \* of WindowsMLPlugin
  slipped, leftover

common == <<plugin, inference, initialized, message, owned, lost, failedInit>>
kept == <<dangling, dirty, output, reused>>
llama == <<capacity, layers>>
ortGenAI == <<config, keptConfig, spoiled>>
windowsML == <<request, devices, assigned, file, backup, cookie, activated, slipped, leftover>>
pluginsVars == <<library, common, kept, llama, ortGenAI, scenario, python, windowsML>>

Vendor == INSTANCE VendorPlugin
WindowsML == INSTANCE WindowsMLPlugin
LlamaCpp == INSTANCE LlamaCppPlugin
NativeQNN == INSTANCE NativeQnnPlugin
OrtGenAI == INSTANCE OrtGenAIPlugin
NativeOpenVINO == INSTANCE OpenVinoPlugin
MLX == INSTANCE MlxPlugin
Diffusers == INSTANCE DiffusersPlugin

Libraries ==
  {"WindowsML", "LlamaCpp", "NativeQNN", "OrtGenAI", "OrtGenAI-RyzenAI", "NativeOpenVINO",
   "MLX", "Diffusers"}

\* What another library keeps has any one value.
PluginsInit ==
  /\ library \in Libraries
  /\ WindowsML!Init /\ LlamaCpp!Init /\ OrtGenAI!Init /\ NativeOpenVINO!Init /\ Diffusers!Init
  /\ library # "WindowsML" => request = CHOOSE r \in Requests : TRUE
  /\ library \notin {"NativeOpenVINO", "MLX"} => scenario = "text"

\* The next session: in another process the interpreter has to be started anew.
NextSession ==
  /\ plugin \in Released
  /\ library # "WindowsML"
  /\ plugin' = "none"
  /\ lost' = {} /\ reused' = {} /\ failedInit' = FALSE
  /\ python' \in {python, "none"}
  /\ UNCHANGED <<library, inference, initialized, message, owned, dangling, dirty, output,
                 llama, ortGenAI, scenario, windowsML>>

\* The process ends or crashes within a session; WindowsMLPlugin has its own.
ProcessDies ==
  /\ library # "WindowsML"
  /\ Vendor!ProcessEnds
  /\ IF library \in {"OrtGenAI", "OrtGenAI-RyzenAI"} THEN OrtGenAI!FilesLeft ELSE UNCHANGED ortGenAI
  /\ python' = "none"
  /\ UNCHANGED <<library, llama, scenario, windowsML>>

UseWindowsML ==
  /\ library = "WindowsML" /\ WindowsML!Next
  /\ UNCHANGED <<library, kept, llama, ortGenAI, scenario, python>>

UseLlamaCpp ==
  /\ library = "LlamaCpp" /\ LlamaCpp!Next
  /\ UNCHANGED <<library, ortGenAI, scenario, python, windowsML>>

UseNativeQNN ==
  /\ library = "NativeQNN" /\ NativeQNN!Next
  /\ UNCHANGED <<library, llama, ortGenAI, scenario, python, windowsML>>

UseOrtGenAI ==
  /\ \/ library = "OrtGenAI" /\ OrtGenAI!Next
     \/ library = "OrtGenAI-RyzenAI" /\ OrtGenAI!NextRyzenAI
  /\ UNCHANGED <<library, llama, scenario, python, windowsML>>

UseNativeOpenVINO ==
  /\ library = "NativeOpenVINO" /\ NativeOpenVINO!Next
  /\ UNCHANGED <<library, llama, ortGenAI, python, windowsML>>

UseMLX ==
  /\ library = "MLX" /\ MLX!Next
  /\ UNCHANGED <<library, llama, ortGenAI, python, windowsML>>

UseDiffusers ==
  /\ library = "Diffusers" /\ Diffusers!Next
  /\ UNCHANGED <<library, llama, ortGenAI, scenario, windowsML>>

PluginsNext ==
  \/ UseWindowsML \/ UseLlamaCpp \/ UseNativeQNN \/ UseOrtGenAI
  \/ UseNativeOpenVINO \/ UseMLX \/ UseDiffusers \/ NextSession \/ ProcessDies

PluginsSpec == PluginsInit /\ [][PluginsNext]_pluginsVars

------------------------------------------------------------------------------
(* Properties.                                                             *)

\* Every variable keeps its type, whichever the library.
PluginsTypeOK ==
  /\ library \in Libraries
  /\ IF library = "WindowsML" THEN WindowsML!TypeOK ELSE plugin \in PluginState
  /\ {inference, initialized, message, dirty, failedInit, spoiled} \subseteq BOOLEAN
  /\ owned \cap dangling = {}
  /\ output \subseteq {"earlier", "this"}
  /\ capacity \in -1 .. TotalLayers /\ layers \in 0 .. TotalLayers
  /\ config \in {"shipped", "adapted", "torn"} /\ keptConfig \in {"none", "shipped", "adapted"}
  /\ scenario \in {"text", "image"} /\ python \in {"none", "started", "installed"}

\* What a client may count on in a session with any of the vendors' libraries
\* (the handlers under CIL/IHV): that a model reported as loaded is there and as
\* asked for, that a run begins without what an earlier one left and hands out
\* its own results, what an unloading mends, and what is lost or used after it
\* was destroyed.  Each library's module states its own promise.
ServesSession ==
  /\ library = "WindowsML" => WindowsML!ServesSession
  /\ library = "LlamaCpp" => LlamaCpp!Serves
  /\ library = "NativeQNN" => NativeQNN!Serves
  /\ library = "OrtGenAI" => OrtGenAI!Serves
  /\ library = "OrtGenAI-RyzenAI" => OrtGenAI!ServesRyzenAI
  /\ library = "NativeOpenVINO" => NativeOpenVINO!Serves
  /\ library = "MLX" => MLX!Serves
  /\ library = "Diffusers" => Diffusers!Serves
=============================================================================
