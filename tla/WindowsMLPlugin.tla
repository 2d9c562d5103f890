--------------------------- MODULE WindowsMLPlugin ---------------------------
(***************************************************************************)
(* The IHV plugin for Windows ML (CIL/IHV/WindowsML, over                  *)
(* CIL/common/IHV_handler_class.h), one session after another, under every *)
(* client that calls it in the order PluginSession gives.  An error        *)
(* message makes every later call fail until a Deinit clears it; objects   *)
(* of ONNX Runtime GenAI are kept in pointers from call to call; and the   *)
(* genai_config.json beside a model is rewritten for the device.           *)
(*                                                                         *)
(* What Windows and ONNX Runtime answer is a free choice: which providers  *)
(* become ready, which of them report devices, which call of theirs fails. *)
(***************************************************************************)
EXTENDS Integers, SequencesExt, PluginSession

CONSTANTS
  Hardware,   \* the devices ONNX Runtime knows of, [ep, type, vendor], in its order
  Catalog,    \* the vendors' execution providers, in the catalog's order
  Models,     \* the folders with a genai_config.json, [ep, type, nested], root folder
              \* first; the type is in the folder's path and in the file as shipped,
              \* whose options are nested where they are found but not rewritten
  Requests,   \* settings of sessions, [ep, type, vendor, id, agentic]
  Unset       \* no preference of a request, no type of a model

VARIABLES
  request,      \* the settings of the session
  inference,    \* inference_ is not null
  devices,      \* winml_devices_
  assigned,     \* model_path of the device asked for: a model, 0 if there is none
  initialized,  \* initialized_
  message,      \* error_message_ is not empty
  owned,        \* the pointers that are not null
  file,         \* the genai_config.json of each model, as far as it is rewritten
  backup,       \* backup_genai_config_: <<>>, or a model and its configuration
  cookie,       \* ep_dll_dir_cookie_: this object's entry in the DLL search path
  activated,    \* g_epRegistrationFlag and g_epInitOutcome
  lost,         \* history: objects of this session no pointer leads to any more
  failedInit,   \* history: an Init of this session failed
  slipped,      \* history: the last Init that came to it could not open the file to write
  leftover      \* history: an entry in the search path without an owner

object == <<inference, devices, assigned, initialized, message, owned, backup>>
history == <<lost, failedInit, slipped>>
vars == <<plugin, request, object, file, cookie, activated, history, leftover>>

Kept == {"model", "params"}         \* from Init to Deinit
PerRun == {"sequences", "generator"}  \* from the beginning to the end of a run

\* A file that is not whole does not parse.
Configs == [type : {r.type : r \in Requests} \cup {Models[m].type : m \in DOMAIN Models},
            causal : BOOLEAN, whole : BOOLEAN]

NoObject ==
  /\ inference = FALSE /\ devices = <<>> /\ assigned = 0 /\ initialized = FALSE
  /\ message = FALSE /\ owned = {} /\ backup = <<>>

Init ==
  /\ PluginInit /\ NoObject
  /\ request \in Requests
  /\ file = [m \in DOMAIN Models |-> [type |-> Models[m].type, causal |-> FALSE, whole |-> TRUE]]
  /\ cookie = FALSE /\ activated = "never" /\ leftover = FALSE
  /\ lost = {} /\ failedInit = FALSE /\ slipped = FALSE

ObjectGone ==
  /\ inference' = FALSE /\ devices' = <<>> /\ assigned' = 0 /\ initialized' = FALSE
  /\ message' = FALSE /\ owned' = {} /\ backup' = <<>> /\ cookie' = FALSE

\* The client's session goes on with the call of that name.
Reply(kind, good) == Perform(kind, good) /\ plugin' # "misused"

------------------------------------------------------------------------------
(* Setup: providers and devices.                                           *)

\* What the plugin lists for a provider that is ready and reports no device.
Presumed(ep) ==
  CASE ep = "NvTensorRtRtx" -> <<[ep |-> ep, type |-> "GPU", vendor |-> "nvidia"]>>
    [] ep = "OpenVINO" -> <<[ep |-> ep, type |-> "NPU", vendor |-> "intel"],
                            [ep |-> ep, type |-> "GPU", vendor |-> "intel"]>>
    [] ep = "QNN" -> <<[ep |-> ep, type |-> "NPU", vendor |-> "qualcomm"],
                       [ep |-> ep, type |-> "GPU", vendor |-> "qualcomm"]>>
    [] ep = "RyzenAI" -> <<[ep |-> ep, type |-> "NPU", vendor |-> "amd"]>>
    [] OTHER -> <<>>

Wants(r, d) == r.type \in {d.type, Unset} /\ r.ep \in {d.ep, Unset}
WantsVendor(r, d) == r.vendor \in {d.vendor, Unset}

\* The elements of a sequence that are in a set, in their order.
Among(seq, set) ==
  LET to[n \in 0 .. Len(seq)] ==
        IF n = 0 THEN <<>>
        ELSE IF seq[n] \in set THEN Append(to[n - 1], seq[n]) ELSE to[n - 1]
  IN to[Len(seq)]

\* Devices that report themselves, then the presumed ones, then DirectML's.
DetectWindowsMLDevices(r, ready, silent) ==
  LET reported == {d \in ToSet(Hardware) : d.ep \notin silent /\ Wants(r, d)}
      directML == {d \in reported : d.ep = "DirectML"}
      known == Among(Hardware, reported \ directML)
      Missing(ep) == ep \in ready /\ \A i \in DOMAIN known : known[i].ep # ep
      presumed == FlattenSeq([i \in DOMAIN Catalog |->
                    IF Missing(Catalog[i]) THEN Presumed(Catalog[i]) ELSE <<>>])
      found == known \o Among(presumed, {d \in ToSet(presumed) : Wants(r, d)})
                     \o Among(Hardware, directML)
  IN Among(found, {d \in ToSet(found) : WantsVendor(r, d)})

\* The catalog is asked once in a process; the first answer stands.
EnsureAndRegisterEPs_OrFails ==
  \/ activated # "never" /\ UNCHANGED activated
  \/ activated = "never" /\ activated' \in {"success", "noEp", "failed"}

EnsureAndRegisterEPs ==
  \/ activated # "never" /\ UNCHANGED activated
  \/ activated = "never" /\ activated' \in {"success", "noEp"}

\* DirectML needs nothing of the catalog.
EPsAreReady(r) == activated' = "success" \/ r.ep = "DirectML"

NeedsSearchPath(r) == r.ep = "NvTensorRtRtx"

Providers == ToSet(Catalog) \cup {Hardware[i].ep : i \in DOMAIN Hardware}

\* The object is kept when its constructor left no message.  Without one the
\* Setup has succeeded all the same.
BaseInference(r) ==
  /\ EnsureAndRegisterEPs
  /\ \E ready \in SUBSET ToSet(Catalog), silent \in SUBSET Providers :
       LET found == DetectWindowsMLDevices(r, ready, silent)
       IN IF EPsAreReady(r) /\ found # <<>>
          THEN inference' = TRUE /\ devices' = found /\ cookie' \in {FALSE, NeedsSearchPath(r)}
          ELSE inference' = FALSE /\ devices' = <<>> /\ cookie' = FALSE

UnsupportedScenario ==
  inference' = FALSE /\ devices' = <<>> /\ cookie' = FALSE /\ UNCHANGED activated

API_IHV_Setup ==
  /\ plugin = "none"
  /\ request' \in Requests
  /\ Reply("setup", TRUE)
  /\ BaseInference(request') \/ UnsupportedScenario
  /\ lost' = {} /\ failedInit' = FALSE /\ slipped' = FALSE
  /\ UNCHANGED <<assigned, initialized, message, owned, backup, file, leftover>>

\* A constructor that throws has no destructor: its entry in the search path,
\* if it made one, stays.
SetupThrows ==
  /\ plugin = "none"
  /\ request' \in Requests
  /\ Reply("setup", FALSE)
  /\ leftover' \in {leftover, leftover \/ NeedsSearchPath(request')}
  /\ EnsureAndRegisterEPs \/ UNCHANGED activated
  /\ UNCHANGED <<object, file, cookie, history>>

------------------------------------------------------------------------------
(* Init: a device, its model, its configuration.                           *)

Device == devices[request.id + 1]
IsValidDevice == request.id < Len(devices)

\* A configuration that does not parse is passed over.
ModelsOf(d) == {m \in DOMAIN Models : Models[m].ep = d.ep /\ file[m].whole}

\* Providers some configuration names, and one that is taken for granted.
Available(d) == d.ep = "NvTensorRtRtx" \/ ModelsOf(d) # {}

\* A device before this one is available and has no model: the loop returns.
Abandoned(i) ==
  \E j \in 1 .. i : Available(devices[j]) /\ ModelsOf(devices[j]) = {}

\* The first model of the device's type, by its path or by what its configuration
\* says by now, or else the first; 0 when there is none.
AssignModel(d) ==
  LET sameType == {m \in ModelsOf(d) : d.type \in {Models[m].type, file[m].type}}
      candidates == IF sameType # {} THEN sameType ELSE ModelsOf(d)
  IN IF Abandoned(request.id + 1) \/ ModelsOf(d) = {}
     THEN 0
     ELSE Min(candidates)

\* A device no model is found for keeps the one it had.
AssignModelForDevices ==
  assigned' = IF AssignModel(Device) = 0 THEN assigned ELSE AssignModel(Device)

\* The options this plugin writes for OpenVINO: nothing takes the agentic one away.
\* Other providers get lengths only.
Adapted(config, d) ==
  IF d.ep # "OpenVINO" THEN config
  ELSE [type |-> request.type,
        causal |-> config.causal \/ (request.agentic /\ request.type = "GPU"),
        whole |-> TRUE]

NeedsConfig(d) == d.ep \in {"DirectML", "OpenVINO", "NvTensorRtRtx", "RyzenAI"}

\* What is written is not looked after: a file that cannot be opened stays as it
\* is, and one that was cut short is taken for written.
Torn(m) == [file EXCEPT ![m].whole = FALSE]
Rewrites(m, new) == file' \in {[file EXCEPT ![m] = new], Torn(m)}

\* The copy that is kept is the changed one.  Without options where they are looked
\* for nothing is done.
SetupGenaiConfigForEP(m) ==
  IF ~NeedsConfig(Device) \/ Models[m].nested
  THEN slipped' = FALSE /\ UNCHANGED <<file, backup>>
  ELSE /\ backup' = <<m, Adapted(file[m], Device)>>
       /\ \/ slipped' = FALSE /\ Rewrites(m, Adapted(file[m], Device))
          \/ slipped' = TRUE /\ UNCHANGED file

\* Nothing else is done: there is no object, or a message from before, or what
\* the client passed does not parse.
InitRefused ==
  /\ Reply("init", FALSE)
  /\ message' \in {message, message \/ (inference /\ initialized)}
  /\ failedInit' = TRUE
  /\ UNCHANGED <<request, inference, devices, assigned, initialized, owned, backup, file,
                 cookie, activated, lost, slipped, leftover>>

\* The model's settings, the device, its model or its configuration are not there,
\* or the configuration does not parse.
InitUnable ==
  /\ inference /\ ~message /\ ~initialized
  /\ Reply("init", FALSE)
  /\ message' = TRUE /\ failedInit' = TRUE
  /\ UNCHANGED assigned \/ (IsValidDevice /\ AssignModelForDevices)
  /\ UNCHANGED <<request, inference, devices, initialized, owned, backup, file, cookie,
                 activated, lost, slipped, leftover>>

\* The device has a model, and its configuration is read.
Configures ==
  /\ IsValidDevice
  /\ AssignModelForDevices
  /\ assigned' # 0 /\ file[assigned'].whole
  /\ SetupGenaiConfigForEP(assigned')

\* ONNX Runtime fails over the model, for one over a configuration that is torn, or
\* over the parameters.
InitFails ==
  /\ inference /\ ~message /\ ~initialized
  /\ Reply("init", FALSE)
  /\ Configures
  /\ \E made \in {{}} \cup (IF file'[assigned'].whole THEN {{"model"}, Kept} ELSE {}) :
       owned' = owned \cup made
  /\ message' = TRUE /\ failedInit' = TRUE
  /\ UNCHANGED <<request, inference, devices, initialized, cookie, activated, lost, leftover>>

InitLoads ==
  /\ inference /\ ~message /\ ~initialized
  /\ Reply("init", TRUE)
  /\ Configures
  /\ file'[assigned'].whole
  /\ owned' = owned \cup Kept
  /\ initialized' = TRUE
  /\ UNCHANGED <<request, inference, devices, message, cookie, activated, lost, failedInit,
                 leftover>>

API_IHV_Init == InitRefused \/ InitUnable \/ InitFails \/ InitLoads

------------------------------------------------------------------------------
(* Prepare, Infer, Reset: the first and the last only look for a message.  *)

Healthy == inference /\ ~message

API_IHV_Prepare ==
  /\ Reply("prepare", Healthy)
  /\ UNCHANGED <<request, object, file, cookie, activated, history, leftover>>

API_IHV_Reset ==
  /\ Reply("reset", Healthy)
  /\ UNCHANGED <<request, object, file, cookie, activated, history, leftover>>

\* A pointer that is not null when a run begins is overwritten.
Overwritten(made) == lost' = lost \cup (owned \cap made)

RunEnds ==
  /\ Overwritten(PerRun)
  /\ owned' = owned \ PerRun
  /\ UNCHANGED message

\* A run that fails keeps its message to itself.
RunFails_Silent ==
  \E made \in {{}, {"sequences"}, PerRun} :
    Overwritten(made) /\ owned' = owned \cup made /\ UNCHANGED message

RunFails ==
  \E made \in {{}, {"sequences"}, PerRun} :
    /\ Overwritten(made)
    /\ owned' = owned \cup made
    /\ message' = TRUE

NoRun == message' = (message \/ inference) /\ UNCHANGED <<owned, lost>>

API_IHV_Infer ==
  /\ \E good \in BOOLEAN : Reply("infer", good)
  /\ IF inference /\ initialized THEN RunEnds \/ RunFails \/ NoRun ELSE NoRun
  /\ UNCHANGED <<request, inference, devices, assigned, initialized, backup, file, cookie,
                 activated, failedInit, slipped, leftover>>

------------------------------------------------------------------------------
(* Deinit, Release, and what comes after.                                  *)

\* What was kept is written back, as far as that goes.
Restores == UNCHANGED file \/ (backup # <<>> /\ Rewrites(backup[1], backup[2]))

\* The message of a failed run survives the unloading.
Unload_KeepsMessage ==
  /\ owned' = {} /\ initialized' = FALSE
  /\ Restores
  /\ UNCHANGED <<message, lost>>

\* A model that cannot be destroyed is forgotten, with a message.
Unload ==
  /\ owned' = {} /\ initialized' = FALSE
  /\ \/ message' = FALSE /\ UNCHANGED lost
     \/ "model" \in owned /\ message' = TRUE /\ lost' = lost \cup {"model"}
  /\ Restores

\* Without a model there is nothing to unload, which is an error of its own.
API_IHV_Deinit ==
  /\ IF inference /\ initialized
     THEN Unload
     ELSE message' = inference /\ UNCHANGED <<owned, initialized, lost, file>>
  /\ Reply("deinit", inference /\ ~message')
  /\ UNCHANGED <<request, inference, devices, assigned, backup, cookie, activated, failedInit,
                 slipped, leftover>>

\* The destructor unloads what is loaded, and only that.
API_IHV_Release ==
  /\ plugin # "none"
  /\ Reply("release", TRUE)
  /\ IF initialized
     THEN Restores /\ lost' \in {lost, lost \cup (owned \cap {"model"})}
     ELSE UNCHANGED file /\ lost' = lost \cup owned
  /\ ObjectGone
  /\ UNCHANGED <<request, activated, failedInit, slipped, leftover>>

\* The next session, in this process or another.
NextSession ==
  /\ plugin \in Released
  /\ plugin' = "none"
  /\ \/ UNCHANGED <<activated, leftover>>
     \/ activated' = "never" /\ leftover' = FALSE
  /\ UNCHANGED <<request, object, file, cookie, history>>

\* The process ends or crashes at any moment, within a writing of the file too.
ProcessDies ==
  /\ plugin \notin Released
  /\ plugin' = "none"
  /\ ObjectGone
  /\ activated' = "never" /\ leftover' = FALSE
  /\ lost' = {} /\ failedInit' = FALSE /\ slipped' = FALSE
  /\ \/ UNCHANGED file
     \/ /\ plugin = "idle" /\ inference /\ ~message /\ IsValidDevice
        /\ \E m \in ModelsOf(Device) :
             NeedsConfig(Device) /\ ~Models[m].nested /\ Rewrites(m, Adapted(file[m], Device))
     \/ initialized /\ Restores
  /\ UNCHANGED request

Next ==
  \/ API_IHV_Setup \/ SetupThrows
  \/ API_IHV_Init \/ API_IHV_Prepare \/ API_IHV_Infer \/ API_IHV_Reset
  \/ API_IHV_Deinit \/ API_IHV_Release \/ NextSession \/ ProcessDies

Spec == Init /\ [][Next]_vars

------------------------------------------------------------------------------
(* Properties.                                                             *)

\* Every variable keeps its type; in particular the outcome "could not be
\* activated", which the plugin provides for, is never stored: what fails there
\* throws.
TypeOK ==
  /\ plugin \in PluginState /\ request \in Requests
  /\ \A i \in DOMAIN devices : Wants(request, devices[i])
  /\ {inference, initialized, message, cookie, failedInit, slipped, leftover} \subseteq BOOLEAN
  /\ assigned \in 0 .. Len(Models)
  /\ owned \subseteq Kept \cup PerRun /\ lost \subseteq Kept \cup PerRun
  /\ file \in [DOMAIN Models -> Configs]
  /\ backup \in {<<>>} \cup ((DOMAIN Models) \X Configs)
  /\ activated \in {"never", "success", "noEp"}

Running == plugin \in {"loaded", "prepared", "ran"}

\* A client that was told its model is loaded has one: whole, for a device it
\* asked for, with a configuration beside the model that parses and, if its options
\* are where they are looked for and the file could be opened, is for that device.
ModelIsLoaded ==
  Running =>
    /\ inference /\ initialized /\ Kept \subseteq owned
    /\ Wants(request, Device) /\ WantsVendor(request, Device)
    /\ assigned # 0 /\ Models[assigned].ep = Device.ep /\ file[assigned].whole
    /\ Device.ep = "OpenVINO" /\ ~Models[assigned].nested /\ ~slipped =>
         /\ file[assigned].type = request.type
         /\ request.agentic /\ request.type = "GPU" => file[assigned].causal

\* What a client may count on in a session, however it goes on after failures
\* (windowsml.cpp, llm_inference.cpp): a model reported as loaded is as asked
\* for; no message is left when a model is to be loaded, so that a failed
\* inference is forgotten once its model has been unloaded and loaded again;
\* no pointer to a live object is overwritten or dropped.  All of it but for a
\* model that could not be destroyed, which leaves a message, and a failed
\* Init, which is for good: no model is ever loaded again in that session, and
\* what it had made is lost.
ServesSession ==
  /\ ModelIsLoaded
  /\ plugin = "idle" /\ ~failedInit =>
       owned = {} /\ ~initialized /\ (message => "model" \in lost)
  /\ lost \subseteq Kept /\ (failedInit \/ lost \subseteq {"model"})
  /\ "model" \in lost => ~Running
  /\ failedInit => ~Running
=============================================================================
