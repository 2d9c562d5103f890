--------------------------- MODULE DiffusersPlugin ---------------------------
(***************************************************************************)
(* The IHV plugin over Python's diffusers (CIL/IHV/Diffusers): a           *)
(* dispatcher that loads the library of a vendor, in it the handler, its   *)
(* ImageInference, and the bridge to an interpreter that is started once   *)
(* in a process and holds the pipeline in a variable of its __main__.      *)
(***************************************************************************)
EXTENDS VendorPlugin

VARIABLE python  \* of this process: "none", "started", or "installed" with the scripts

Init == VendorInit /\ python = "none"

\* The bridge to the interpreter does not start it yet.
BaseInference == inference' = TRUE

\* No vendor, or a library that does not load or answers null: the dispatcher is
\* deleted.
DispatcherSetup == (SetupObject(BaseInference) \/ SetupRefused) /\ UNCHANGED python

------------------------------------------------------------------------------
(* PythonBridge.                                                           *)

\* The interpreter is kept, the scripts stay installed; what fails is tried again.
InitInterpreter == python' \in {python, "started"} /\ (python = "installed" => UNCHANGED python)

EnsurePackageInstalled ==
  \/ InitInterpreter
  \/ python' = "installed"

\* The pipeline of __main__ is replaced by one that has been loaded completely.
LoadPipeline(loaded) ==
  /\ EnsurePackageInstalled
  /\ loaded => python' = "installed"
  /\ owned' = owned \cup (IF loaded THEN {"pipeline"} ELSE {})
  /\ UNCHANGED <<dangling, history>>

\* An exception is swallowed, and the pipeline stays where it is.
PythonBridge_Unload == owned' \in {{}, owned} /\ UNCHANGED <<dangling, reused, python>>

------------------------------------------------------------------------------
(* ImageInference.                                                         *)

ImageInference_Init ==
  /\ \/ /\ message \/ initialized
        /\ Report /\ UNCHANGED <<initialized, python>> /\ KeepPointers
     \/ ~message /\ ~initialized /\ \E loaded \in BOOLEAN :
          LoadPipeline(loaded) /\ initialized' = loaded /\ message' = ~loaded
  /\ KeepRun

ImageInference_Prepare ==
  /\ IF initialized THEN message' = FALSE /\ output' = {}
     ELSE Report /\ UNCHANGED output
  /\ KeepPointers /\ UNCHANGED <<initialized, dirty, python>>

ImageInference_Run ==
  /\ \/ Report /\ UNCHANGED output
     \/ initialized /\ UNCHANGED message /\ output' = {"this"}
  /\ KeepPointers /\ UNCHANGED <<initialized, dirty, python>>

ImageInference_Reset ==
  /\ message' = FALSE /\ output' = {}
  /\ KeepPointers /\ UNCHANGED <<initialized, dirty, python>>

\* A message is not looked at before the model is unloaded, nor cleared then.
ImageInference_Deinit_KeepsMessage ==
  /\ IF initialized
     THEN PythonBridge_Unload /\ output' = {} /\ initialized' = FALSE
     ELSE UNCHANGED <<output, initialized, python, owned, dangling, reused>>
  /\ UNCHANGED <<message, dirty, lost>>

ImageInference_Deinit ==
  /\ IF initialized
     THEN PythonBridge_Unload /\ output' = {} /\ initialized' = FALSE /\ message' = FALSE
     ELSE UNCHANGED <<message, output, initialized, python, owned, dangling, reused>>
  /\ UNCHANGED <<dirty, lost>>

------------------------------------------------------------------------------
(* The handler.                                                            *)

\* The probe runs in the same interpreter; when it fails, a list is made up.
API_IHV_EnumerateDevices ==
  /\ inference
  /\ Reply("enumerate", TRUE)
  /\ EnsurePackageInstalled
  /\ UNCHANGED vendor

API_IHV_Init == Handle("init", ImageInference_Init)

API_IHV_Prepare == Handle("prepare", ImageInference_Prepare)

API_IHV_Infer == Handle("infer", ImageInference_Run)

API_IHV_Reset == Handle("reset", ImageInference_Reset)

API_IHV_Deinit == Handle("deinit", ImageInference_Deinit)

NotHandled ==
  /\ \E kind \in {"init", "prepare", "infer", "reset", "deinit"} : Unhandled(kind)
  /\ UNCHANGED python

\* The destructor unloads a pipeline that is initialized.  The struct the
\* dispatcher answered with is never deleted.
API_IHV_Release ==
  /\ \E stays \in {owned} \cup (IF initialized THEN {{}} ELSE {}) :
       ReleaseObject(stays \cup {"struct"})
  /\ UNCHANGED <<reused, python>>

Next ==
  \/ DispatcherSetup \/ API_IHV_EnumerateDevices
  \/ API_IHV_Init \/ API_IHV_Prepare \/ API_IHV_Infer \/ API_IHV_Reset
  \/ API_IHV_Deinit \/ API_IHV_Release \/ NotHandled

------------------------------------------------------------------------------

\* A model that is reported as loaded is in an interpreter that has the scripts;
\* whatever failed before the model was loaded again is forgotten, but for an
\* Init that failed to load, after which none succeeds.  A pipeline is lost only
\* with the session.
Serves ==
  /\ ServesRuns({"pipeline"})
  /\ Running => initialized /\ python = "installed"
  /\ initialized => "pipeline" \in owned
  /\ plugin = "idle" => ~initialized /\ (message => failedInit)
  /\ plugin = "idle" => output = {}
  /\ plugin \notin Released => lost = {}
  /\ dangling = {} /\ reused = {}
=============================================================================
