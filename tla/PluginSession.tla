----------------------------- MODULE PluginSession -----------------------------
(***************************************************************************)
(* What an IHV plugin sees of the client (CIL/IHV/IHV.h, CIL/api_handler): *)
(* the calls it is given, in the order IHV.h lists them, and whether each  *)
(* one succeeded.  A plugin is "misused" when a call comes that its state  *)
(* has no place for: a model loaded over another one, an inference without *)
(* a model or without Prepare, a Reset of nothing, a call after Release.   *)
(***************************************************************************)

VARIABLE plugin

PluginState ==
  {"none",      \* not set up
   "idle",      \* set up, no model: before Init and after Deinit
   "loaded",    \* Init succeeded, or Reset after an inference
   "broken",    \* Init, Prepare or Reset failed
   "prepared",  \* Prepare succeeded
   "ran",       \* Infer was called, whatever it returned
   "released",  \* Release came when no model was left to unload
   "leaked",    \* Release came over a model nobody unloaded
   "misused"}

Released == {"released", "leaked"}

\* A call that is in order when the plugin is in one of these states.
Answer(states, result) == plugin' = IF plugin \in states THEN result ELSE "misused"

PluginInit == plugin = "none"

Setup(good) == Answer({"none"}, IF good THEN "idle" ELSE "none")

\* A list of devices is asked for before a model is loaded.
Enumerate == Answer({"idle"}, "idle")

InitModel(good) == Answer({"idle"}, IF good THEN "loaded" ELSE "broken")

\* Prepare does not mend a model that failed to load.
Prepare(good) ==
  Answer({"loaded", "broken"},
         IF good /\ plugin = "loaded" THEN "prepared" ELSE "broken")

Infer == Answer({"prepared"}, "ran")

Reset(good) == Answer({"ran"}, IF good THEN "loaded" ELSE "broken")

\* A loop over Prepare, Infer, Reset may be left anywhere.  After an attempt to
\* unload nothing is held against the plugin.
Deinit == Answer({"loaded", "broken", "prepared", "ran"}, "idle")

Release ==
  Answer(PluginState \ (Released \cup {"misused"}),
         IF plugin \in {"loaded", "prepared", "ran"} THEN "leaked" ELSE "released")

\* The call of that name; what is not listed leaves the plugin as it is.
Perform(kind, good) ==
  \/ kind = "setup" /\ Setup(good)
  \/ kind = "enumerate" /\ Enumerate
  \/ kind = "init" /\ InitModel(good)
  \/ kind = "prepare" /\ Prepare(good)
  \/ kind = "infer" /\ Infer
  \/ kind = "reset" /\ Reset(good)
  \/ kind = "deinit" /\ Deinit
  \/ kind = "release" /\ Release
  \/ kind \in {"probe", "shutdown"} /\ UNCHANGED plugin

=============================================================================
