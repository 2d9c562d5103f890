--------------------------- MODULE LlamaCppPlugin ---------------------------
(***************************************************************************)
(* The IHV plugin for llama.cpp (CIL/IHV/GGML): a dispatcher that loads    *)
(* the library of a backend and passes every call on, and in that library  *)
(* the handler and its LLMInference.  A model that does not fit the GPU is *)
(* loaded with as many layers as do, found by bisection.                   *)
(***************************************************************************)
EXTENDS Integers, FiniteSetsExt, VendorPlugin

CONSTANTS
  TotalLayers,  \* layers of the model
  LayersWanted  \* settings of gpu_layers; 0 for the CPU

VARIABLES
  capacity,     \* layers the device's memory takes, -1 when not even the context
  layers        \* layers of the model that is loaded

memory == <<capacity, layers>>

Init == VendorInit /\ capacity = 0 /\ layers = 0

\* The device is whichever there is.
LLMInference == inference' = TRUE

\* A backend it has no library for, a library that does not load or answers
\* null: the dispatcher deletes itself.
DispatcherSetup ==
  \/ SetupObject(LLMInference) /\ capacity' \in -1 .. TotalLayers /\ UNCHANGED layers
  \/ SetupRefused /\ UNCHANGED memory

------------------------------------------------------------------------------
(* LLMInference.                                                           *)

InMemory(n) == Min({n, TotalLayers})
Fits(n) == InMemory(n) <= capacity

LoadModelAndContext(n) ==
  Fits(n) /\ Assigned({"model", "context"}) /\ layers' = InMemory(n)

\* One step of the bisection, which ends when there is nothing left between.
Bisected(s) ==
  LET mid == (s.low + s.high) \div 2
  IN IF s.low > s.high THEN s
     ELSE IF Fits(mid) THEN [low |-> mid + 1, high |-> s.high, best |-> mid]
     ELSE [low |-> s.low, high |-> mid - 1, best |-> s.best]

\* The most layers that fit, 0 when not even one does.
DeducedLayers ==
  LET search[n \in 0 .. TotalLayers] ==
        IF n = 0 THEN [low |-> 1, high |-> TotalLayers, best |-> 0]
        ELSE Bisected(search[n - 1])
  IN search[TotalLayers].best

SafeLayers_NoMargin == DeducedLayers

\* A margin of two layers is left for the inference.
SafeLayers == Max({DeducedLayers - 2, 0})

\* The settings or the model's file are not usable.
LoadFails == Report /\ KeepPointers /\ UNCHANGED layers

\* The device is looked for in a list it is not in: anything may be read there.
UnknownDevice ==
  /\ Report
  /\ \/ Assigned({"model", "context"}) /\ layers' \in 0 .. TotalLayers
     \/ KeepPointers /\ UNCHANGED layers

LLMInference_Init ==
  /\ \/ LoadFails
     \/ UnknownDevice
     \/ \E wanted \in LayersWanted :
          \/ LoadModelAndContext(wanted) /\ UNCHANGED message
          \/ ~Fits(wanted) /\ LoadModelAndContext(SafeLayers) /\ UNCHANGED message
          \/ ~Fits(wanted) /\ ~Fits(SafeLayers) /\ LoadFails
  /\ KeepRun /\ UNCHANGED <<initialized, capacity, reused>>

\* Too many tokens, or none.
InputRefused == Report /\ UNCHANGED <<dirty, lost>>

\* The chain of samplers is not freed.
MethodUnsupported == Report /\ lost' = lost \cup {"sampler"} /\ UNCHANGED dirty

\* Left, on an error of the prompt or on an exception, before the context's
\* memory is cleared.
LeftUncleared == Report /\ dirty' = TRUE /\ UNCHANGED lost

Generates_Uncleared == message' \in BOOLEAN /\ dirty' = TRUE /\ UNCHANGED lost

\* To the end or to a batch that fails.
Generates == message' \in BOOLEAN /\ dirty' = FALSE /\ UNCHANGED lost

LLMInference_Run ==
  /\ InputRefused \/ MethodUnsupported \/ LeftUncleared \/ Generates
  /\ UNCHANGED <<initialized, owned, dangling, output, reused, memory>>

LLMInference_Deinit ==
  /\ owned' = {} /\ message' = FALSE /\ dirty' = FALSE
  /\ UNCHANGED <<initialized, dangling, output, history, memory>>

------------------------------------------------------------------------------
(* The handler.                                                            *)

API_IHV_Init == Handle("init", LLMInference_Init)

API_IHV_Prepare == Handle("prepare", UNCHANGED <<object, history, memory>>)

API_IHV_Infer == Handle("infer", LLMInference_Run)

API_IHV_Reset == Handle("reset", UNCHANGED <<object, history, memory>>)

API_IHV_Deinit == Handle("deinit", LLMInference_Deinit)

NotHandled ==
  /\ \E kind \in {"init", "prepare", "infer", "reset", "deinit"} : Unhandled(kind)
  /\ UNCHANGED memory

\* There is no destructor; what the dispatcher was given is not deleted either.
API_IHV_Release == ReleaseObject(owned \cup {"struct"}) /\ UNCHANGED <<reused, memory>>

Next ==
  \/ DispatcherSetup \/ NotHandled
  \/ API_IHV_Init \/ API_IHV_Prepare \/ API_IHV_Infer \/ API_IHV_Reset
  \/ API_IHV_Deinit \/ API_IHV_Release

------------------------------------------------------------------------------

\* The model is on the GPU with the layers asked for, or with two fewer than its
\* memory takes; an unloading mends whatever went wrong in the session; only
\* what was never unloaded, and samplers, are lost.
Serves ==
  /\ ServesRuns({"model", "context"})
  /\ Running => /\ layers <= capacity
                /\ layers \in {InMemory(w) : w \in LayersWanted} \cup {Max({capacity - 2, 0})}
  /\ plugin = "idle" => ~message /\ ~dirty /\ owned = {}
  /\ plugin \notin Released => lost \subseteq {"sampler"}
  /\ dangling = {} /\ reused = {}
=============================================================================
