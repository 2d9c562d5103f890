--------------------------- MODULE MCPlugins ---------------------------
(* An instance of Plugins for TLC. *)
EXTENDS Plugins

\* A machine with an Intel GPU and NPU and an Nvidia GPU, each GPU also DirectML's.
MCHardware ==
  <<[ep |-> "OpenVINO", type |-> "GPU", vendor |-> "intel"],
    [ep |-> "OpenVINO", type |-> "NPU", vendor |-> "intel"],
    [ep |-> "DirectML", type |-> "GPU", vendor |-> "nvidia"],
    [ep |-> "DirectML", type |-> "GPU", vendor |-> "intel"]>>

MCCatalog == <<"OpenVINO", "NvTensorRtRtx">>

\* A model for DirectML beside one for each of OpenVINO's types, one of which has
\* its options where they are not rewritten.
MCModels ==
  <<[ep |-> "DirectML", type |-> Unset, nested |-> FALSE],
    [ep |-> "OpenVINO", type |-> "NPU", nested |-> TRUE],
    [ep |-> "OpenVINO", type |-> "GPU", nested |-> FALSE]>>

Plain == [ep |-> "OpenVINO", type |-> "GPU", vendor |-> Unset, id |-> 0, agentic |-> FALSE]

\* A GPU for plain and for agentic scenarios, the second GPU of a vendor by any
\* provider, an NPU, and providers with and without a model.
MCRequests ==
  {Plain, [Plain EXCEPT !.agentic = TRUE],
   [Plain EXCEPT !.ep = Unset, !.vendor = "intel", !.id = 1],
   [Plain EXCEPT !.ep = Unset, !.id = 2],
   [Plain EXCEPT !.type = "NPU"],
   [Plain EXCEPT !.ep = "DirectML", !.id = 1],
   [Plain EXCEPT !.ep = "NvTensorRtRtx"]}
=============================================================================
