---------------------------- MODULE MCBenchmarkStage ----------------------------
(* Small instances of BenchmarkStage for TLC. *)
EXTENDS BenchmarkStage

\* Two entries of one provider, with the same devices to look for or not, and
\* one of a provider without devices.
MCNameOf == <<"gpu", "gpu", "cpu">>
MCLibraryOf == <<"a", "a", "b">>
MCFilterOf == <<"any", "any", "any">>

MCRequests ==
  {[enumerate |-> FALSE, device |-> NotGiven, pinned |-> <<NotGiven, 1, NotGiven>>],
   [enumerate |-> FALSE, device |-> 1, pinned |-> <<NotGiven, 0, 0>>],
   [enumerate |-> TRUE, device |-> All, pinned |-> <<0, 1, NotGiven>>],
   [enumerate |-> TRUE, device |-> NotGiven, pinned |-> <<NotGiven, 0, NotGiven>>]}

MCScenarios ==
  {[overriding |-> {}, sameContent |-> FALSE, sameName |-> TRUE],
   [overriding |-> {2}, sameContent |-> FALSE, sameName |-> FALSE],
   [overriding |-> {1}, sameContent |-> FALSE, sameName |-> TRUE],
   [overriding |-> {3}, sameContent |-> TRUE, sameName |-> FALSE]}

=============================================================================
