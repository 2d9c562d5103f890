------------------------------ MODULE Preparation ------------------------------
(***************************************************************************)
(* PreparationStage::Run (CIL/benchmark/preparation_stage.cpp): which of   *)
(* the execution providers a scenario is configured with are usable, and   *)
(* on which devices.                                                       *)
(*                                                                         *)
(* Every entry of the configuration is unpacked and loaded; then, library  *)
(* by library, the devices of the entries that use it are enumerated and   *)
(* an entry becomes one prepared entry per device asked for.  The names of *)
(* the providers are counted along the way, and the stage's result and its *)
(* report come from these counts.                                          *)
(***************************************************************************)
EXTENDS Integers, Sequences, FiniteSets

CONSTANTS
  E,            \* the number of entries, GetExecutionProviders()
  NameOf,       \* the name of each entry's provider
  LibraryOf,    \* the library each entry's assets are unpacked to
  FilterOf,     \* config_hash_: device type, vendor and provider asked for
  Enumerating,  \* the names whose devices are enumerated before a run
  MaxDevices,   \* bound: how many devices a plugin may find
  Requests      \* the command lines and configurations explored

Ep == 1 .. E
Names == {NameOf[e] : e \in Ep}

NotGiven == -2   \* no --device-id, or no device_id in the entry
All == -1        \* --device-id all

\* What the user may ask for: --enumerate-devices, --device-id, and the
\* device_id of every entry.
Request ==
  [enumerate : BOOLEAN,
   device : {NotGiven, All} \cup Nat,
   pinned : [Ep -> {NotGiven} \cup Nat]]

ASSUME PreparationAssumption ==
  /\ E \in Nat
  /\ MaxDevices \in Nat
  /\ Enumerating \subseteq Names
  /\ \A r \in Requests :
       /\ DOMAIN r = {"enumerate", "device", "pinned"}
       /\ r.enumerate \in BOOLEAN
       /\ r.device \in Int /\ r.device >= NotGiven
       /\ \A e \in Ep : r.pinned[e] \in Int /\ (r.pinned[e] = NotGiven \/ r.pinned[e] >= 0)

Key(e) == <<LibraryOf[e], NameOf[e], FilterOf[e]>>
Keys == {Key(e) : e \in Ep}
Unknown == -1

VARIABLES
  request,     \* what the user asked for
  prep,        \* where the stage is
  nextEp,      \* the entry the first loop has reached
  prepared,    \* prepared_eps_: entries with a device, in order
  ready,       \* prepared_ep_names_: how many entries of a name are prepared
  failedNames, \* failed_ep_names_
  libraries,   \* eps_libraries_ still to be visited: names with libraries
  library,     \* the one being visited
  seen,        \* how many of prepared_eps_ were looked at for it
  adjusted,    \* adjusted_eps
  known,       \* the process-wide cache: how many devices a key has
  reported,    \* the names in the stage's error message
  prepResult   \* what Run returned

prepVars == <<request, prep, nextEp, prepared, ready, failedNames, libraries,
              library, seen, adjusted, known, reported, prepResult>>

NoLibrary == <<>>

PrepInit ==
  /\ request \in Requests
  /\ prep = "load"
  /\ nextEp = 1
  /\ prepared = <<>>
  /\ ready = [n \in Names |-> 0]
  /\ failedNames = {}
  /\ libraries = {}
  /\ library = NoLibrary
  /\ seen = 0
  /\ adjusted = <<>>
  /\ known = [k \in Keys |-> Unknown]
  /\ reported = {}
  /\ prepResult = "none"

-----------------------------------------------------------------------------
\* An agentic scenario without a usable Python fails at once.
NoPython ==
  /\ prep = "load" /\ nextEp = 1
  /\ ~request.enumerate
  /\ prep' = "done"
  /\ prepResult' = "false"
  /\ UNCHANGED <<request, nextEp, prepared, ready, failedNames, libraries,
                 library, seen, adjusted, known, reported>>

\* An entry is not supported, or its dependencies, its assets or its library
\* fail; or its library loads.
LoadEp ==
  /\ prep = "load" /\ nextEp \in Ep
  /\ nextEp' = nextEp + 1
  /\ \/ /\ failedNames' = failedNames \cup {NameOf[nextEp]}
        /\ UNCHANGED <<prepared, ready, libraries>>
     \/ /\ prepared' = Append(prepared, <<nextEp, request.pinned[nextEp]>>)
        /\ ready' = [ready EXCEPT ![NameOf[nextEp]] = @ + 1]
        /\ libraries' = libraries \cup {<<NameOf[nextEp], LibraryOf[nextEp]>>}
        /\ UNCHANGED failedNames
  /\ UNCHANGED <<request, prep, library, seen, adjusted, known, reported, prepResult>>

EndLoading ==
  /\ prep = "load" /\ nextEp = E + 1
  /\ prep' = "libraries"
  /\ UNCHANGED <<request, nextEp, prepared, ready, failedNames, libraries,
                 library, seen, adjusted, known, reported, prepResult>>

-----------------------------------------------------------------------------
Matches(entry, lib) ==
  NameOf[entry[1]] = lib[1] /\ LibraryOf[entry[1]] = lib[2]

\* mark_ihv_eps_as_failed: the entries of that library in the list of now.
MarkFailed(entries, lib) ==
  LET marked == {i \in DOMAIN entries : Matches(entries[i], lib)}
  IN /\ ready' = [ready EXCEPT ![lib[1]] = @ - Cardinality(marked)]
     /\ failedNames' = IF marked = {} THEN failedNames ELSE failedNames \cup {lib[1]}

\* The next library: its devices are enumerated, or a device was asked for
\* that this provider has no notion of, or there is nothing to do.
VisitLibrary ==
  /\ prep = "libraries"
  /\ \E lib \in libraries :
       /\ libraries' = libraries \ {lib}
       /\ \/ /\ lib[1] \in Enumerating \/ request.enumerate
             /\ prep' = "devices" /\ library' = lib /\ seen' = 0 /\ adjusted' = <<>>
             /\ UNCHANGED <<ready, failedNames>>
          \/ /\ lib[1] \notin Enumerating /\ ~request.enumerate
             /\ request.device # NotGiven
             /\ MarkFailed(prepared, lib)
             /\ UNCHANGED <<prep, library, seen, adjusted>>
          \/ /\ lib[1] \notin Enumerating /\ ~request.enumerate
             /\ request.device = NotGiven
             /\ UNCHANGED <<prep, library, seen, adjusted, ready, failedNames>>
  /\ UNCHANGED <<request, nextEp, prepared, known, reported, prepResult>>

\* Variant: a device number one past the last is accepted.
OnDevices_PastTheEnd(entry, n) ==
  LET asked == IF request.device = NotGiven THEN entry[2] ELSE request.device
  IN IF asked < 0 THEN [d \in 1 .. n |-> <<entry[1], d - 1>>]
     ELSE IF asked <= n THEN << <<entry[1], asked>> >>
     ELSE <<>>

\* What becomes of an entry whose plugin found n devices: one entry for each,
\* or one for the device asked for, the command line coming first.
OnDevices(entry, n) ==
  LET asked == IF request.device = NotGiven THEN entry[2] ELSE request.device
  IN IF asked < 0 THEN [d \in 1 .. n |-> <<entry[1], d - 1>>]
     ELSE IF asked < n THEN << <<entry[1], asked>> >>
     ELSE <<>>

\* One entry of the list: of another library; of this one, with the devices
\* from the cache or from the plugin; or of this one, the plugin failing.
CheckEntry ==
  /\ prep = "devices" /\ seen < Len(prepared)
  /\ seen' = seen + 1
  /\ LET entry == prepared[seen + 1]
         key == Key(entry[1])
     IN \/ /\ ~Matches(entry, library)
           /\ adjusted' = Append(adjusted, entry)
           /\ UNCHANGED known
        \/ /\ Matches(entry, library)
           /\ \E n \in 0 .. MaxDevices :
                /\ known[key] \in {Unknown, n}
                /\ known' = [known EXCEPT ![key] = n]
                /\ adjusted' = adjusted \o OnDevices(entry, n)
        \/ /\ Matches(entry, library)
           /\ known[key] = Unknown
           /\ UNCHANGED <<known, adjusted>>
  /\ UNCHANGED <<request, prep, nextEp, prepared, ready, failedNames, libraries,
                 library, reported, prepResult>>

\* The adjusted list replaces the other; when no entry of the library got a
\* device, its entries in the new list are marked as failed.
EndLibrary ==
  /\ prep = "devices" /\ seen = Len(prepared)
  /\ prepared' = adjusted
  /\ prep' = "libraries"
  /\ IF request.enumerate \/ \E i \in DOMAIN adjusted : Matches(adjusted[i], library)
     THEN UNCHANGED <<ready, failedNames>>
     ELSE MarkFailed(adjusted, library)
  /\ library' = NoLibrary /\ seen' = 0 /\ adjusted' = <<>>
  /\ UNCHANGED <<request, nextEp, libraries, known, reported, prepResult>>

\* The report names the failed ones of which no entry is prepared.
EndPreparation ==
  /\ prep = "libraries" /\ libraries = {}
  /\ prep' = "done"
  /\ reported' = {n \in failedNames : ready[n] <= 0}
  /\ prepResult' = IF request.enumerate \/ \E n \in Names : ready[n] > 0
                   THEN "true" ELSE "false"
  /\ UNCHANGED <<request, nextEp, prepared, ready, failedNames, libraries,
                 library, seen, adjusted, known>>

PrepNext ==
  NoPython \/ LoadEp \/ EndLoading \/ VisitLibrary \/ CheckEntry \/ EndLibrary
    \/ EndPreparation

-----------------------------------------------------------------------------
(* Properties.                                                             *)

Entry == Ep \X ({NotGiven} \cup Nat)

PrepTypeOK ==
  /\ request \in Requests
  /\ prep \in {"load", "libraries", "devices", "done"}
  /\ nextEp \in 1 .. E + 1
  /\ prepared \in Seq(Entry) /\ adjusted \in Seq(Entry)
  /\ ready \in [Names -> Int]
  /\ failedNames \subseteq Names /\ reported \subseteq Names
  /\ libraries \subseteq Names \X {LibraryOf[e] : e \in Ep}
  /\ library = NoLibrary \/ library \in Names \X {LibraryOf[e] : e \in Ep}
  /\ seen \in 0 .. Len(prepared)
  /\ known \in [Keys -> {Unknown} \cup 0 .. MaxDevices]
  /\ prepResult \in {"none", "true", "false"}

EntriesOf(e) == {i \in DOMAIN prepared : prepared[i][1] = e}

\* README.md, --device-id and device_id: once the stage is through, an entry
\* whose devices are enumerated stands for the device that was asked for or,
\* when none or all were, for every device found, each once; and none of them
\* is a device the plugin did not find, whoever filled the cache.
DevicesAreAsAsked ==
  prep = "done" /\ nextEp = E + 1 =>
    \A e \in Ep :
      LET asked == IF request.device = NotGiven THEN request.pinned[e] ELSE request.device
          found == 0 .. known[Key(e)] - 1
          used == {prepared[i][2] : i \in EntriesOf(e)}
      IN NameOf[e] \in Enumerating /\ EntriesOf(e) # {} =>
           /\ used = (IF asked < 0 THEN found ELSE {asked})
           /\ used \subseteq found
           /\ \A i, j \in EntriesOf(e) : prepared[i] = prepared[j] => i = j

=============================================================================
