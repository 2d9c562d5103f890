---------------------------- MODULE VendorPlugin ----------------------------
(***************************************************************************)
(* What the vendors' IHV plugins have in common                            *)
(* (CIL/common/IHV_handler_class.h, CIL/common/base_inference_common): a   *)
(* handler that holds an inference object and, after each call it passes   *)
(* on, answers by whether that object has an error message.  The message   *)
(* stays until the object clears it, which each plugin does in places of   *)
(* its own.                                                                *)
(*                                                                         *)
(* Objects of the vendor's library are names: "owned" ones are alive and a *)
(* pointer leads to them, "dangling" pointers lead to what was destroyed.  *)
(* What the library answers is a free choice.                              *)
(***************************************************************************)
EXTENDS PluginSession

VARIABLES
  inference,    \* inference_ is not null
  initialized,  \* initialized_, where the plugin has it
  message,      \* error_message_ is not empty
  owned,        \* live objects a pointer leads to
  dangling,     \* pointers to destroyed objects
  dirty,        \* the model's context holds tokens of a run
  output,       \* whose results are in the buffer handed out: "this" run's, "earlier" ones'
  lost,         \* history: live objects of this session no pointer leads to any more
  reused,       \* history: destroyed objects of this session that were used again
  failedInit    \* history: an Init of this session failed

object == <<initialized, message, owned, dangling, dirty, output>>
history == <<lost, reused>>
vendor == <<inference, object, history, failedInit>>

NoObject ==
  /\ inference = FALSE /\ initialized = FALSE /\ message = FALSE
  /\ owned = {} /\ dangling = {} /\ dirty = FALSE /\ output = {}

VendorInit ==
  PluginInit /\ NoObject /\ lost = {} /\ reused = {} /\ failedInit = FALSE

\* The client's session goes on with the call of that name.
Reply(kind, good) == Perform(kind, good) /\ plugin' # "misused"

\* A scenario or a model that is not supported, or a constructor that leaves a
\* message, leaves no object; the Setup has succeeded all the same.
SetupObject(Construct) ==
  /\ plugin = "none"
  /\ Reply("setup", TRUE)
  /\ inference' = FALSE \/ Construct
  /\ UNCHANGED <<object, history, failedInit>>

SetupRefused == plugin = "none" /\ Reply("setup", FALSE) /\ UNCHANGED vendor

\* A call that is passed on to the object, if there is one: then the answer is
\* whether there is a message afterwards.
Handle(kind, Effect) ==
  /\ inference
  /\ Effect
  /\ Reply(kind, ~message')
  /\ failedInit' = (failedInit \/ (kind = "init" /\ message'))
  /\ UNCHANGED inference

\* Without an object every call fails; so does an Init whose settings do not parse.
Unhandled(kind) ==
  /\ ~inference \/ kind = "init"
  /\ Reply(kind, FALSE)
  /\ failedInit' = (failedInit \/ kind = "init")
  /\ UNCHANGED <<inference, object, history>>

Report == message' = TRUE
KeepPointers == UNCHANGED <<owned, dangling, history>>
KeepRun == UNCHANGED <<dirty, output>>

\* A pointer that is assigned: what it led to, if it was alive, is lost.
Assigned(made) ==
  /\ owned' = owned \cup made
  /\ dangling' = dangling \ made
  /\ lost' = lost \cup (owned \cap made)

ObjectGone ==
  /\ inference' = FALSE /\ initialized' = FALSE /\ message' = FALSE
  /\ owned' = {} /\ dangling' = {} /\ dirty' = FALSE /\ output' = {}

\* The object is deleted with the handler.
ReleaseObject(dropped) ==
  /\ plugin # "none"
  /\ Reply("release", TRUE)
  /\ lost' = lost \cup dropped
  /\ ObjectGone
  /\ UNCHANGED failedInit

\* The process ends or crashes, and a session begins in another one.
ProcessEnds ==
  /\ plugin \notin Released /\ plugin' = "none"
  /\ ObjectGone
  /\ lost' = {} /\ reused' = {} /\ failedInit' = FALSE

\* The results that are in the buffer once a run has added its own.
Appended == (IF output = {} THEN {} ELSE {"earlier"}) \cup {"this"}

------------------------------------------------------------------------------
(* What every one of these plugins promises.                               *)

Running == plugin \in {"loaded", "prepared", "ran"}

\* A client that was told its model is loaded has one, and begins a run with no
\* message from before and no tokens of an earlier run; what a run hands out is
\* its own.
ServesRuns(needed) ==
  /\ Running => inference /\ needed \subseteq owned
  /\ plugin = "prepared" => ~message /\ ~dirty
  /\ plugin = "ran" /\ ~message => "earlier" \notin output
=============================================================================
