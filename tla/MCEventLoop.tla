---------------------------- MODULE MCEventLoop ----------------------------
(* Instances of EventLoop for TLC. *)
EXTENDS EventLoop, TLC

CONSTANTS a, b, c

Jobs == {"nextTick", "queueMicrotask", "completion"}

\* One of each: an operation or a timer, an interval or an immediate, a job.
MixedUse == (a :> {"operation", "setTimeout"}) @@ (b :> {"setInterval", "setImmediate"})
              @@ (c :> Jobs)
=============================================================================
