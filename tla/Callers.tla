-------------------------------- MODULE Callers --------------------------------
(* Who calls into the bindings: the application's threads, and those of the    *)
(* runtime; None is no thread, no context and no reader.                       *)
CONSTANTS Threads, None
================================================================================
