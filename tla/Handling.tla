------------------------------ MODULE Handling ------------------------------
(* What the modules of one process's request handlers have in common.      *)
CONSTANTS
    Handlers,   \* the requests that can be in flight at once
    None        \* no value
=============================================================================
