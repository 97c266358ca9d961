--------------------------- MODULE ConsoleWorkers ----------------------------
(* What the models of the MSP Console share.                               *)

CONSTANTS
    Workers,   \* gunicorn worker processes, each serving one request
    Slugs,     \* customers
    Nobody

ASSUME ConsoleAssumption == Nobody \notin Workers \cup Slugs
=============================================================================
