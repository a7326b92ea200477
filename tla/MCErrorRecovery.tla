--------------------------- MODULE MCErrorRecovery ---------------------------
(* Model values and bounds for ErrorRecovery. *)
EXTENDS ErrorRecovery

(* A network error, and a server error that is severe and has no workflow. *)
NetworkOnly == {"net"}
Both == {"net", "server"}
ServerOnly == {"server"}
=============================================================================
