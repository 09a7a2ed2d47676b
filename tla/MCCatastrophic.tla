--------------------------- MODULE MCCatastrophic ---------------------------
(* An instance of CatastrophicManager, and of the AuditLog it contains. *)
EXTENDS CatastrophicManager

CONSTANTS a, b,     \* threads
          x         \* the source that both of them pass

MCPfps == [risk : {"Critical", "Catastrophic"}, override : BOOLEAN,
           replay : BOOLEAN]

=============================================================================
