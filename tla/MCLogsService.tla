--------------------------- MODULE MCLogsService ---------------------------
(* The registry with two clients, two containers and a limit of one. *)
EXTENDS LogsService, TLC

Symmetry == Permutations(Sockets) \union Permutations(Containers)
              \union Permutations(Calls)
=============================================================================
