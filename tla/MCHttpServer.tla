----------------------------- MODULE MCHttpServer -----------------------------
(* A small instance of the HTTP server for TLC.                            *)
EXTENDS HttpServer, TLC

CONSTANTS teacher, student, admin

MCRoleOf == [u \in Users |-> CASE u = teacher -> "teacher"
                               [] u = student -> "student"
                               [] u = admin -> "admin"]
MCCapacity == [e \in Equipment |-> 1]
MCQuota == [m \in Consumables |-> 0]
At(s) == [wall |-> s, frac |-> 0, zone |-> 0]
MCWindows == { [start |-> At(100), end |-> At(300)] }
MCReadings == { At(100) }
Symmetry == Permutations(Calls) \cup Permutations(Tokens)

=============================================================================
