---------------------------- MODULE MCWorkerQueue ----------------------------
(* The worker queue for TLC, under the name of its run.                    *)
EXTENDS WorkerQueue

=============================================================================
