--------------------------- MODULE MCWorkerProcess ---------------------------
(* The four consumers of the worker, in the order startWorkers starts them.   *)
EXTENDS WorkerProcess
StartOrder == <<"action", "fanout", "embedding", "view">>
================================================================================
