---------------------------- MODULE MCActionPipeline ----------------------------
(* Model-checking instance of ActionPipeline: the configurations give users,  *)
(* keys, requests and workers as model values and choose the faults.          *)
EXTENDS ActionPipeline
================================================================================
