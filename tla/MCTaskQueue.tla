----------------------------- MODULE MCTaskQueue ------------------------------
(* Instances of TaskQueue: task ids are model values.                          *)
EXTENDS TaskQueue, TLC

CONSTANTS a, b, c
===============================================================================
