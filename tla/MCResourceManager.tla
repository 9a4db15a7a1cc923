-------------------------- MODULE MCResourceManager --------------------------
EXTENDS ResourceManager

(* A native thread, a wide parallel run, an external process with a memory *)
(* hint, and requests validation refuses (no thread, too many slots).      *)
Small == [cpu |-> 1, threads |-> 1, processes |-> 0, memory |-> 1]
Wide == [cpu |-> 2, threads |-> 1, processes |-> 0, memory |-> 0]
External == [cpu |-> 1, threads |-> 1, processes |-> 1, memory |-> 2]
NoThread == [cpu |-> 1, threads |-> 0, processes |-> 0, memory |-> 0]
TooWide == [cpu |-> 4, threads |-> 1, processes |-> 0, memory |-> 0]

MCRequests == {Small, Wide, External, NoThread, TooWide}
==============================================================================
