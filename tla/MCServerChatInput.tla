-------------------------- MODULE MCServerChatInput --------------------------
(* Small instances of the server-input protocol for TLC.                   *)
EXTENDS ServerChatInput, TLC

(* Operations and commands are interchangeable.                            *)
Symmetric == Permutations(Ops) \cup Permutations(Commands)

(* Bound: the image is read by restarts only, so it is not written after   *)
(* the last one.                                                           *)
PersistBeforeRestart == restarts = MaxRestarts => slot' # Persisting
=============================================================================
