----------------------------- MODULE MCNativeTask -----------------------------
(* Instances of NativeTask for TLC.                                        *)
EXTENDS NativeTask, TLC

CONSTANTS t1, t2, b1, outer, inner, session

\* A folder, a folder inside it, and a Claude Code session working in the
\* inner one.
AllOverlap == Resources \X Resources

Symmetric == Permutations(Tasks)
=============================================================================
