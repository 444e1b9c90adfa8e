----------------------------- MODULE InstancesMC -----------------------------
\* Instances for TLC: processes are interchangeable.
EXTENDS Instances, TLC

ProcSymmetry == Permutations(Procs)

=============================================================================
