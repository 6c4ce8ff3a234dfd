--------------------------- MODULE MCKernelRoute ---------------------------
(***************************************************************************)
(* Instances of KernelRoute for TLC.                                       *)
(***************************************************************************)
EXTENDS KernelRoute

\* Act is called with no timeout and with a positive one.
MCTimeouts == {0, 2}
\* A positive timeout only.
MCPositiveTimeouts == {2}

\* Every netlink call may be refused.
MCAllFaults == NetlinkCalls
MCNoFaults == {}

=============================================================================
