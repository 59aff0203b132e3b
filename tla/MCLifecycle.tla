---------------------------- MODULE MCLifecycle ----------------------------
(* Command lines for Lifecycle: a proper one, a network with a bit outside  *)
(* its mask, a mask with a hole, a malformed argument, a missing argument.  *)
EXTENDS Lifecycle

CommandLine(count, wellformed, network, mask) ==
    [count |-> count, wellformed |-> wellformed, network |-> network, mask |-> mask]

MCArguments ==
    {CommandLine(6, TRUE, {2}, {1, 2}),
     CommandLine(6, TRUE, {0, 2}, {1, 2}),
     CommandLine(6, TRUE, {2}, {0, 2}),
     CommandLine(6, FALSE, {2}, {1, 2}),
     CommandLine(5, TRUE, {2}, {1, 2})}
=============================================================================
