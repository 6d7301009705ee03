-------------------------- MODULE MCMultiHopRollout --------------------------
(***************************************************************************)
(* A chain and two protected routes of one entry to deploy, beside the     *)
(* chain of another entry that an earlier version of the panel may have    *)
(* left.                                                                   *)
(***************************************************************************)
EXTENDS MultiHopRollout

CONSTANTS a, b, c

Plain(chain) == [chain |-> chain, guarded |-> FALSE]
Protected(chain) == [chain |-> chain, guarded |-> TRUE]

Asked == {Plain(<<a, b, a>>), Protected(<<a, b, c, a>>), Protected(<<a, c, b, a>>)}
Old == {Plain(<<b, a>>)}
=============================================================================
