---------------------------- MODULE MCMonioRanks ----------------------------
(***************************************************************************)
(* Small instances of MonioRanks: three PEs in a row, of which the last    *)
(* has no halo point with the owner.                                       *)
(***************************************************************************)
EXTENDS MonioRanks

CONSTANTS input, output

Chain == {{0, 1}, {1, 2}}

ACall(op, p, conv) == [op |-> op, path |-> p, conv |-> conv]

MCCalls ==
    {ACall("read", input, LFRIC), ACall("read", output, LFRIC),
     ACall("write", output, JEDI), ACall("write", output, LFRIC),
     ACall("compute", output, LFRIC), ACall("initialise", input, LFRIC)}
=============================================================================
