---------------------------- MODULE MCRemoteStream ----------------------------
(* RemoteStream for TLC: pieces of three bytes, reads of two; a file in    *)
(* the middle of one piece, one over three pieces, one that is a piece,    *)
(* an empty one.                                                           *)
EXTENDS RemoteStream

MCFiles == {[from |-> 1, to |-> 2], [from |-> 2, to |-> 7],
            [from |-> 3, to |-> 6], [from |-> 4, to |-> 4]}
=============================================================================
