------------------------------- MODULE MCLogStream -------------------------------
(***************************************************************************)
(* An instance of Convert, with LogStream under it, and one of StringPiece   *)
(* for TLC.  They share no state, so TLC looks at each while the other rests. *)
(***************************************************************************)
EXTENDS Convert, StringPiece

\* A signed type, and an unsigned one that reaches twice as far up.
MCMin == -128

MCLengths == {-1, 0, 1, 6, 7, 11, 15, 16, 17}

StreamRests ==
    pc = "idle" /\ m_cur = 0 /\ touched = 0 /\ UNCHANGED convertVars

PieceRests ==
    (\A k \in {1, 2} : piece[k] = NoPiece) /\ (\A k \in DOMAIN memory : memory[k] = 0)
        /\ UNCHANGED pieceVars

StreamInit == ConvertInit /\ PieceInit

StreamNext ==
    \/ ConvertNext /\ PieceRests
    \/ PieceNext /\ StreamRests

StreamSpec == StreamInit /\ [][StreamNext]_<<convertVars, pieceVars>>
=============================================================================
