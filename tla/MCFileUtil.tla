------------------------------- MODULE MCFileUtil -------------------------------
(***************************************************************************)
(* An instance of AppendFile, ReadSmallFile and ProcessInfo for TLC.  They   *)
(* share no state, so TLC looks at each while the others rest.              *)
(***************************************************************************)
EXTENDS AppendFile, ReadSmallFile, ProcessInfo

\* A maxSize may be negative.
MCMaxSizes == {-1, 0, 1, 3}

AppendRests == len = <<>> /\ m_fp /\ stream = <<>> /\ UNCHANGED vars
ReadRests   == readPc = "new" /\ changes = 0 /\ kind = "other" /\ file = <<>> /\ UNCHANGED readVars
InfoRests   == events = 0 /\ (\A t \in Callers : scans[t] = 0) /\ UNCHANGED infoVars

FileUtilInit == Init /\ ReadInit /\ InfoInit

FileUtilNext ==
    \/ Next /\ ReadRests /\ InfoRests
    \/ ReadNext /\ AppendRests /\ InfoRests
    \/ InfoNext /\ AppendRests /\ ReadRests

FileUtilSpec == FileUtilInit /\ [][FileUtilNext]_<<vars, readVars, infoVars>>
=============================================================================
