---------------------------- MODULE MCPprofStore ----------------------------
(***************************************************************************)
(* Instances of PprofStore for TLC: a process with nested scops, one with  *)
(* a scop left open, and one whose exiting thread has recorded nothing.    *)
(***************************************************************************)
EXTENDS PprofStoreProperties

ModelRecorded ==
  [p \in Processes |->
     LET mid == CASE p = "nested" -> << <<1, "ScopEnter">>, <<2, "ScopEnter">>, <<2, "ScopExit">>,
                                        <<1, "ScopExit">> >>
                  [] p = "cut" -> << <<1, "ScopEnter">> >>
                  [] OTHER -> <<>>
         all == (IF p = "empty" THEN <<>> ELSE << <<Total, "RegionEnter">> >>) \o mid
                  \o << <<Total, "RegionExit">> >>
     IN  [i \in DOMAIN all |-> Event(all[i][1], all[i][2], 2 ^ i)]]
=============================================================================
