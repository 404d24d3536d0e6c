------------------------------- MODULE MCSession -------------------------------
(***************************************************************************)
(* Requests for Session: valid ones at the limits of their fields, and     *)
(* ones that are invalid in one way or in two.                             *)
(***************************************************************************)
EXTENDS Session

Text(n) == [len |-> n, blank |-> n = 0, form |-> TRUE]
Entry(keyLen, valLen) == [key |-> Text(keyLen), val |-> Text(valLen)]

Second == [mode |-> "SECOND", symbols |-> <<>>, start |-> "none", metadata |-> {}]
OnlySecond == {Second}

AllRequests ==
    {Second,
     [Second EXCEPT !.mode = "MINUTE", !.symbols = <<Text(MaxSymbolLength)>>,
                    !.start = "fresh",
                    !.metadata = {Entry(MaxMetadataKeyLength, MaxMetadataValLength)}],
     [Second EXCEPT !.mode = "unspecified"],
     [Second EXCEPT !.symbols = <<Text(1), [Text(MaxSymbolLength) EXCEPT !.form = FALSE]>>],
     [Second EXCEPT !.metadata = {Entry(MaxMetadataKeyLength + 1, 0), Entry(1, MaxMetadataValLength + 1)}]}
================================================================================
