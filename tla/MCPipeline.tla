----------------------------- MODULE MCPipeline -----------------------------
(***************************************************************************)
(* Pipeline with addresses of 3 hex digits: model answers with every text  *)
(* of up to MaxText characters, and with longer ones chosen for the        *)
(* overlaps that short ones do not reach.  A finding has its text for      *)
(* evidence, too, so that unsupported claims are in both.                  *)
(***************************************************************************)
EXTENDS Pipeline

CONSTANTS t, impl, demo, MaxText

Chars == {"0", "x", "1", "$", "%"}
Longer ==
    {<<"0", "x", "1", "1", "%">>, <<"0", "x", "1", ".", "1", "%">>,
     <<"$", "0", "x", "1", "1">>, <<"0", "x", "a", "1", "1", " ">>,
     <<"0", "x", "a", "1", "1", "x">>, <<"0", "x", "1", "1", "1", "1", "1", "%">>,
     <<"1", "1", " ", "%", "1", "%">>, <<"$", " ", "1", ",", "1", ".", "1", "%">>}
Texts == UNION {[1 .. n -> Chars] : n \in 0 .. MaxText} \cup Longer

Finding(severity, label, finding, fix) ==
    [object |-> TRUE, id |-> 9, severity |-> severity, label |-> label,
     finding |-> finding, fix |-> fix, evidence |-> finding]
MCReplies ==
    {[kind |-> "prose"],
     [kind |-> "array", items |-> <<[object |-> FALSE],
                                    Finding("high", "LABELED", <<"1", "%">>, <<>>),
                                    Finding("low", "COMPUTED", <<"1", "1", "%">>, <<"1", "1", "%">>)>>]}
    \cup {[kind |-> "array", items |-> <<Finding("severe", "VERIFIED", txt, fix)>>] :
              txt \in Texts, fix \in {<<>>, <<"1", "%">>}}

MCSourceText == t :> <<"1">> @@ impl :> <<"0", "x", "1", "1", ",">> @@ demo :> <<" ">>
MCCodeText == <<"1", "1", "0", "a", "1", "1">>

MCWorlds ==
    {[listing |-> "verified",   implListed |-> FALSE, hinted |-> TRUE,  metrics |-> "1.0"],
     [listing |-> "unverified", implListed |-> FALSE, hinted |-> TRUE,  metrics |-> "null"],
     [listing |-> "unverified", implListed |-> FALSE, hinted |-> FALSE, metrics |-> "1.0"],
     [listing |-> "proxy",      implListed |-> TRUE,  hinted |-> FALSE, metrics |-> "0.5"],
     [listing |-> "proxy",      implListed |-> FALSE, hinted |-> TRUE,  metrics |-> "1.0"]}

MCChecks(source, code) ==
    (IF source = impl THEN <<[id |-> 2, severity |-> "low", label |-> "ESTIMATED",
                              finding |-> <<>>, fix |-> <<>>, evidence |-> <<"0", "1">>],
                             [id |-> 1, severity |-> "medium", label |-> "COMPUTED",
                              finding |-> <<"$", "1">>, fix |-> <<>>, evidence |-> <<>>]>>
     ELSE <<>>)
    \o (IF code # <<>> THEN <<[id |-> 3, severity |-> "info", label |-> "VERIFIED",
                               finding |-> <<>>, fix |-> <<>>, evidence |-> <<>>]>> ELSE <<>>)
=============================================================================
