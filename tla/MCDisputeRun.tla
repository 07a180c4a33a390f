----------------------------- MODULE MCDisputeRun -----------------------------
(***************************************************************************)
(* DisputeRun with three contracts: one that the script keeps a local      *)
(* source for, one that it knows but has no file of, and one it does not   *)
(* know.  The claims are of every kind, but that a blank document is read  *)
(* as a binary one is, and plain text as an object without a claim.  The   *)
(* replies put braces and quotes where a scan could trip.                  *)
(***************************************************************************)
EXTENDS DisputeRun, TLC

MCNameOf       == [bait |-> "BaitVault", pair |-> "Pair", other |-> "Other"]
MCKnownTargets == [bait |-> "BaitVault", pair |-> "Pair"]
MCLocalNames   == {"BaitVault"}
MCClaims       == {[uri |-> FALSE, doc |-> doc] : doc \in Docs \ {"blank", "plain"}}
                      \cup {[uri |-> TRUE, doc |-> "plain"]}

(* A brace in a string, a quote escaped there, an object in it, a fence.    *)
Plain   == [text |-> <<"{", "RETRACTED", "}">>, outcome |-> "RETRACTED"]
Quoted  == [text |-> <<"{", "quote", "}", "quote", "AMENDED", "}">>, outcome |-> "AMENDED"]
Nested  == [text |-> <<"{", "quote", "escape", "quote", "}", "quote", "{", "x", "}", "DISMISSED", "}">>,
            outcome |-> "DISMISSED"]
Code    == [text |-> <<"{", "quote", "fence", "quote", "AMENDED", "}">>, outcome |-> "AMENDED"]
Unclear == [text |-> <<"{", "x", "}">>, outcome |-> "x"]

Reply(fenced, pre, object, post) ==
    [fenced |-> fenced, pre |-> pre, object |-> object, post |-> post]

MCReplies ==
    {Reply(TRUE, <<>>, Plain, <<"fence">>), Reply(FALSE, <<"x", "fence">>, Quoted, <<"{", "}">>),
     Reply(FALSE, <<>>, Nested, <<"}">>), Reply(TRUE, <<>>, Code, <<"fence">>),
     Reply(TRUE, <<"x", "fence">>, Plain, <<>>), Reply(FALSE, <<"{", "x">>, Plain, <<>>),
     Reply(FALSE, <<>>, Unclear, <<>>)}

MCScenes == {Runs} \cup {{r, Verifier} : r \in Runs}
Symmetry == Permutations(Runs)
===============================================================================
