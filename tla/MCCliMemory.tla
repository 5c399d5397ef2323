----------------------------- MODULE MCCliMemory -----------------------------
(***************************************************************************)
(* Instances for TLC of the two buffers that hold a session's lines: the   *)
(* history, with lines of one to four bytes, and the input buffer as the   *)
(* arena of executing lines.  A behaviour is about one of them; the other  *)
(* stays as it was initially.                                              *)
(***************************************************************************)
EXTENDS CliHistory, CliExecArena

VARIABLE part

ShortLines == {<<1>>, <<2>>, <<1, 2>>, <<2, 1, 1>>}

MCInit == HistoryInit /\ Init /\ part \in {"history", "arena"} /\ (part = "arena" => ~indexed)

MCNext ==
  /\ \/ part = "history" /\ HistoryNext /\ UNCHANGED vars
     \/ part = "arena" /\ Next /\ UNCHANGED historyVars
  /\ UNCHANGED part

MCSpec == MCInit /\ [][MCNext]_<<historyVars, vars, part>>

=============================================================================
