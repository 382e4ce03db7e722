---------------------------- MODULE MCSupervisor ----------------------------
(* The supervisor of one device on small instances, for TLC. *)
EXTENDS Supervisor

Row(mem, util) ==
    [deadline |-> FALSE, exitZero |-> TRUE, marker |-> FALSE, stdout |-> "row",
     reading |-> [mem |-> mem, util |-> util]]

\* Every way a command can end; a tool killed at its timeout may have written
\* to stderr before.
MCCommands ==
    {Row("plenty", "low"), Row("plenty", "high"), Row("low", "low"),
     [Row("plenty", "low") EXCEPT !.stdout = "malformed"],
     [Row("plenty", "low") EXCEPT !.stdout = "nothing"]}
    \cup [deadline : {TRUE}, exitZero : {FALSE}, marker : BOOLEAN, stdout : {"row"},
          reading : {Row("plenty", "low").reading}]
    \cup [deadline : {FALSE}, exitZero : {FALSE}, marker : BOOLEAN, stdout : {"nothing"},
          reading : {Row("plenty", "low").reading}]

MCJudgements ==
    {[LowStability |-> FALSE, NewUncorr |-> FALSE], [LowStability |-> TRUE, NewUncorr |-> FALSE]}
=============================================================================
