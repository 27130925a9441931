------------------------------ MODULE Consumers ------------------------------
(* The two commands that read what the emit chain has left: the backtest and *)
(* the export to Brightway.  They write nothing the other reads, so a        *)
(* behaviour has one of them.                                                *)
EXTENDS Backtest, BwExport

ConsumersInit == BacktestInit /\ PortInit

ConsumersNext ==
    \/ BacktestNext /\ port = "none" /\ UNCHANGED portVars
    \/ PortNext /\ step = "link" /\ UNCHANGED runVars

ConsumersSpec == ConsumersInit /\ [][ConsumersNext]_<<vars, runVars, portVars>>
=============================================================================
