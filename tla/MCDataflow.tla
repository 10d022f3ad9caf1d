------------------------------- MODULE MCDataflow -------------------------------
(* Every program of up to four instructions over two registers, with files *)
(* of latencies that are short, full, too long and bad.                    *)
EXTENDS DflowMain

MCOpcodes == {0, 1}
MCLatencyFiles == {<<3>>, <<1, 2>>, <<1, 2, 3>>, <<2, NotANumber>>}
=============================================================================
