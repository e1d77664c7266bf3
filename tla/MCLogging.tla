------------------------------- MODULE MCLogging -------------------------------
(* A FATAL message among three others; their order in the files may differ. *)
(* The settings are one for each thing Flush can do.                        *)
EXTENDS Logging

MCSeverity == <<"INFO", "FATAL", "WARN", "INFO">>

Setting(dir, program, also, async) ==
    [g_log_dir |-> dir, g_program_name |-> program, g_alsologtostderr |-> also, g_async |-> async]
MCSettings == {Setting(FALSE, TRUE, FALSE, FALSE), Setting(TRUE, FALSE, FALSE, FALSE),
               Setting(TRUE, TRUE, TRUE, FALSE), Setting(FALSE, TRUE, FALSE, TRUE)}
==============================================================================
