--------------------------- MODULE MCReportStream ---------------------------
(* Report streams with room for two waiting commands: a tick of the polling *)
(* loop posts at most two.                                                  *)
EXTENDS ReportStream
=============================================================================
