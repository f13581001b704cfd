---------------------------- MODULE MCFrameSagas ----------------------------
EXTENDS FrameSagas

MCKinds == {"stream", "plans", "edge", "svg", "path"}
MCSize == <<3, 1, 0>>
MCAttempts == [k \in MCKinds |-> IF k \in {"plans", "path"} THEN 1 ELSE 2]
=============================================================================
