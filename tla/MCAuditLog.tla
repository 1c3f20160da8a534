----------------------------- MODULE MCAuditLog -----------------------------
EXTENDS AuditLog

CONSTANTS c1, c2, out, s3, cw

(* A composite of CloudWatch and S3, which set_audit_sink then replaces by *)
(* stdout: the second sink of the composite may raise after the first took *)
(* the event, and the S3 sink is closed with events in its buffer.         *)
CompositeThenStdout == <<<<cw, s3>>, <<out>>>>
=============================================================================
