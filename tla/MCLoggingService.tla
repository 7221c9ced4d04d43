-------------------------- MODULE MCLoggingService --------------------------
\* The model values of MCLoggingService.cfg.  There is no symmetry: the run
\* checks liveness.
EXTENDS LoggingService
=============================================================================
