-------------------------- MODULE MCProcessorWorker --------------------------
(***************************************************************************)
(* Two invocations, of run or of run_exact, over one artifact.             *)
(***************************************************************************)
EXTENDS ProcessorWorker
=============================================================================
