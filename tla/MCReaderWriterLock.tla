------------------------- MODULE MCReaderWriterLock -------------------------
(* For TLC: ReaderWriterLock with the constants of the configuration. *)
EXTENDS ReaderWriterLock
=============================================================================
