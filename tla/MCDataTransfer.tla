--------------------------- MODULE MCDataTransfer ---------------------------
(***************************************************************************)
(* Values for the constants of DataTransfer that a .cfg cannot write.      *)
(***************************************************************************)
EXTENDS DataTransfer

MCPayload == {"a", "b"}

MCFile1 == <<"a">>

MCFile2 == <<"a", "b">>

MCFile3 == <<"a", "b", "a">>

MCFile4 == <<"a", "b", "a", "b">>

=============================================================================
