------------------------------- MODULE MCFile -------------------------------
(* Instances of FileReader. *)
EXTENDS FileReader

(* Of a file of two units: all of it, more than there is left, and nothing.*)
FewSections == {<<0, 2>>, <<1, 2>>, <<2, 1>>}

(* Of a file of four units. *)
AllSections == (0..4) \X (1..3)
=============================================================================
