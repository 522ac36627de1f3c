------------------------------ MODULE MCEgress ------------------------------
(* Model-checking instances of Egress: small buffers, few frames. *)
EXTENDS Egress

\* Frame 2 is too long for the server's decoder.
SecondIsOversize == {2}
FirstIsOversize  == {1}
NoOversize       == {}
=============================================================================
