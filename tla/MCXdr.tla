-------------------------------- MODULE MCXdr --------------------------------
(* Every message, with opaque fields of each length modulo four and words      *)
(* that need their highest bit and a middle byte.                              *)
EXTENDS Xdr

MCNames == DOMAIN Written
MCWords == {-2, 395183}
MCOpaques == {<< >>, <<7, 0, 255>>, <<1, 2, 3, 4, 5>>}
MCStatuses == {0, 1}

=============================================================================
