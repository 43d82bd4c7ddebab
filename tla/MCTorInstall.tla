---------------------------- MODULE MCTorInstall ----------------------------
(* TorInstall on small instances, its versions under the names they have. *)
EXTENDS TorInstall

\* The pinned version and two later ones, whose last pieces are smaller.
ThreeNames ==
    <<Text(<<15, 0, 15>>, FALSE), Text(<<16, 0>>, FALSE), Text(<<16, 0, 4>>, FALSE)>>
=============================================================================
