------------------------------ MODULE MCWSFrame ------------------------------
(* WSFrame on lengths around the boundaries of the three encodings and of the *)
(* largest frame that a DevTools client may send.                             *)
EXTENDS WSFrame

MCLengths ==
  (0..4) \cup (120..130) \cup (253..258) \cup (65533..65538) \cup {100000}
    \cup (2^24 - 1 .. 2^24 + 1)
MCOpcodes == {1, 2, 8, 9, 10}
=============================================================================
