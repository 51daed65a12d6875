--------------------------- MODULE MCAddressSpace ---------------------------
(* One GiB is 4 pages and the entry count is 1 bit instead of 8: a section   *)
(* of 2 pages stands for one of 512 MiB.                                     *)
EXTENDS AddressSpace

MCStarts == {4, 6, 8, 28}
MCSizes == 0..3
=============================================================================
