-------------------------- MODULE MCNetPackageParser --------------------------
(* A package set for model checking NetPackageParser. *)
EXTENDS NetPackageParser

Good(n) == [len |-> n, claim |-> n]

(* The empty package, and two of which one needs several reads; then a     *)
(* length field below the header's, one that is too long, and one that is  *)
(* valid but not the length of the package.                                *)
SomePackages ==
  {Good(2), Good(3), Good(5),
   [len |-> 2, claim |-> 0], [len |-> 3, claim |-> 9], [len |-> 4, claim |-> 2]}
=============================================================================
