---------------------------- MODULE MCCatalogue ----------------------------
(* An owner's requests and those of a user of another role; a second owner has *)
(* rows, but no request.                                                        *)
EXTENDS Catalogue, TLC

CONSTANTS c1, c2, o1, o2

MCOwnerOf == c1 :> o1 @@ c2 :> Null

Keys == Permutations(Tractors) \cup Permutations(Implements)
=============================================================================
