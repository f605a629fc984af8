--------------------------------- MODULE Ephemeral_MC ---------------------------------
(* Requests for Ephemeral: two factories with the same name of the database, one of *)
(* which also makes private databases.                                              *)
EXTENDS Ephemeral, TLC

RequestsDef ==
    [factory : {"f1", "f2"}, opt : {"NAMED"}] \cup [factory : {"f1"}, opt : {"IN_MEMORY"}]

CallSymmetry == Permutations(Calls)
=============================================================================
