---------------------------------- MODULE Rekey_MC ----------------------------------
(* Environments for Rekey: what the ciphers do with the salt of the file and with *)
(* a page they cannot authenticate, the size of the cache and the faults.         *)
EXTENDS Rekey

\* From a raw key to a passphrase of ChaCha20, SQLCipher or Ascon-128, with spills.
SmallCache ==
    [salted |-> {New}, mac |-> Credentials, spills |-> TRUE,
     faults |-> {"spill", "delete", "playback"}]

\* The same with a cache that holds the transaction and errors that roll it back.
LargeCache ==
    [salted |-> {New}, mac |-> Credentials, spills |-> FALSE,
     faults |-> {"read", "commit", "rollback", "playback"}]

\* From RC4 or a wxSQLite3 cipher, which have neither salt nor MAC.
FromUnauthenticated == [SmallCache EXCEPT !.mac = {New}]

\* To one of them, or to no encryption.
ToUnauthenticated == [SmallCache EXCEPT !.salted = {}, !.mac = {Old}]

Passphrases == [SmallCache EXCEPT !.salted = Credentials]

AllEnvironments == {SmallCache, LargeCache, FromUnauthenticated, ToUnauthenticated}
OnlyPassphrases == {Passphrases}
OnlyLargeCache == {LargeCache}
OnlyToUnauthenticated == {ToUnauthenticated}
=============================================================================
