------------------------------ MODULE KeyConnection_MC ------------------------------
(* Model values for KeyConnection: the configurations the checks range over. *)
EXTENDS KeyConnection

\* Every predefined configuration, and two with their own iteration counts.
SqlCipher500k == With(SqlCipherDefault, [kdf_iter |-> 500000])
ChaCha20Custom == With(ChaCha20Default, [kdf_iter |-> 200000])
WxAES128Legacy == With(WxAES128Default, [legacy |-> 1])
SQLeet8k == With(SQLeet, [legacy_page_size |-> 8192])

Configs ==
    {ChaCha20Default, ChaCha20Custom, SQLeet, SQLeet8k, RC4Default,
     WxAES128Default, WxAES128Legacy, WxAES256Default, Ascon128Default,
     SqlCipherDefault, SqlCipher500k, SqlCipherV1, SqlCipherV2, SqlCipherV3,
     SqlCipherV4}

\* hmac_check on and off, the second with the legacy WAL format as well.
Switchings ==
    {[hmacCheck |-> TRUE, mcLegacyWAL |-> FALSE], [hmacCheck |-> FALSE, mcLegacyWAL |-> TRUE]}

\* Pairs of one cipher whose old parameters do not outlive the migration.
TestedPairs ==
    {<<SQLeet, ChaCha20Default>>, <<ChaCha20Default, SQLeet>>,
     <<ChaCha20Default, ChaCha20Custom>>, <<WxAES128Legacy, WxAES128Default>>,
     <<SqlCipherV4, SqlCipherDefault>>, <<SqlCipherDefault, SqlCipherV4>>,
     <<SqlCipherDefault, SqlCipher500k>>, <<SqlCipherV2, SqlCipherV3>>}

\* A change of cipher, a change of key only, and the pairs above.
SoundPairs ==
    {pair \in Configs \X Configs :
        pair[1].cipher # pair[2].cipher \/ pair[1] = pair[2]} \cup TestedPairs

\* The example in the documentation of EncryptionMigrationConfig.
DocumentedPairs == {<<SqlCipherV3, SqlCipher500k>>}

\* The hypothesis of the theorems: it holds of the pairs above, and not of the
\* documented one.
ASSUME SoundPairsAssumption == \A pair \in SoundPairs : SoundPair(pair)
ASSUME DocumentedPairsAssumption == \A pair \in DocumentedPairs : ~SoundPair(pair)
=============================================================================
