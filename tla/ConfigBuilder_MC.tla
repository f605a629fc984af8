----------------------------- MODULE ConfigBuilder_MC -----------------------------
(* Model values for ConfigBuilder. *)
EXTENDS ConfigBuilder

AllPresets ==
    {ChaCha20Default, SQLeet, RC4Default, WxAES128Default, WxAES256Default,
     Ascon128Default, SqlCipherDefault, SqlCipherV1, SqlCipherV2, SqlCipherV3,
     SqlCipherV4}

\* Values at and beyond the bounds, and those of the other versions, which a
\* statement has to name.
BoundarySetters ==
    ({"legacy"} \X {{-1}, {0}, {1}, {3}, {4}, {5}})
    \cup ({"legacy_page_size"} \X
             {{-1}, {0}, {511}, {512}, {1000}, {1024}, {4096}, {65536}, {65537}})
    \cup ({"kdf_iter"} \X {{0}, {1}, {4000}, {12345}, {64000}, {256000}, {MAX_INT}})
    \cup ({"fast_kdf_iter"} \X {{0}, {2}, {3}})
    \cup ({"hmac_use"} \X {{0}, {1}})
    \cup ({"hmac_pgno"} \X {{}, {0}, {1}, {2}})
    \cup ({"hmac_salt_mask"} \X {{}, {-128}, {0}, {58}, {127}})
    \cup ({"kdf_algorithm", "hmac_algorithm"} \X {{0}, {1}, {2}})
    \cup ({"plaintext_header_size"} \X {{}, {-16}, {0}, {16}, {40}, {96}, {100}, {112}})

\* One cipher, configured in every way that three calls allow.
OneCipher ==
    [presets |-> AllPresets, inherited |-> {}, setters |-> BoundarySetters,
     calls |-> [setters |-> 3, selections |-> 1, blocks |-> 1]]

\* Several blocks and selections, of few ciphers.
SeveralBlocks ==
    [presets |-> {ChaCha20Default, SqlCipherV3},
     inherited |-> {RC4Default, SqlCipherDefault},
     setters |-> {<<"kdf_iter", {4000}>>},
     calls |-> [setters |-> 1, selections |-> 3, blocks |-> 5]]

\* An Ascon configuration passed as "other".
AsconInherited ==
    [presets |-> {ChaCha20Default}, inherited |-> {Ascon128Default}, setters |-> {},
     calls |-> [setters |-> 0, selections |-> 2, blocks |-> 1]]

SoundApplications == {OneCipher, SeveralBlocks}
AsconApplications == {AsconInherited}
=============================================================================
